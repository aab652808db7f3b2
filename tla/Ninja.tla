------------------------------- MODULE Ninja -------------------------------
(***************************************************************************)
(* The ninja the harness runs (run_ninja of main.rs), modelled from how it *)
(* is run and from the file it is given.  ninja is not part of the         *)
(* repository.                                                             *)
(*                                                                         *)
(* A file's content is the set of all that went into it: versions of       *)
(* sources, generated files, commands.  A log also has the result its      *)
(* simulation printed.  Instead of times, each output remembers which      *)
(* inputs changed since the command that made it began.                    *)
(***************************************************************************)
EXTENDS NinjaFile

CONSTANTS
  Jobs,     \* -j
  Results   \* what a simulation prints after "res="

ASSUME JobsAssumption == Jobs \in Nat \ {0}

VARIABLES
  disk,         \* path -> [from, result], the files that exist
  build_ninja,  \* the configuration build.ninja was generated from, or NoFile
  ninja_log,    \* output -> [command, changed], kept in .ninja_log
  todo,         \* edges this run still has to start
  running,      \* edge -> [from, changed], the commands that run, with what
                \* they read and the inputs that changed since
  failed,       \* edges that failed in this run
  keep_going    \* -k 0

nvars == <<disk, build_ninja, ninja_log, todo, running, failed, keep_going>>

NoFile   == "no build.ninja"
NoResult == "nothing"

-----------------------------------------------------------------------------
(* The graph of each configuration, with the producers of each edge.       *)

(* The edges an edge needs, itself among them.                             *)
Upstream(edges, o) ==
  LET producers(p) == {q \in DOMAIN edges : q \cap edges[p].ins # {}}
      up[n \in 0..Cardinality(DOMAIN edges)] ==
        IF n = 0 THEN {o} ELSE up[n - 1] \cup UNION {producers(p) : p \in up[n - 1]}
  IN up[Cardinality(DOMAIN edges)]

(* All that is resolved goes into build.ninja, whatever was asked for.     *)
BuildGraph(c) == generate(c, AllHardware(c), AllSoftware(c), AllSimulations(c))

Generated == [s \in Sound |-> BuildGraph(Config[s])]

UpstreamsIn(edges) == [o \in DOMAIN edges |-> Upstream(edges, o)]

UpstreamOf == [s \in Sound |-> UpstreamsIn(Generated[s].edges)]

ASSUME GraphsAssumption == \A s \in Sound :
  /\ IsFiniteSet(DOMAIN Generated[s].edges)
  /\ \A o \in DOMAIN Generated[s].edges : IsFiniteSet(o)

EdgeOf(o) == Generated[build_ninja].edges[o]
Needs(o)  == UpstreamOf[build_ninja][o]

(* An edge that cannot begin before it has ended.                          *)
Circular(o) ==
  \E q \in DOMAIN Generated[build_ninja].edges :
    q \cap EdgeOf(o).ins # {} /\ o \in Needs(q)

(* The inputs an output has in some configuration: changes of other files  *)
(* are of no interest to it.                                               *)
InputsIn(graphs) == [p \in UNION {UNION DOMAIN graphs[s].edges : s \in Sound} |->
  UNION {UNION {graphs[s].edges[o].ins : o \in {q \in DOMAIN graphs[s].edges : p \in q}}
         : s \in Sound}]

InputsOf == InputsIn(Generated)

-----------------------------------------------------------------------------
ContentOf(p) == IF p \in DOMAIN disk THEN disk[p].from ELSE {}

Reads(o) == {EdgeOf(o).command} \cup UNION {ContentOf(p) : p \in EdgeOf(o).opens}

Written(paths, from, result) ==
  Over([p \in paths |-> [from |-> from, result |-> result]], disk)

Stamped(log, paths) == [p \in DOMAIN log |->
  [command |-> log[p].command, changed |-> log[p].changed \cup (paths \cap InputsOf[p])]]

Overtaken(commands, paths) == [o \in DOMAIN commands |->
  [from |-> commands[o].from,
   changed |-> commands[o].changed \cup (paths \cap UNION {InputsOf[p] : p \in o})]]

(* An edge is out of date if an output is missing or was never made here,  *)
(* if its command is another, or if an input is newer.                     *)
OutOfDate(o) == \E p \in o :
  \/ p \notin DOMAIN disk \/ p \notin DOMAIN ninja_log
  \/ ninja_log[p].command # EdgeOf(o).command
  \/ ninja_log[p].changed \cap EdgeOf(o).ins # {}

(* What must run for the targets: a file that is refused runs nothing, nor *)
(* does one in which something wanted needs itself.                        *)
Plan(targets) ==
  LET edges  == DOMAIN Generated[build_ninja].edges
      wanted == UNION {Needs(o) : o \in {q \in edges : q \cap targets # {}}}
      stale  == {o \in wanted : OutOfDate(o)}
  IN {o \in edges : /\ Generated[build_ninja].accepted /\ \A q \in wanted : ~Circular(q)
                    /\ o \in wanted /\ Needs(o) \cap stale # {}}

Blocked(o) == Needs(o) \cap failed # {}

Ready(o) ==
  /\ o \in todo /\ Cardinality(DOMAIN running) < Jobs
  /\ failed = {} \/ keep_going
  /\ Needs(o) \cap (todo \cup DOMAIN running \cup failed) = {o}

(* The command reads what is there when it begins.  The shell empties      *)
(* sim.log before run.sh runs.                                             *)
EdgeStart(o) ==
  /\ Ready(o)
  /\ todo' = todo \ {o}
  /\ running' = [q \in DOMAIN running \cup {o} |->
                   IF q = o THEN [from |-> Reads(o), changed |-> {}] ELSE running[q]]
  /\ disk' = IF EdgeOf(o).simulates THEN Written(o, {}, NoResult) ELSE disk
  /\ UNCHANGED <<build_ninja, ninja_log, failed, keep_going>>

EdgeSucceeds(o, result) ==
  /\ o \in DOMAIN running
  /\ result \in (IF EdgeOf(o).simulates THEN Results ELSE {NoResult})
  /\ disk' = Written(o, running[o].from, result)
  /\ ninja_log' = Over([p \in o |-> [command |-> EdgeOf(o).command,
                                     changed |-> running[o].changed \cap InputsOf[p]]],
                       Stamped(ninja_log, o))
  /\ running' = Overtaken(Restrict(running, DOMAIN running \ {o}), o)
  /\ UNCHANGED <<build_ninja, todo, failed, keep_going>>

(* A command that fails leaves the log entry of its outputs as it was.     *)
EdgeFails(o) ==
  /\ o \in DOMAIN running
  /\ failed' = failed \cup {o}
  /\ running' = Restrict(running, DOMAIN running \ {o})
  /\ UNCHANGED <<disk, build_ninja, ninja_log, todo, keep_going>>

Finished == DOMAIN running = {} /\ \A o \in todo : ~Ready(o)

(* Killed by ctrl-C: ninja removes the logs that were being written.       *)
Killed ==
  /\ running' = << >>
  /\ disk' = Restrict(disk, {p \in DOMAIN disk :
               \A o \in DOMAIN running : EdgeOf(o).simulates => p \notin o})
  /\ UNCHANGED <<build_ninja, ninja_log, todo, failed, keep_going>>
=============================================================================
