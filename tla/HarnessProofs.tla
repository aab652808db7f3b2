--------------------------- MODULE HarnessProofs ---------------------------
(***************************************************************************)
(* Proofs about Harness, whatever the configuration, the number of jobs,   *)
(* the edits and the interrupts: commands that run at once do not disturb  *)
(* each other if build.ninja tells the order in which files are made; a    *)
(* failure takes only what needs it; cleaning one experiment leaves the    *)
(* others; types.  And that ninja takes build.ninja, which tells the order,*)
(* of every harness.lua that gives the names that make a directory or a    *)
(* file once (NamedApart, OpensTold): the directory of a job determines    *)
(* the job, hence a file the edge that makes it.                           *)
(***************************************************************************)
EXTENDS Harness, FiniteSetTheorems, SequenceTheorems, WellFoundedInduction, TLAPS

(* While ninja works, of what a running command needs only itself is not   *)
(* made yet.  Edges exist only in a graph that was accepted, that of the   *)
(* configuration the command loaded.                                       *)
ConfigInv ==
  /\ pc \in {"resolved", "plan", "ninja"} => config \in Sound
  /\ pc \in {"plan", "ninja"} => build_ninja = config

IdleInv == pc # "ninja" => DOMAIN running = {}

EdgesInv ==
  pc = "ninja" => \A o \in todo \cup DOMAIN running :
    o \in DOMAIN Generated[build_ninja].edges /\ Generated[build_ninja].accepted

OrderInv ==
  pc = "ninja" => \A q \in DOMAIN running : Needs(q) \cap (todo \cup DOMAIN running) = {q}

IInv == ConfigInv /\ IdleInv /\ EdgesInv /\ OrderInv

LEMMA InitIInv == Init => IInv
  BY DEF Init, IInv, ConfigInv, IdleInv, EdgesInv, OrderInv

(* No running command of an accepted graph that tells the order writes     *)
(* what another opens or writes.                                           *)
LEMMA OrderKeepsApart ==
  ASSUME TellsOrder, IInv
  PROVE  NoReadWhileWritten
<1>1. SUFFICES ASSUME NEW o \in DOMAIN running, NEW q \in DOMAIN running, o # q
               PROVE  o \cap (q \cup EdgeOf(q).opens) = {}
  BY DEF NoReadWhileWritten
<1>2. pc = "ninja"
  BY DEF IInv, IdleInv
<1>3. /\ build_ninja \in Sound /\ Generated[build_ninja].accepted
      /\ o \in DOMAIN Generated[build_ninja].edges
      /\ q \in DOMAIN Generated[build_ninja].edges
  BY <1>2 DEF IInv, ConfigInv, EdgesInv
<1>4. o \notin Needs(q)
  BY <1>1, <1>2 DEF IInv, OrderInv
<1>5. OrderTold[build_ninja]
  BY <1>3 DEF TellsOrder
<1> QED
  BY <1>1, <1>3, <1>4, <1>5 DEF OrderTold, Needs, EdgeOf

(* What an edge needs is judged by build.ninja alone.                      *)
LEMMA NeedsStay ==
  ASSUME UNCHANGED build_ninja
  PROVE  \A o : Needs(o)' = Needs(o)
  BY DEF Needs

(* A step that leaves the running commands, and is not about to run any,   *)
(* keeps the invariant if it keeps to the configuration.                   *)
LEMMA OutsideNinja ==
  ASSUME IInv, pc # "ninja", pc' # "ninja", UNCHANGED running, ConfigInv'
  PROVE  IInv'
  BY DEF IInv, IdleInv, EdgesInv, OrderInv

(* Fewer edges left to make: the ones still running need no others.        *)
LEMMA FewerEdges ==
  ASSUME IInv, pc = "ninja", UNCHANGED <<pc, config, build_ninja>>,
         todo' \subseteq todo, DOMAIN running' \subseteq DOMAIN running
  PROVE  IInv'
<1>1. ConfigInv' /\ IdleInv'
  BY DEF IInv, ConfigInv, IdleInv
<1>2. EdgesInv'
  BY DEF IInv, EdgesInv
<1>3. ASSUME NEW q \in DOMAIN running'
      PROVE  Needs(q)' \cap (todo' \cup DOMAIN running') = {q}
  <2>1. Needs(q) \cap (todo \cup DOMAIN running) = {q}
    BY <1>3 DEF IInv, OrderInv
  <2> QED
    BY <1>3, <2>1, NeedsStay
<1> QED
  BY <1>1, <1>2, <1>3 DEF IInv, OrderInv

(* A command begins: it was ready, so that of what it needs only itself is *)
(* left, and what the others need is what it was.                          *)
LEMMA EdgeStartIInv ==
  ASSUME IInv, pc = "ninja", NEW o \in todo, EdgeStart(o), UNCHANGED hvars
  PROVE  IInv'
<1> USE DEF hvars
<1>1. /\ todo' = todo \ {o} /\ DOMAIN running' = DOMAIN running \cup {o}
      /\ UNCHANGED build_ninja
  BY DEF EdgeStart
<1>2. ConfigInv' /\ IdleInv'
  BY <1>1 DEF IInv, ConfigInv, IdleInv
<1>3. EdgesInv'
  BY <1>1 DEF IInv, EdgesInv
<1>4. ASSUME NEW q \in DOMAIN running'
      PROVE  Needs(q)' \cap (todo' \cup DOMAIN running') = {q}
  <2>1. CASE q = o
    <3>1. Needs(o) \cap (todo \cup DOMAIN running \cup failed) = {o}
      BY DEF EdgeStart, Ready
    <3> QED
      BY <1>1, <2>1, <3>1, NeedsStay
  <2>2. CASE q # o
    <3>1. Needs(q) \cap (todo \cup DOMAIN running) = {q}
      BY <1>1, <1>4, <2>2 DEF IInv, OrderInv
    <3> QED
      BY <1>1, <3>1, NeedsStay
  <2> QED
    BY <2>1, <2>2
<1> QED
  BY <1>2, <1>3, <1>4 DEF IInv, OrderInv

(* Every step of the harness, of ninja and of the user.                    *)
LEMMA StepIInv ==
  ASSUME IInv, [Next]_vars
  PROVE  IInv'
<1> USE DEF Stays, Ends
<1>1. CASE Load
  BY <1>1, OutsideNinja DEF Load, ConfigInv
<1>2. CASE CleanAll
  BY <1>2, OutsideNinja DEF CleanAll, ConfigInv
<1>3. CASE resolve_all_jobs
  BY <1>3, OutsideNinja DEF resolve_all_jobs, ConfigInv
<1>4. CASE Gen \/ List \/ NotFound \/ Analyze \/ NothingToDo \/ Clean
  BY <1>4, OutsideNinja
     DEF Gen, List, NotFound, Analyze, NothingToDo, Clean, ConfigInv, nvars
<1>5. CASE Simulate \/ Compile
  <2>1. /\ pc = "resolved" /\ pc' = "plan" /\ UNCHANGED <<config, running>>
        /\ build_ninja' = config
    BY <1>5 DEF Simulate, Compile, AskNinja
  <2> QED
    BY <2>1, OutsideNinja DEF IInv, ConfigInv
<1>6. CASE NinjaBegins
  <2>1. DOMAIN running' = {}
    BY <1>6 DEF NinjaBegins, IInv, IdleInv
  <2>2. ConfigInv' /\ IdleInv' /\ OrderInv'
    BY <1>6, <2>1 DEF NinjaBegins, IInv, ConfigInv, IdleInv, OrderInv
  <2>3. EdgesInv'
    BY <1>6, <2>1 DEF NinjaBegins, Plan, EdgesInv
  <2> QED
    BY <2>2, <2>3 DEF IInv
<1>7. CASE NinjaWorks
  <2>1. pc = "ninja" /\ UNCHANGED hvars
    BY <1>7 DEF NinjaWorks
  <2>2. ASSUME NEW o \in todo, EdgeStart(o)
        PROVE  IInv'
    BY <2>1, <2>2, EdgeStartIInv
  <2>3. ASSUME NEW o \in DOMAIN running, NEW r, EdgeSucceeds(o, r)
        PROVE  IInv'
    <3>1. DOMAIN running' \subseteq DOMAIN running
      BY <2>3 DEF EdgeSucceeds, Overtaken, Restrict
    <3> QED
      BY <2>1, <2>3, <3>1, FewerEdges DEF EdgeSucceeds, hvars
  <2> QED
    BY <1>7, <2>2, <2>3 DEF NinjaWorks
<1>8. CASE NinjaFails
  <2>1. PICK o \in DOMAIN running : EdgeFails(o)
    BY <1>8 DEF NinjaFails
  <2>2. DOMAIN running' \subseteq DOMAIN running
    BY <2>1 DEF EdgeFails, Restrict
  <2> QED
    BY <1>8, <2>1, <2>2, FewerEdges DEF NinjaFails, EdgeFails
<1>9. CASE NinjaEnds
  <2>1. DOMAIN running' = {} /\ pc' \in {"analyse", "idle"}
    BY <1>9 DEF NinjaEnds, Finished, nvars
  <2> QED
    BY <2>1 DEF IInv, ConfigInv, IdleInv, EdgesInv, OrderInv
<1>10. CASE run_analysis
  BY <1>10, OutsideNinja DEF run_analysis, ConfigInv, nvars
<1>11. ASSUME NEW p \in Editable, EditSource(p)
       PROVE  IInv'
  <2>1. /\ DOMAIN running' = DOMAIN running
        /\ UNCHANGED <<pc, config, build_ninja, todo>>
    BY <1>11 DEF EditSource, Overtaken
  <2>2. CASE pc = "ninja"
    BY <2>1, <2>2, FewerEdges
  <2>3. CASE pc # "ninja"
    BY <2>1, <2>3 DEF IInv, ConfigInv, IdleInv, EdgesInv, OrderInv
  <2> QED
    BY <2>2, <2>3
<1>12. CASE UNCHANGED <<pc, config, build_ninja, todo, running>>
  BY <1>12, NeedsStay DEF IInv, ConfigInv, IdleInv, EdgesInv, OrderInv
<1>13. ASSUME NEW s \in Versions, EditScript(s)
       PROVE  IInv'
  BY <1>12, <1>13 DEF EditScript, nvars
<1>14. CASE Interrupt
  <2>1. DOMAIN running' = {} /\ pc' = "idle"
    BY <1>14 DEF Interrupt, Killed
  <2> QED
    BY <2>1 DEF IInv, ConfigInv, IdleInv, EdgesInv, OrderInv
<1>15. CASE UNCHANGED vars
  BY <1>12, <1>15 DEF vars, nvars, hvars
<1> QED
  BY <1>1, <1>2, <1>3, <1>4, <1>5, <1>6, <1>7, <1>8, <1>9, <1>10, <1>11, <1>13, <1>14,
     <1>15 DEF Next, Command, User

(* For every configuration, program, command line and edit, with any       *)
(* number of jobs: as long as what the commands open is ordered by what    *)
(* ninja is told (hw.rs:90, sw.rs:92, sim.rs:44), no two commands that run *)
(* at once touch each other's files.                                       *)
THEOREM CommandsKeepApart == Spec => [](TellsOrder => NoReadWhileWritten)
<1>1. IInv => (TellsOrder => NoReadWhileWritten)
  BY OrderKeepsApart
<1> QED
  BY <1>1, InitIInv, StepIInv, PTL DEF Spec

-----------------------------------------------------------------------------
(* Counting up: what holds of 0 and is handed on holds up to N.            *)
LEMMA Counting ==
  ASSUME NEW N \in Nat, NEW T, 0 \in T,
         \A n \in 0 .. N-1 : n \in T => n+1 \in T
  PROVE  \A n \in 0 .. N : n \in T
<1> SUFFICES ASSUME NEW m \in 0 .. N, m \notin T PROVE FALSE
  OBVIOUS
<1> DEFINE F == {0 .. x : x \in {k \in 0 .. N : k \notin T}}
<1>1. IsWellFoundedOn(StrictSubsetOrdering(0 .. N), FiniteSubsetsOf(0 .. N))
  BY FS_StrictSubsetOrderingWellFounded
<1>2. F \subseteq FiniteSubsetsOf(0 .. N) /\ F # {}
  <2>1. \A x \in 0 .. N : 0 .. x \subseteq 0 .. N /\ IsFiniteSet(0 .. x)
    BY FS_Interval
  <2> QED
    BY <2>1 DEF FiniteSubsetsOf
<1>3. \E A \in F : \A B \in F : ~(<<B, A>> \in StrictSubsetOrdering(0 .. N))
  <2> HIDE DEF F
  <2> QED
    BY <1>1, <1>2, WFMin
<1>4. PICK x \in 0 .. N : /\ x \notin T
                          /\ \A B \in F : ~(<<B, 0 .. x>> \in StrictSubsetOrdering(0 .. N))
  BY <1>3
<1>5. x # 0 /\ x-1 \in 0 .. N-1 /\ x-1 \notin T
  <2>1. x # 0
    BY <1>4
  <2>2. x-1 \in 0 .. N-1 /\ (x-1)+1 = x
    BY <2>1
  <2> QED
    BY <1>4, <2>1, <2>2
<1>6. 0 .. x-1 \in F
  BY <1>5
<1>7. /\ 0 .. x-1 \subseteq 0 .. N /\ 0 .. x \subseteq 0 .. N
      /\ 0 .. x-1 \subseteq 0 .. x /\ 0 .. x-1 # 0 .. x
  <2>1. x \in 0 .. x /\ x \notin 0 .. x-1
    OBVIOUS
  <2> QED
    BY <1>5, <2>1
<1>8. <<0 .. x-1, 0 .. x>> \in StrictSubsetOrdering(0 .. N)
  BY <1>7 DEF StrictSubsetOrdering
<1> QED
  BY <1>4, <1>6, <1>8

-----------------------------------------------------------------------------
(* The graph of a build.ninja: edges with what makes their inputs.         *)

Producers(edges, p) == {q \in DOMAIN edges : q \cap edges[p].ins # {}}

WithProducers(edges, X) == X \cup UNION {Producers(edges, p) : p \in X}

(* The steps in which Upstream collects what an edge needs.                *)
IsSteps(f, edges, o, N) ==
  f = [n \in 0 .. N |-> IF n = 0 THEN {o} ELSE WithProducers(edges, f[n-1])]

LEMMA StepsExist ==
  ASSUME NEW edges, NEW o, NEW N \in Nat
  PROVE  \E f : IsSteps(f, edges, o, N)
<1> DEFINE T == {n \in 0 .. N : \E f : IsSteps(f, edges, o, n)}
<1>1. 0 \in T
  <2>1. IsSteps([n \in 0 .. 0 |-> {o}], edges, o, 0)
    BY DEF IsSteps
  <2> QED
    BY <2>1
<1>2. ASSUME NEW n \in 0 .. N-1, n \in T
      PROVE  n+1 \in T
  <2>1. PICK f : IsSteps(f, edges, o, n)
    BY <1>2
  <2> DEFINE g == [k \in 0 .. n+1 |-> IF k = n+1 THEN WithProducers(edges, f[n])
                                      ELSE f[k]]
  <2>2. ASSUME NEW k \in 0 .. n+1
        PROVE  g[k] = IF k = 0 THEN {o} ELSE WithProducers(edges, g[k-1])
    <3>1. CASE k = n+1
      <4>1. k # 0 /\ k-1 = n /\ n \in 0 .. n+1 /\ n # n+1
        BY <3>1
      <4>2. g[k-1] = f[n]
        BY <4>1
      <4> QED
        BY <3>1, <4>1, <4>2
    <3>2. CASE k = 0
      <4>1. 0 \in 0 .. n /\ 0 # n+1
        OBVIOUS
      <4>2. f[0] = {o}
        BY <2>1, <4>1 DEF IsSteps
      <4> QED
        BY <3>2, <4>1, <4>2
    <3>3. CASE k # 0 /\ k # n+1
      <4>1. k \in 0 .. n /\ k-1 \in 0 .. n+1 /\ k-1 # n+1
        BY <3>3
      <4>2. f[k] = WithProducers(edges, f[k-1])
        BY <2>1, <3>3, <4>1 DEF IsSteps
      <4>3. g[k-1] = f[k-1]
        BY <4>1
      <4>4. g[k] = f[k]
        BY <3>3
      <4> QED
        BY <3>3, <4>2, <4>3, <4>4
    <3> QED
      BY <3>1, <3>2, <3>3
  <2>3. g = [k \in 0 .. n+1 |-> IF k = 0 THEN {o} ELSE WithProducers(edges, g[k-1])]
    <3>1. g = [k \in 0 .. n+1 |-> g[k]]
      OBVIOUS
    <3> HIDE DEF g
    <3> QED
      BY <2>2, <3>1
  <2>4. IsSteps(g, edges, o, n+1)
    BY <2>3 DEF IsSteps
  <2> QED
    BY <2>4
<1>3. N \in T
  <2> HIDE DEF T
  <2> QED
    BY <1>1, <1>2, Counting
<1> QED
  BY <1>3

(* Upstream is the last of them.                                           *)
LEMMA UpstreamIsLast ==
  ASSUME NEW edges, NEW o, IsFiniteSet(DOMAIN edges)
  PROVE  \E f : /\ IsSteps(f, edges, o, Cardinality(DOMAIN edges))
                /\ Upstream(edges, o) = f[Cardinality(DOMAIN edges)]
<1> DEFINE N == Cardinality(DOMAIN edges)
           up == CHOOSE f : IsSteps(f, edges, o, N)
<1>1. N \in Nat
  BY FS_CardinalityType
<1>2. IsSteps(up, edges, o, N)
  BY <1>1, StepsExist
<1>3. Upstream(edges, o) = up[N]
  BY DEF Upstream, IsSteps, WithProducers, Producers
<1> QED
  BY <1>2, <1>3

(* Each step keeps what the one before collected.                          *)
LEMMA StepFacts ==
  ASSUME NEW edges, NEW o \in DOMAIN edges, NEW N \in Nat, NEW f, IsSteps(f, edges, o, N)
  PROVE  /\ f[0] = {o}
         /\ \A n \in 0 .. N-1 : f[n+1] = WithProducers(edges, f[n]) /\ f[n] \subseteq f[n+1]
         /\ \A n \in 0 .. N : o \in f[n] /\ f[n] \subseteq DOMAIN edges
<1>1. f[0] = {o}
  BY DEF IsSteps
<1>2. ASSUME NEW n \in 0 .. N-1
      PROVE  f[n+1] = WithProducers(edges, f[n]) /\ f[n] \subseteq f[n+1]
  <2>1. n+1 \in 0 .. N /\ n+1 # 0 /\ (n+1)-1 = n
    OBVIOUS
  <2>2. f[n+1] = WithProducers(edges, f[n])
    BY <2>1 DEF IsSteps
  <2> QED
    BY <2>2 DEF WithProducers
<1> DEFINE T == {n \in 0 .. N : o \in f[n] /\ f[n] \subseteq DOMAIN edges}
<1>3. 0 \in T
  BY <1>1
<1>4. ASSUME NEW n \in 0 .. N-1, n \in T
      PROVE  n+1 \in T
  BY <1>2, <1>4 DEF WithProducers, Producers
<1>5. \A n \in 0 .. N : n \in T
  <2> HIDE DEF T
  <2> QED
    BY <1>3, <1>4, Counting
<1> QED
  BY <1>1, <1>2, <1>5

(* A step that collects nothing is followed by no other that does.         *)
LEMMA StepsStop ==
  ASSUME NEW edges, NEW o \in DOMAIN edges, NEW N \in Nat, NEW f, IsSteps(f, edges, o, N),
         NEW n \in 0 .. N-1, f[n+1] = f[n]
  PROVE  WithProducers(edges, f[N]) = f[N]
<1> DEFINE T == {k \in 0 .. N-n : f[n+k] = f[n]}
<1>1. 0 \in T /\ N-n \in Nat
  OBVIOUS
<1>2. ASSUME NEW k \in 0 .. (N-n)-1, k \in T
      PROVE  k+1 \in T
  <2>1. n+k \in 0 .. N-1 /\ (n+k)+1 = n+(k+1) /\ k+1 \in 0 .. N-n
    BY <1>2
  <2>2. f[(n+k)+1] = WithProducers(edges, f[n+k]) /\ f[n+1] = WithProducers(edges, f[n])
    BY <2>1, StepFacts
  <2>3. f[n+k] = f[n]
    BY <1>2
  <2> QED
    BY <2>1, <2>2, <2>3
<1>3. \A k \in 0 .. N-n : k \in T
  <2> HIDE DEF T
  <2> QED
    BY <1>1, <1>2, Counting
<1>4. N-n \in T /\ n + (N-n) = N
  BY <1>3
<1>5. f[N] = f[n]
  BY <1>4
<1> QED
  BY <1>5, StepFacts

(* There are not enough edges for every step to collect one.               *)
LEMMA StepsClosed ==
  ASSUME NEW edges, NEW o \in DOMAIN edges, IsFiniteSet(DOMAIN edges), NEW f,
         IsSteps(f, edges, o, Cardinality(DOMAIN edges))
  PROVE  WithProducers(edges, f[Cardinality(DOMAIN edges)]) = f[Cardinality(DOMAIN edges)]
<1> PICK N \in Nat : N = Cardinality(DOMAIN edges)
  BY FS_CardinalityType
<1> SUFFICES ASSUME WithProducers(edges, f[N]) # f[N] PROVE FALSE
  OBVIOUS
<1>1. \A n \in 0 .. N : IsFiniteSet(f[n]) /\ Cardinality(f[n]) \in Nat /\ Cardinality(f[n]) <= N
  BY StepFacts, FS_Subset, FS_CardinalityType
<1> DEFINE T == {n \in 0 .. N : Cardinality(f[n]) >= n+1}
<1>2. 0 \in T
  <2>1. f[0] = {o}
    BY StepFacts
  <2>2. Cardinality({o}) = 1
    BY FS_Singleton
  <2> QED
    BY <2>1, <2>2
<1>3. ASSUME NEW n \in 0 .. N-1, n \in T
      PROVE  n+1 \in T
  <2>1. n \in 0 .. N /\ n+1 \in 0 .. N
    OBVIOUS
  <2>2. f[n] \subseteq f[n+1] /\ f[n] # f[n+1]
    BY StepFacts, StepsStop
  <2>3. Cardinality(f[n]) < Cardinality(f[n+1])
    BY <1>1, <2>1, <2>2, FS_Subset
  <2>4. Cardinality(f[n]) >= n+1
    BY <1>3
  <2> QED
    BY <1>1, <2>1, <2>3, <2>4
<1>4. \A n \in 0 .. N : n \in T
  <2> HIDE DEF T
  <2> QED
    BY <1>2, <1>3, Counting
<1>5. Cardinality(f[N]) >= N+1
  BY <1>4
<1> QED
  BY <1>1, <1>5

(* What an edge needs is the least set of edges that holds the edge and    *)
(* whatever makes an input of one of its own.                              *)
LEMMA UpstreamClosed ==
  ASSUME NEW edges, NEW o \in DOMAIN edges, IsFiniteSet(DOMAIN edges)
  PROVE  /\ o \in Upstream(edges, o) /\ Upstream(edges, o) \subseteq DOMAIN edges
         /\ \A p \in Upstream(edges, o) : Producers(edges, p) \subseteq Upstream(edges, o)
<1> PICK N \in Nat : N = Cardinality(DOMAIN edges)
  BY FS_CardinalityType
<1>1. PICK f : IsSteps(f, edges, o, N) /\ Upstream(edges, o) = f[N]
  BY UpstreamIsLast
<1>2. WithProducers(edges, f[N]) = f[N]
  BY <1>1, StepsClosed
<1>3. o \in f[N] /\ f[N] \subseteq DOMAIN edges
  BY <1>1, StepFacts
<1> QED
  BY <1>1, <1>2, <1>3 DEF WithProducers

LEMMA UpstreamLeast ==
  ASSUME NEW edges, NEW o \in DOMAIN edges, IsFiniteSet(DOMAIN edges), NEW X, o \in X,
         \A p \in X \cap DOMAIN edges : Producers(edges, p) \subseteq X
  PROVE  Upstream(edges, o) \subseteq X
<1> PICK N \in Nat : N = Cardinality(DOMAIN edges)
  BY FS_CardinalityType
<1>1. PICK f : IsSteps(f, edges, o, N) /\ Upstream(edges, o) = f[N]
  BY UpstreamIsLast
<1> DEFINE T == {n \in 0 .. N : f[n] \subseteq X}
<1>2. 0 \in T
  BY <1>1, StepFacts
<1>3. ASSUME NEW n \in 0 .. N-1, n \in T
      PROVE  n+1 \in T
  <2>1. n \in 0 .. N /\ n+1 \in 0 .. N
    OBVIOUS
  <2>2. f[n+1] = WithProducers(edges, f[n]) /\ f[n] \subseteq DOMAIN edges
    BY <1>1, <2>1, StepFacts
  <2>3. f[n] \subseteq X
    BY <1>3
  <2> QED
    BY <2>1, <2>2, <2>3 DEF WithProducers
<1>4. \A n \in 0 .. N : n \in T
  <2> HIDE DEF T
  <2> QED
    BY <1>2, <1>3, Counting
<1> QED
  BY <1>1, <1>4

-----------------------------------------------------------------------------
(* What is left when ninja ends.                                           *)

Edges == DOMAIN Generated[build_ninja].edges

LEMMA NeedsFacts ==
  ASSUME build_ninja \in Sound, NEW o \in Edges
  PROVE  /\ o \in Needs(o) /\ Needs(o) \subseteq Edges
         /\ \A q \in Needs(o) : Needs(q) \subseteq Needs(o)
         /\ \A q \in Needs(o) : q # o =>
              \E p \in Edges : p \cap EdgeOf(o).ins # {} /\ q \in Needs(p)
<1> DEFINE edges == Generated[build_ninja].edges
<1>1. \A q \in Edges : Needs(q) = Upstream(edges, q)
  BY DEF Needs, UpstreamOf, UpstreamsIn, Edges
<1>2. IsFiniteSet(DOMAIN edges) /\ DOMAIN edges = Edges
  BY GraphsAssumption DEF Edges
<1> HIDE DEF edges
<1>3. \A q \in Edges : /\ q \in Needs(q) /\ Needs(q) \subseteq Edges
                       /\ \A p \in Needs(q) : Producers(edges, p) \subseteq Needs(q)
  <2> TAKE q \in Edges
  <2>1. /\ q \in Upstream(edges, q) /\ Upstream(edges, q) \subseteq DOMAIN edges
        /\ \A p \in Upstream(edges, q) : Producers(edges, p) \subseteq Upstream(edges, q)
    BY <1>2, UpstreamClosed
  <2> QED
    BY <1>1, <1>2, <2>1
<1>4. ASSUME NEW q \in Needs(o)
      PROVE  Needs(q) \subseteq Needs(o)
  <2>1. q \in DOMAIN edges /\ \A p \in Needs(o) : Producers(edges, p) \subseteq Needs(o)
    BY <1>2, <1>3, <1>4
  <2>2. Upstream(edges, q) \subseteq Needs(o)
    BY <1>2, <1>4, <2>1, UpstreamLeast
  <2> QED
    BY <1>1, <1>2, <2>1, <2>2
<1>5. ASSUME NEW q \in Needs(o), q # o
      PROVE  \E p \in Edges : p \cap EdgeOf(o).ins # {} /\ q \in Needs(p)
  <2> DEFINE X == {o} \cup UNION {Needs(p) : p \in Producers(edges, o)}
  <2>1. Producers(edges, o) \subseteq Edges
    BY <1>2 DEF Producers
  <2>2. ASSUME NEW p \in X PROVE Producers(edges, p) \subseteq X
    <3>1. CASE p = o
      BY <1>3, <2>1, <3>1
    <3>2. CASE p # o
      <4>1. PICK r \in Producers(edges, o) : p \in Needs(r)
        BY <3>2
      <4>2. Producers(edges, p) \subseteq Needs(r)
        BY <1>3, <2>1, <4>1
      <4> QED
        BY <4>1, <4>2
    <3> QED
      BY <3>1, <3>2
  <2>3. Upstream(edges, o) \subseteq X
    <3>1. o \in X /\ o \in DOMAIN edges
      BY <1>2
    <3> HIDE DEF X
    <3> QED
      BY <1>2, <2>2, <3>1, UpstreamLeast
  <2>4. PICK p \in Producers(edges, o) : q \in Needs(p)
    BY <1>1, <1>5, <2>3
  <2>5. p \in Edges /\ p \cap edges[o].ins # {}
    BY <1>2, <2>4 DEF Producers
  <2> QED
    BY <2>4, <2>5 DEF EdgeOf, edges
<1> QED
  BY <1>3, <1>4, <1>5

LEMMA NeedsApart ==
  ASSUME build_ninja \in Sound, NEW o \in Edges, ~Circular(o), NEW q \in Needs(o), q # o
  PROVE  o \notin Needs(q)
<1> SUFFICES ASSUME o \in Needs(q) PROVE FALSE
  OBVIOUS
<1>1. PICK p \in Edges : p \cap EdgeOf(o).ins # {} /\ q \in Needs(p)
  BY NeedsFacts
<1>2. Needs(q) \subseteq Needs(p)
  BY <1>1, NeedsFacts
<1> QED
  BY <1>1, <1>2 DEF Circular, Edges

(* Of a set of edges that are not circular some needs none of the others.  *)
LEMMA FirstOfEdges ==
  ASSUME build_ninja \in Sound, NEW U, U \subseteq Edges, U # {}, \A o \in U : ~Circular(o)
  PROVE  \E o \in U : Needs(o) \cap U = {o}
<1> DEFINE F == {Needs(o) : o \in U}
<1>1. IsWellFoundedOn(StrictSubsetOrdering(Edges), FiniteSubsetsOf(Edges))
  BY FS_StrictSubsetOrderingWellFounded
<1>2. F \subseteq FiniteSubsetsOf(Edges) /\ F # {}
  <2>1. IsFiniteSet(Edges)
    BY GraphsAssumption DEF Edges
  <2>2. \A o \in U : Needs(o) \subseteq Edges /\ IsFiniteSet(Needs(o))
    BY <2>1, NeedsFacts, FS_Subset
  <2> QED
    BY <2>2 DEF FiniteSubsetsOf
<1>3. \E A \in F : \A B \in F : ~(<<B, A>> \in StrictSubsetOrdering(Edges))
  <2> HIDE DEF F
  <2> QED
    BY <1>1, <1>2, WFMin
<1>4. PICK o \in U : \A B \in F : ~(<<B, Needs(o)>> \in StrictSubsetOrdering(Edges))
  BY <1>3
<1>5. ASSUME NEW q \in Needs(o) \cap U, q # o
      PROVE  FALSE
  <2>1. o \in Edges /\ q \in Edges
    OBVIOUS
  <2>2. /\ Needs(q) \subseteq Needs(o) /\ Needs(o) \subseteq Edges
        /\ o \in Needs(o) /\ o \notin Needs(q)
    BY <1>5, <2>1, NeedsFacts, NeedsApart
  <2>3. <<Needs(q), Needs(o)>> \in StrictSubsetOrdering(Edges)
    BY <2>2 DEF StrictSubsetOrdering
  <2> QED
    BY <1>4, <2>3
<1>6. o \in Needs(o)
  BY NeedsFacts
<1> QED
  BY <1>5, <1>6

(* Nothing runs and nothing is ready: under -k 0, or if nothing failed,    *)
(* only what failed can be in the way.                                     *)
LEMMA FinishedBlocked ==
  ASSUME build_ninja \in Sound, keep_going \/ failed = {}, Finished, todo \subseteq Edges,
         \A o \in todo : ~Circular(o)
  PROVE  \A o \in todo : Blocked(o)
<1> DEFINE U == {o \in todo : ~Blocked(o)}
<1> SUFFICES ASSUME U # {} PROVE FALSE
  OBVIOUS
<1>1. PICK o \in U : Needs(o) \cap U = {o}
  <2>1. U \subseteq Edges /\ \A o \in U : ~Circular(o)
    OBVIOUS
  <2> HIDE DEF U
  <2> QED
    BY <2>1, FirstOfEdges
<1>2. Cardinality(DOMAIN running) < Jobs /\ DOMAIN running = {}
  BY JobsAssumption, FS_EmptySet DEF Finished
<1>3. Needs(o) \cap (todo \cup failed) # {o}
  BY <1>2 DEF Finished, Ready
<1>4. o \in Needs(o) /\ \A q \in Needs(o) : Needs(q) \subseteq Needs(o)
  BY NeedsFacts
<1>5. PICK q \in Needs(o) \cap todo : q # o
  BY <1>1, <1>3, <1>4 DEF Blocked
<1>6. Blocked(q)
  BY <1>1, <1>5
<1> QED
  BY <1>1, <1>4, <1>5, <1>6 DEF Blocked

(* What is left is blocked from the end of ninja until the next command.   *)
KeepInv ==
  /\ pc \in {"loaded", "resolved", "plan"} => todo = {}
  /\ pc \in {"plan", "ninja"} /\ cmd.command = "simulate" => keep_going
  /\ pc = "ninja" => \A o \in todo : ~Circular(o)
  /\ pc = "analyse" \/ (pc = "idle" /\ outcome = "done") =>
       (cmd.command = "simulate" \/ failed = {} => \A o \in todo : Blocked(o))

LEMMA InitKeepInv == Init => KeepInv
  BY DEF Init, KeepInv

(* The graph is that of build.ninja.                                       *)
LEMMA GraphStays ==
  ASSUME UNCHANGED build_ninja
  PROVE  /\ \A o : Circular(o)' <=> Circular(o)
         /\ UNCHANGED failed => \A o : Blocked(o)' <=> Blocked(o)
  BY DEF Circular, Blocked, Needs, EdgeOf

(* A step of a command that has nothing to do yet.                         *)
LEMMA NothingLeft ==
  ASSUME todo' = {}, pc' \notin {"plan", "ninja"}
  PROVE  KeepInv'
  BY DEF KeepInv

(* Commands end, the edges left become fewer, and nothing else fails.      *)
LEMMA WhileNinjaWorks ==
  ASSUME KeepInv, pc = "ninja", UNCHANGED <<pc, cmd, build_ninja, keep_going>>,
         todo' \subseteq todo
  PROVE  KeepInv'
  BY GraphStays DEF KeepInv

LEMMA StepKeepInv ==
  ASSUME IInv, KeepInv, [Next]_vars
  PROVE  KeepInv'
<1> USE DEF Stays, Ends
<1>1. CASE Load
  BY <1>1, NothingLeft DEF Load
<1>2. CASE CleanAll \/ resolve_all_jobs
  <2>1. todo' = {} /\ pc' \in {"idle", "resolved"}
    BY <1>2 DEF CleanAll, resolve_all_jobs, KeepInv
  <2> QED
    BY <2>1, NothingLeft
<1>3. CASE Gen \/ List \/ NotFound \/ Analyze \/ NothingToDo \/ Clean
  <2>1. todo' = {} /\ pc' \in {"idle", "analyse"}
    BY <1>3 DEF Gen, List, NotFound, Analyze, NothingToDo, Clean, nvars, KeepInv
  <2> QED
    BY <2>1, NothingLeft
<1>4. CASE Simulate \/ Compile
  BY <1>4 DEF Simulate, Compile, AskNinja, KeepInv
<1>5. CASE NinjaBegins
  <2>1. /\ pc = "plan" /\ pc' = "ninja" /\ UNCHANGED <<cmd, keep_going, build_ninja>>
        /\ todo' = Plan(ToSet(targets))
    BY <1>5 DEF NinjaBegins
  <2>2. \A o \in todo' : ~Circular(o)
    BY <2>1 DEF Plan
  <2> QED
    BY <2>1, <2>2, GraphStays DEF KeepInv
<1>6. CASE NinjaWorks
  <2>1. /\ pc = "ninja" /\ UNCHANGED <<pc, cmd, build_ninja, keep_going>>
        /\ todo' \subseteq todo
    BY <1>6 DEF NinjaWorks, EdgeStart, EdgeSucceeds, hvars
  <2> QED
    BY <2>1, WhileNinjaWorks
<1>7. CASE NinjaFails
  <2>1. /\ pc = "ninja" /\ UNCHANGED <<pc, cmd, build_ninja, keep_going>>
        /\ todo' \subseteq todo
    BY <1>7 DEF NinjaFails, EdgeFails
  <2> QED
    BY <2>1, WhileNinjaWorks
<1>8. CASE NinjaEnds
  <2>1. /\ pc = "ninja" /\ Finished /\ pc' \in {"analyse", "idle"}
        /\ UNCHANGED <<cmd, build_ninja, todo, failed>>
    BY <1>8 DEF NinjaEnds, nvars
  <2>2. /\ build_ninja \in Sound /\ todo \subseteq Edges
        /\ \A o \in todo : ~Circular(o)
        /\ cmd.command = "simulate" => keep_going
    BY <2>1 DEF IInv, ConfigInv, EdgesInv, KeepInv, Edges
  <2>3. cmd.command = "simulate" \/ failed = {} => \A o \in todo : Blocked(o)
    BY <2>1, <2>2, FinishedBlocked
  <2> QED
    BY <2>1, <2>3, GraphStays DEF KeepInv
<1>9. CASE run_analysis
  BY <1>9, GraphStays DEF run_analysis, nvars, KeepInv
<1>10. CASE UNCHANGED <<pc, cmd, outcome, build_ninja, keep_going, todo, failed>>
  BY <1>10, GraphStays DEF KeepInv
<1>11. CASE UNCHANGED vars
  BY <1>10, <1>11 DEF vars, nvars, hvars
<1>12. ASSUME NEW p \in Editable, EditSource(p)
       PROVE  KeepInv'
  BY <1>10, <1>12 DEF EditSource
<1>13. ASSUME NEW s \in Versions, EditScript(s)
       PROVE  KeepInv'
  BY <1>10, <1>13 DEF EditScript, nvars
<1>14. CASE Interrupt
  BY <1>14 DEF Interrupt, KeepInv
<1> QED
  BY <1>1, <1>2, <1>3, <1>4, <1>5, <1>6, <1>7, <1>8, <1>9, <1>11, <1>12, <1>13, <1>14
     DEF Next, Command, User

(* After a simulation, whatever failed or was interrupted before and       *)
(* during it, and whatever the graph: each edge that was not made needs    *)
(* one that failed (main.rs:232).                                          *)
THEOREM NinjaKeepsGoing == Spec => []KeepsGoing
<1>1. KeepInv => KeepsGoing
  BY DEF KeepInv, KeepsGoing, Settled
<1> QED
  BY <1>1, InitIInv, StepIInv, InitKeepInv, StepKeepInv, PTL DEF Spec

-----------------------------------------------------------------------------
(* Joining sequences, one after the other.                                 *)
IsJoin(f, ss, n) ==
  f = [i \in 1 .. n |-> IF i = 1 THEN ss[i] ELSE f[i-1] \o ss[i]]

LEMMA JoinsExist ==
  ASSUME NEW ss, NEW N \in Nat
  PROVE  \E f : IsJoin(f, ss, N)
<1> DEFINE T == {n \in 0 .. N : \E f : IsJoin(f, ss, n)}
<1>1. 0 \in T
  <2> DEFINE f0 == [i \in 1 .. 0 |-> <<>>]
  <2>1. \A i \in 1 .. 0 : FALSE
    OBVIOUS
  <2>2. f0 = [i \in 1 .. 0 |-> f0[i]]
    OBVIOUS
  <2>3. IsJoin(f0, ss, 0)
    <3> HIDE DEF f0
    <3> QED
      BY <2>1, <2>2 DEF IsJoin
  <2> QED
    BY <2>3
<1>2. ASSUME NEW n \in 0 .. N-1, n \in T
      PROVE  n+1 \in T
  <2>1. PICK f : IsJoin(f, ss, n)
    BY <1>2
  <2> DEFINE g == [i \in 1 .. n+1 |->
                     IF i = n+1 THEN IF n+1 = 1 THEN ss[n+1] ELSE f[n] \o ss[n+1] ELSE f[i]]
  <2>4. ASSUME NEW i \in 1 .. n+1
        PROVE  g[i] = IF i = 1 THEN ss[i] ELSE g[i-1] \o ss[i]
    <3>1. CASE i = n+1
      <4>1. i # 1 => n \in 1 .. n+1 /\ n # n+1 /\ i-1 = n
        BY <3>1
      <4>2. i # 1 => g[i-1] = f[n]
        BY <4>1
      <4> QED
        BY <3>1, <4>2
    <3>2. CASE i # n+1
      <4>1. i \in 1 .. n /\ (i # 1 => i-1 \in 1 .. n+1 /\ i-1 # n+1)
        BY <3>2
      <4>2. f[i] = IF i = 1 THEN ss[i] ELSE f[i-1] \o ss[i]
        BY <2>1, <4>1 DEF IsJoin
      <4>3. g[i] = f[i] /\ (i # 1 => g[i-1] = f[i-1])
        BY <3>2, <4>1
      <4> QED
        BY <4>2, <4>3
    <3> QED
      BY <3>1, <3>2
  <2>5. IsJoin(g, ss, n+1)
    <3>1. g = [i \in 1 .. n+1 |-> g[i]]
      OBVIOUS
    <3> HIDE DEF g
    <3> QED
      BY <2>4, <3>1 DEF IsJoin
  <2> HIDE DEF g
  <2> QED
    BY <2>5
<1>3. N \in T
  <2> HIDE DEF T
  <2> QED
    BY <1>1, <1>2, Counting
<1> QED
  BY <1>3

(* Jobs with directories of their own.                                     *)
DirsDiffer(jobs) ==
  \A i, j \in DOMAIN jobs : jobs[i].silo_dir = jobs[j].silo_dir => i = j

Apart(A, B) == \A x \in A, y \in B : x.silo_dir # y.silo_dir

LEMMA ConcatFacts ==
  ASSUME NEW S, NEW x \in Seq(S), NEW y \in Seq(S)
  PROVE  /\ x \o y \in Seq(S) /\ ToSet(x \o y) = ToSet(x) \cup ToSet(y)
         /\ DirsDiffer(x) /\ DirsDiffer(y) /\ Apart(ToSet(x), ToSet(y)) => DirsDiffer(x \o y)
<1> PICK m \in Nat, n \in Nat : m = Len(x) /\ n = Len(y)
  OBVIOUS
<1> PICK z : z = x \o y
  OBVIOUS
<1>1. /\ z \in Seq(S) /\ DOMAIN z = 1 .. m + n /\ DOMAIN x = 1 .. m /\ DOMAIN y = 1 .. n
      /\ \A i \in 1 .. m + n : z[i] = IF i <= m THEN x[i] ELSE y[i - m]
  <2>1. z \in Seq(S) /\ Len(z) = m + n /\ Len(x) = m /\ Len(y) = n
    BY ConcatProperties
  <2>2. \A i \in 1 .. m + n : z[i] = IF i <= m THEN x[i] ELSE y[i - m]
    BY ConcatProperties
  <2> QED
    BY <2>1, <2>2
<1>2. \A i \in 1 .. m : i \in 1 .. m + n /\ z[i] = x[i]
  BY <1>1
<1>3. \A i \in 1 .. n : m + i \in 1 .. m + n /\ z[m + i] = y[i]
  <2> TAKE i \in 1 .. n
  <2>1. m + i \in 1 .. m + n /\ ~(m + i <= m) /\ (m + i) - m = i
    OBVIOUS
  <2> QED
    BY <1>1, <2>1
<1>4. \A k \in 1 .. m + n : k \in 1 .. m \/ \E i \in 1 .. n : k = m + i
  <2> TAKE k \in 1 .. m + n
  <2>1. k \in 1 .. m \/ (k - m \in 1 .. n /\ k = m + (k - m))
    OBVIOUS
  <2> QED
    BY <2>1
<1>5. ToSet(z) = ToSet(x) \cup ToSet(y)
  <2>1. ASSUME NEW k \in 1 .. m + n PROVE z[k] \in ToSet(x) \cup ToSet(y)
    <3>1. CASE k \in 1 .. m
      BY <1>1, <1>2, <3>1 DEF ToSet
    <3>2. ASSUME NEW i \in 1 .. n, k = m + i PROVE z[k] \in ToSet(y)
      <4>1. z[k] = y[i]
        BY <1>3, <3>2
      <4> QED
        BY <1>1, <4>1 DEF ToSet
    <3> QED
      BY <1>4, <3>1, <3>2
  <2>2. \A i \in 1 .. m : x[i] \in ToSet(z)
    BY <1>1, <1>2 DEF ToSet
  <2>3. \A i \in 1 .. n : y[i] \in ToSet(z)
    BY <1>1, <1>3 DEF ToSet
  <2> QED
    <3>1. ToSet(z) = {z[k] : k \in 1 .. m + n} /\ ToSet(x) = {x[k] : k \in 1 .. m}
          /\ ToSet(y) = {y[k] : k \in 1 .. n}
      BY <1>1 DEF ToSet
    <3>2. ToSet(z) \subseteq ToSet(x) \cup ToSet(y)
      BY <2>1, <3>1
    <3>3. ToSet(x) \subseteq ToSet(z) /\ ToSet(y) \subseteq ToSet(z)
      BY <2>2, <2>3, <3>1
    <3> QED
      BY <3>2, <3>3
<1>6. ASSUME DirsDiffer(x), DirsDiffer(y), Apart(ToSet(x), ToSet(y))
      PROVE  DirsDiffer(z)
  <2> SUFFICES ASSUME NEW a \in 1 .. m + n, NEW b \in 1 .. m + n,
                      z[a].silo_dir = z[b].silo_dir
               PROVE  a = b
    BY <1>1 DEF DirsDiffer
  <2>1. \A i \in 1 .. m, j \in 1 .. n : x[i].silo_dir # y[j].silo_dir
    BY <1>1, <1>6 DEF ToSet, Apart
  <2>2. CASE a \in 1 .. m /\ b \in 1 .. m
    BY <1>1, <1>2, <1>6, <2>2 DEF DirsDiffer
  <2>3. ASSUME NEW i \in 1 .. n, a = m + i, NEW j \in 1 .. n, b = m + j PROVE a = b
    <3>1. y[i].silo_dir = y[j].silo_dir
      BY <1>3, <2>3
    <3>2. i = j
      BY <1>1, <1>6, <3>1 DEF DirsDiffer
    <3> QED
      BY <2>3, <3>2
  <2>4. ASSUME NEW i \in 1 .. m, NEW j \in 1 .. n PROVE z[i].silo_dir # z[m + j].silo_dir
    BY <1>2, <1>3, <2>1
  <2>5. CASE a \in 1 .. m /\ b \notin 1 .. m
    BY <1>4, <2>4, <2>5
  <2>6. CASE a \notin 1 .. m /\ b \in 1 .. m
    BY <1>4, <2>4, <2>6
  <2>7. CASE a \notin 1 .. m /\ b \notin 1 .. m
    BY <1>4, <2>3, <2>7
  <2> QED
    BY <2>2, <2>5, <2>6, <2>7
<1> QED
  BY <1>1, <1>5, <1>6

RowsApart(ss) ==
  /\ \A i \in DOMAIN ss : DirsDiffer(ss[i])
  /\ \A i, j \in DOMAIN ss : i # j => Apart(ToSet(ss[i]), ToSet(ss[j]))

(* The first n of the sequences, joined.                                   *)
JoinsFirst(S, ss, n, x) ==
  /\ x \in Seq(S) /\ ToSet(x) = UNION {ToSet(ss[i]) : i \in 1 .. n}
  /\ RowsApart(ss) => DirsDiffer(x)

LEMMA JoinsNext ==
  ASSUME NEW S, NEW ss \in Seq(Seq(S)), NEW n \in 1 .. Len(ss) - 1, NEW x,
         JoinsFirst(S, ss, n, x)
  PROVE  JoinsFirst(S, ss, n + 1, x \o ss[n + 1])
<1>1. /\ n + 1 \in DOMAIN ss /\ 1 .. n \subseteq DOMAIN ss /\ n + 1 \notin 1 .. n
      /\ 1 .. n + 1 = 1 .. n \cup {n + 1}
  OBVIOUS
<1> PICK y \in Seq(S) : y = ss[n + 1]
  BY <1>1
<1>2. /\ x \o y \in Seq(S) /\ ToSet(x \o y) = ToSet(x) \cup ToSet(y)
      /\ DirsDiffer(x) /\ DirsDiffer(y) /\ Apart(ToSet(x), ToSet(y)) => DirsDiffer(x \o y)
  <2>1. x \in Seq(S)
    BY DEF JoinsFirst
  <2> QED
    BY <2>1, ConcatFacts
<1>3. ToSet(x \o y) = UNION {ToSet(ss[i]) : i \in 1 .. n + 1}
  <2> DEFINE row(i) == ToSet(ss[i])
  <2>1. ToSet(x) = UNION {row(i) : i \in 1 .. n} /\ ToSet(y) = row(n + 1)
    BY DEF JoinsFirst
  <2> HIDE DEF row
  <2>2. ToSet(x \o y) = UNION {row(i) : i \in 1 .. n + 1}
    BY <1>1, <1>2, <2>1
  <2> QED
    BY <2>2 DEF row
<1>4. ASSUME RowsApart(ss) PROVE Apart(ToSet(x), ToSet(y)) /\ DirsDiffer(y) /\ DirsDiffer(x)
  <2>1. \A i \in 1 .. n : Apart(ToSet(ss[i]), ToSet(y))
    BY <1>1, <1>4 DEF RowsApart
  <2>2. ToSet(x) = UNION {ToSet(ss[i]) : i \in 1 .. n} /\ DirsDiffer(x) /\ DirsDiffer(y)
    BY <1>1, <1>4 DEF RowsApart, JoinsFirst
  <2>3. Apart(UNION {ToSet(ss[i]) : i \in 1 .. n}, ToSet(y))
    BY <2>1 DEF Apart
  <2> QED
    BY <2>2, <2>3
<1> QED
  BY <1>2, <1>3, <1>4 DEF JoinsFirst

(* What a join holds; if the directories differ in the rows, they do in    *)
(* the join.                                                               *)
LEMMA FlattenFacts ==
  ASSUME NEW S, NEW ss \in Seq(Seq(S))
  PROVE  /\ FlattenSeq(ss) \in Seq(S)
         /\ ToSet(FlattenSeq(ss)) = UNION {ToSet(ss[i]) : i \in DOMAIN ss}
         /\ RowsApart(ss) => DirsDiffer(FlattenSeq(ss))
<1>1. CASE Len(ss) = 0
  <2>1. FlattenSeq(ss) = <<>> /\ DOMAIN ss = {}
    BY <1>1 DEF FlattenSeq
  <2>2. ToSet(<<>>) = {} /\ DirsDiffer(<<>>)
    BY DEF ToSet, DirsDiffer
  <2> QED
    BY <2>1, <2>2
<1>2. CASE Len(ss) # 0
  <2> PICK N \in Nat \ {0} : N = Len(ss) /\ DOMAIN ss = 1 .. N
    BY <1>2
  <2> DEFINE all == CHOOSE f : IsJoin(f, ss, N)
  <2>2. IsJoin(all, ss, N)
    BY JoinsExist
  <2>3. FlattenSeq(ss) = all[N]
    BY <1>2 DEF FlattenSeq, IsJoin
  <2> DEFINE T == {n \in 0 .. N : n # 0 => JoinsFirst(S, ss, n, all[n])}
  <2> HIDE DEF all
  <2>4. 0 \in T
    OBVIOUS
  <2>5. ASSUME NEW n \in 0 .. N-1, n \in T
        PROVE  n+1 \in T
    <3>1. n+1 \in 1 .. N /\ n+1 \in 0 .. N /\ ss[n+1] \in Seq(S) /\ (n+1)-1 = n
      OBVIOUS
    <3>2. all[n+1] = IF n+1 = 1 THEN ss[n+1] ELSE all[n] \o ss[n+1]
      BY <2>2, <3>1 DEF IsJoin
    <3>4. CASE n = 0
      <4>1. all[1] = ss[1] /\ 1 \in DOMAIN ss /\ ss[1] \in Seq(S) /\ 1 .. 1 = {1}
        BY <3>1, <3>2, <3>4
      <4>2. UNION {ToSet(ss[i]) : i \in {1}} = ToSet(ss[1])
        OBVIOUS
      <4>3. JoinsFirst(S, ss, 1, all[1])
        BY <4>1, <4>2 DEF JoinsFirst, RowsApart
      <4> QED
        BY <3>1, <3>4, <4>3
    <3>5. CASE n # 0
      <4>0. n+1 # 1 /\ n \in 1 .. N - 1
        BY <3>5
      <4>1. all[n+1] = all[n] \o ss[n+1] /\ n \in 1 .. Len(ss) - 1
        BY <3>2, <4>0
      <4>2. JoinsFirst(S, ss, n, all[n])
        BY <2>5, <3>5
      <4>3. JoinsFirst(S, ss, n+1, all[n+1])
        BY <4>1, <4>2, JoinsNext
      <4> QED
        BY <3>1, <4>3
    <3> QED
      BY <3>4, <3>5
  <2>6. \A n \in 0 .. N : n \in T
    <3> HIDE DEF T
    <3> QED
      BY <2>4, <2>5, Counting
  <2>7. JoinsFirst(S, ss, N, all[N])
    BY <2>6
  <2> QED
    BY <2>3, <2>7 DEF JoinsFirst
<1> QED
  BY <1>1, <1>2


-----------------------------------------------------------------------------
(* Paths.                                                                  *)

LEMMA IsSeqIf ==
  ASSUME NEW S, NEW x \in Seq(S)
  PROVE  IsSeq(x)
<1>1. x \in [1 .. Len(x) -> Range(x)] /\ Len(x) \in Nat
  BY DEF Range
<1> QED
  BY <1>1 DEF IsSeq

LEMMA IsSeqDomain ==
  ASSUME NEW x, IsSeq(x)
  PROVE  \E m \in Nat : DOMAIN x = 1 .. m
<1>1. DOMAIN x = 1 .. Len(x) /\ Len(x) \in Nat
  BY DEF IsSeq
<1> QED
  BY <1>1

LEMMA IsSeqFacts ==
  ASSUME NEW x, IsSeq(x), NEW y, IsSeq(y)
  PROVE  /\ IsSeq(x \o y)
         /\ Len(x) \in Nat /\ Len(y) \in Nat /\ Len(x \o y) = Len(x) + Len(y)
         /\ \A i \in 1 .. Len(x) : (x \o y)[i] = x[i]
         /\ \A i \in 1 .. Len(y) : (x \o y)[Len(x) + i] = y[i]
<1> DEFINE S == Range(x) \cup Range(y)
<1>1. x \in Seq(S) /\ y \in Seq(S)
  <2>1. x \in Seq(Range(x)) /\ y \in Seq(Range(y))
    BY DEF IsSeq
  <2>2. \A A, B, z : z \in Seq(A) /\ A \subseteq B => z \in Seq(B)
    <3> TAKE A, B, z
    <3> HAVE z \in Seq(A) /\ A \subseteq B
    <3>1. z \in [1 .. Len(z) -> B] /\ Len(z) \in Nat
      OBVIOUS
    <3> QED
      BY <3>1
  <2>3. Range(x) \subseteq S /\ Range(y) \subseteq S
    OBVIOUS
  <2> HIDE DEF S
  <2> QED
    BY <2>1, <2>2, <2>3
<1> HIDE DEF S
<1>2. /\ x \o y \in Seq(S) /\ Len(x \o y) = Len(x) + Len(y)
      /\ Len(x) \in Nat /\ Len(y) \in Nat
      /\ \A i \in 1 .. Len(x) + Len(y) :
           (x \o y)[i] = IF i <= Len(x) THEN x[i] ELSE y[i - Len(x)]
  BY <1>1, ConcatProperties
<1>3. ASSUME NEW i \in 1 .. Len(x) PROVE (x \o y)[i] = x[i]
  BY <1>2
<1>4. ASSUME NEW i \in 1 .. Len(y) PROVE (x \o y)[Len(x) + i] = y[i]
  <2>1. Len(x) + i \in 1 .. Len(x) + Len(y) /\ ~(Len(x) + i <= Len(x)) /\ (Len(x) + i) - Len(x) = i
    BY <1>2
  <2> QED
    BY <1>2, <2>1
<1> QED
  BY <1>2, <1>3, <1>4, IsSeqIf

LEMMA PrefixIs ==
  ASSUME NEW x, IsSeq(x), NEW y, IsSeq(y)
  PROVE  IsPrefix(x, y) <=> Len(x) <= Len(y) /\ \A i \in 1 .. Len(x) : x[i] = y[i]
<1>1. Len(x) \in Nat /\ Len(y) \in Nat
  BY IsSeqFacts
<1>2. SubSeq(x, 1, Len(x)) = [i \in 1 .. Len(x) |-> x[i]]
  BY <1>1 DEF IsSeq
<1>3. Len(x) <= Len(y) => SubSeq(y, 1, Len(x)) = [i \in 1 .. Len(x) |-> y[i]]
  BY <1>1 DEF IsSeq
<1> QED
  BY <1>1, <1>2, <1>3 DEF IsPrefix

(* A path of two parts.                                                    *)
IsPath(z, a, u) == IsSeq(a) /\ IsSeq(u) /\ z = a \o u

LEMMA PartsOf ==
  ASSUME NEW z, NEW a, NEW u, IsPath(z, a, u)
  PROVE  /\ Len(a) \in Nat /\ Len(u) \in Nat /\ Len(z) = Len(a) + Len(u)
         /\ \A i \in 1 .. Len(a) : z[i] = a[i]
         /\ \A i \in 1 .. Len(u) : z[Len(a) + i] = u[i]
         /\ a = [i \in 1 .. Len(a) |-> a[i]] /\ u = [i \in 1 .. Len(u) |-> u[i]]
<1>1. IsSeq(a) /\ IsSeq(u) /\ z = a \o u
  BY DEF IsPath
<1>2. /\ Len(a) \in Nat /\ Len(u) \in Nat /\ Len(z) = Len(a) + Len(u)
      /\ \A i \in 1 .. Len(a) : z[i] = a[i]
      /\ \A i \in 1 .. Len(u) : z[Len(a) + i] = u[i]
  BY <1>1, IsSeqFacts
<1>3. a = [i \in 1 .. Len(a) |-> a[i]] /\ u = [i \in 1 .. Len(u) |-> u[i]]
  BY <1>1 DEF IsSeq
<1> QED
  BY <1>2, <1>3

(* It has only one part of a length at its beginning.                      *)
LEMMA SplitSame ==
  ASSUME NEW z, NEW a, NEW b, NEW u, NEW v, IsPath(z, a, u), IsPath(z, b, v), Len(a) = Len(b)
  PROVE  a = b /\ u = v
<1>1. /\ Len(a) \in Nat /\ Len(u) \in Nat /\ Len(z) = Len(a) + Len(u)
      /\ \A i \in 1 .. Len(a) : z[i] = a[i]
      /\ \A i \in 1 .. Len(u) : z[Len(a) + i] = u[i]
  BY PartsOf
<1>2. /\ Len(v) \in Nat /\ Len(z) = Len(a) + Len(v)
      /\ \A i \in 1 .. Len(a) : z[i] = b[i]
      /\ \A i \in 1 .. Len(v) : z[Len(a) + i] = v[i]
  BY PartsOf
<1>3. /\ Len(u) = Len(v)
      /\ \A i \in 1 .. Len(a) : a[i] = b[i]
      /\ \A i \in 1 .. Len(u) : u[i] = v[i]
  BY <1>1, <1>2
<1>4. a = [i \in 1 .. Len(a) |-> a[i]] /\ u = [i \in 1 .. Len(u) |-> u[i]]
  BY PartsOf
<1>5. b = [i \in 1 .. Len(a) |-> b[i]] /\ v = [i \in 1 .. Len(u) |-> v[i]]
  BY <1>3, PartsOf
<1> QED
  BY <1>3, <1>4, <1>5

LEMMA AppendFacts ==
  ASSUME NEW a, IsSeq(a), NEW f
  PROVE  IsSeq(Append(a, f)) /\ IsSeq(<<f>>) /\ Append(a, f) = a \o <<f>>
<1> PICK S : a \in Seq(S) /\ f \in S
  <2>1. a \in Seq(Range(a) \cup {f})
    BY DEF IsSeq
  <2> QED
    BY <2>1
<1>1. Append(a, f) \in Seq(S) /\ <<f>> \in Seq(S) /\ Append(a, f) = a \o <<f>>
  OBVIOUS
<1> QED
  BY <1>1, IsSeqIf

LEMMA AppendSame ==
  ASSUME NEW a, IsSeq(a), NEW b, IsSeq(b), NEW f, NEW g, Append(a, f) = Append(b, g)
  PROVE  a = b /\ f = g
<1> PICK z : z = Append(a, f)
  OBVIOUS
<1>1. IsPath(z, a, <<f>>) /\ IsPath(z, b, <<g>>)
  BY AppendFacts DEF IsPath
<1>2. Len(<<f>>) = 1 /\ Len(<<g>>) = 1 /\ <<f>>[1] = f /\ <<g>>[1] = g
  OBVIOUS
<1>3. Len(a) = Len(b)
  <2>1. Len(a) \in Nat /\ Len(b) \in Nat /\ Len(z) = Len(a) + 1 /\ Len(z) = Len(b) + 1
    BY <1>1, <1>2, PartsOf
  <2> QED
    BY <2>1
<1>4. <<f>> = <<g>>
  BY <1>1, <1>3, SplitSame
<1>5. a = b
  BY <1>1, <1>3, SplitSame
<1> QED
  BY <1>2, <1>4, <1>5

LEMMA DirsAreSeqs ==
  /\ \A a, b : IsSeq(<<a, b>>) /\ Len(<<a, b>>) = 2
  /\ \A a, b, d, e : IsSeq(<<a, b, d, e>>) /\ Len(<<a, b, d, e>>) = 4
  /\ \A a, b, d, e, f, g : IsSeq(<<a, b, d, e, f, g>>) /\ Len(<<a, b, d, e, f, g>>) = 6
<1>1. ASSUME NEW a, NEW b PROVE IsSeq(<<a, b>>)
  <2>1. <<a, b>> \in Seq({a, b})
    OBVIOUS
  <2> QED
    BY <2>1, IsSeqIf
<1>2. ASSUME NEW a, NEW b, NEW d, NEW e PROVE IsSeq(<<a, b, d, e>>)
  <2>1. <<a, b, d, e>> \in Seq({a, b, d, e})
    OBVIOUS
  <2> QED
    BY <2>1, IsSeqIf
<1>3. ASSUME NEW a, NEW b, NEW d, NEW e, NEW f, NEW g PROVE IsSeq(<<a, b, d, e, f, g>>)
  <2>1. <<a, b, d, e, f, g>> \in Seq({a, b, d, e, f, g})
    OBVIOUS
  <2> QED
    BY <2>1, IsSeqIf
<1> QED
  BY <1>1, <1>2, <1>3

(* A path in the directory kind/name of root.                              *)
Below(path, root, kind, name) ==
  /\ IsSeq(path) /\ Len(path) >= Len(root) + 2 /\ IsPrefix(root, path)
  /\ path[Len(root) + 1] = kind /\ path[Len(root) + 2] = name

LEMMA BelowIs ==
  ASSUME NEW root, IsSeq(root), NEW dirs, IsSeq(dirs), Len(dirs) >= 2,
         NEW rest, IsSeq(rest)
  PROVE  /\ Below(root \o dirs, root, dirs[1], dirs[2])
         /\ Below((root \o dirs) \o rest, root, dirs[1], dirs[2])
<1> DEFINE path == root \o dirs
<1>1. /\ IsSeq(path) /\ Len(root) \in Nat /\ Len(dirs) \in Nat
      /\ Len(path) = Len(root) + Len(dirs)
      /\ \A i \in 1 .. Len(root) : path[i] = root[i]
      /\ \A i \in 1 .. Len(dirs) : path[Len(root) + i] = dirs[i]
  BY IsSeqFacts
<1>2. path[Len(root) + 1] = dirs[1] /\ path[Len(root) + 2] = dirs[2]
  <2>1. 1 \in 1 .. Len(dirs) /\ 2 \in 1 .. Len(dirs)
    BY <1>1
  <2> QED
    BY <1>1, <2>1
<1> HIDE DEF path
<1>3. /\ IsSeq(path \o rest) /\ Len(rest) \in Nat /\ Len(path \o rest) = Len(path) + Len(rest)
      /\ \A i \in 1 .. Len(path) : (path \o rest)[i] = path[i]
  BY <1>1, IsSeqFacts
<1>4. IsPrefix(root, path) /\ IsPrefix(root, path \o rest)
  <2>1. IsPrefix(root, path)
    BY <1>1, PrefixIs
  <2>2. PICK q : q = path \o rest
    OBVIOUS
  <2>3. IsSeq(q) /\ Len(root) <= Len(q) /\ \A i \in 1 .. Len(root) : q[i] = root[i]
    BY <1>1, <1>3, <2>2
  <2>4. IsPrefix(root, q)
    BY <2>3, PrefixIs
  <2> QED
    BY <2>1, <2>2, <2>4
<1>5. Below(path, root, dirs[1], dirs[2]) /\ Below(path \o rest, root, dirs[1], dirs[2])
  BY <1>1, <1>2, <1>3, <1>4 DEF Below
<1> QED
  BY <1>5 DEF path

(* What is below one name is not below another.                            *)
LEMMA BelowApart ==
  ASSUME NEW root, IsSeq(root), NEW d, NEW p, NEW k1, NEW n1, NEW k2, NEW n2,
         Below(d, root, k1, n1), Below(p, root, k2, n2), k1 # k2 \/ n1 # n2
  PROVE  ~IsPrefix(d, p)
<1> SUFFICES ASSUME IsPrefix(d, p) PROVE FALSE
  OBVIOUS
<1>1. Len(root) \in Nat /\ Len(d) \in Nat /\ Len(p) \in Nat /\ IsSeq(d) /\ IsSeq(p)
  BY IsSeqFacts DEF Below
<1>2. SubSeq(d, 1, Len(d)) = SubSeq(p, 1, Len(d)) /\ Len(d) <= Len(p)
  BY DEF IsPrefix
<1>3. ASSUME NEW i \in 1 .. Len(d) PROVE d[i] = p[i]
  <2>1. SubSeq(d, 1, Len(d))[i] = d[i] /\ SubSeq(p, 1, Len(d))[i] = p[i]
    BY <1>1, <1>2 DEF IsSeq
  <2> QED
    BY <1>2, <2>1
<1>4. Len(root) + 1 \in 1 .. Len(d) /\ Len(root) + 2 \in 1 .. Len(d)
  BY <1>1 DEF Below
<1> QED
  BY <1>3, <1>4 DEF Below

-----------------------------------------------------------------------------
(* The directories of the jobs.                                            *)

HardwareJobs(c, exp) ==
  {HardwareJob(c, exp.testbench, ps, sim) :
     ps \in Range(exp.param_sets), sim \in Range(exp.simulators)}

LEMMA HardwareSeq ==
  ASSUME NEW c, NEW exp, IsSeq(exp.param_sets), IsSeq(exp.simulators)
  PROVE  resolve_hardware(c, exp) \in Seq(HardwareJobs(c, exp))
<1> DEFINE job(i, j) == HardwareJob(c, exp.testbench, exp.param_sets[i], exp.simulators[j])
           row(i) == [j \in DOMAIN exp.simulators |-> job(i, j)]
           rows == [i \in DOMAIN exp.param_sets |-> row(i)]
<1> PICK m \in Nat, n \in Nat : DOMAIN exp.param_sets = 1 .. m /\ DOMAIN exp.simulators = 1 .. n
  BY DEF IsSeq
<1>0. \A i \in DOMAIN exp.param_sets : \A j \in DOMAIN exp.simulators :
        job(i, j) \in HardwareJobs(c, exp)
  <2> TAKE i \in DOMAIN exp.param_sets
  <2> TAKE j \in DOMAIN exp.simulators
  <2>1. exp.param_sets[i] \in Range(exp.param_sets) /\ exp.simulators[j] \in Range(exp.simulators)
    BY DEF Range
  <2> QED
    BY <2>1 DEF HardwareJobs
<1> HIDE DEF job
<1>1. \A i \in DOMAIN exp.param_sets : row(i) \in Seq(HardwareJobs(c, exp))
  BY <1>0
<1> HIDE DEF row
<1>2. rows \in Seq(Seq(HardwareJobs(c, exp)))
  BY <1>1
<1>3. resolve_hardware(c, exp) = FlattenSeq(rows)
  BY DEF resolve_hardware, rows, row, job
<1>4. FlattenSeq(rows) \in Seq(HardwareJobs(c, exp))
  <2> HIDE DEF rows
  <2> QED
    BY <1>2, FlattenFacts
<1> QED
  BY <1>3, <1>4

SoftwareJobs(c, exp) ==
  UNION {{SoftwareJob(c, n, prog) : prog \in Range(Programs[n])} :
           n \in Range(exp.suites) \cap DOMAIN c.suites}

LEMMA SoftwareSeq ==
  ASSUME NEW c, NEW exp, IsSeq(exp.suites), \A n \in DOMAIN c.suites : IsSeq(Programs[n])
  PROVE  SoftwareOf(c, exp) \in Seq(SoftwareJobs(c, exp))
<1> DEFINE sw(i) == IF exp.suites[i] \in DOMAIN c.suites THEN resolve_suite(c, exp.suites[i])
                                                         ELSE <<>>
           all == [i \in DOMAIN exp.suites |-> sw(i)]
<1>1. ASSUME NEW i \in DOMAIN exp.suites PROVE sw(i) \in Seq(SoftwareJobs(c, exp))
  <2>1. CASE exp.suites[i] \in DOMAIN c.suites
    <3> PICK n \in Range(exp.suites) \cap DOMAIN c.suites : n = exp.suites[i]
      BY <2>1 DEF Range
    <3>1. PICK m \in Nat : DOMAIN Programs[n] = 1 .. m
      BY DEF IsSeq
    <3>2. \A j \in 1 .. m : SoftwareJob(c, n, Programs[n][j]) \in SoftwareJobs(c, exp)
      BY <3>1 DEF SoftwareJobs, Range
    <3>3. resolve_suite(c, n) = [j \in 1 .. m |-> SoftwareJob(c, n, Programs[n][j])]
      BY <3>1 DEF resolve_suite
    <3>4. resolve_suite(c, n) \in Seq(SoftwareJobs(c, exp))
      BY <3>2, <3>3
    <3> QED
      BY <2>1, <3>4
  <2>2. CASE exp.suites[i] \notin DOMAIN c.suites
    BY <2>2
  <2> QED
    BY <2>1, <2>2
<1>2. all \in Seq(Seq(SoftwareJobs(c, exp)))
  <2>1. PICK m \in Nat : DOMAIN exp.suites = 1 .. m
    BY DEF IsSeq
  <2> HIDE DEF sw
  <2> QED
    BY <1>1, <2>1
<1>3. FlattenSeq(all) \in Seq(SoftwareJobs(c, exp))
  <2> HIDE DEF all
  <2> QED
    BY <1>2, FlattenFacts
<1>4. SoftwareOf(c, exp) = FlattenSeq(all)
  BY DEF SoftwareOf
<1> QED
  BY <1>3, <1>4

SimsOf(c, exp) ==
  {StandaloneSim(c, exp, hw) : hw \in ToSet(resolve_hardware(c, exp))}
  \cup {SoftwareSim(c, exp, hw, sw) : hw \in ToSet(resolve_hardware(c, exp)),
                                      sw \in SoftwareJobs(c, exp)}

LEMMA SimulationsSeq ==
  ASSUME NEW c, NEW exp, IsSeq(exp.param_sets), IsSeq(exp.simulators), IsSeq(exp.suites),
         \A n \in DOMAIN c.suites : IsSeq(Programs[n])
  PROVE  SimulationsOf(c, exp) \in Seq(SimsOf(c, exp))
<1> PICK hws \in Seq(HardwareJobs(c, exp)) : hws = resolve_hardware(c, exp)
  BY HardwareSeq
<1> PICK sws \in Seq(SoftwareJobs(c, exp)) : sws = SoftwareOf(c, exp)
  BY SoftwareSeq
<1> DEFINE row(i) == IF sws = <<>> THEN <<StandaloneSim(c, exp, hws[i])>>
                     ELSE [j \in DOMAIN sws |-> SoftwareSim(c, exp, hws[i], sws[j])]
           rows == [i \in DOMAIN hws |-> row(i)]
<1>1. ASSUME NEW i \in DOMAIN hws PROVE row(i) \in Seq(SimsOf(c, exp))
  <2>0. hws[i] \in ToSet(resolve_hardware(c, exp))
    BY DEF ToSet
  <2>1. StandaloneSim(c, exp, hws[i]) \in SimsOf(c, exp)
    BY <2>0 DEF SimsOf
  <2>2. \A j \in DOMAIN sws : SoftwareSim(c, exp, hws[i], sws[j]) \in SimsOf(c, exp)
    <3>1. \A j \in DOMAIN sws : sws[j] \in SoftwareJobs(c, exp)
      OBVIOUS
    <3> QED
      BY <2>0, <3>1 DEF SimsOf
  <2>3. <<StandaloneSim(c, exp, hws[i])>> \in Seq(SimsOf(c, exp))
    BY <2>1
  <2>4. [j \in DOMAIN sws |-> SoftwareSim(c, exp, hws[i], sws[j])] \in Seq(SimsOf(c, exp))
    <3>1. DOMAIN sws = 1 .. Len(sws) /\ Len(sws) \in Nat
      OBVIOUS
    <3> QED
      BY <2>2, <3>1
  <2> QED
    BY <2>3, <2>4
<1>2. rows \in Seq(Seq(SimsOf(c, exp)))
  <2>1. PICK m \in Nat : DOMAIN hws = 1 .. m
    OBVIOUS
  <2> HIDE DEF row
  <2> QED
    BY <1>1, <2>1
<1>3. FlattenSeq(rows) \in Seq(SimsOf(c, exp))
  <2> HIDE DEF rows
  <2> QED
    BY <1>2, FlattenFacts
<1>4. SimulationsOf(c, exp) = FlattenSeq(rows)
  BY DEF SimulationsOf, resolve_simulations
<1> QED
  BY <1>3, <1>4

(* Vectors of a configuration that resolves.                               *)
WellFormed(c) ==
  /\ IsSeq(c.build_dir) /\ IsSeq(c.experiments)
  /\ \A i \in DOMAIN c.experiments : /\ IsSeq(c.experiments[i].param_sets)
                                     /\ IsSeq(c.experiments[i].simulators)
                                     /\ IsSeq(c.experiments[i].suites)
  /\ \A n \in DOMAIN c.suites : /\ n \in DOMAIN Programs /\ IsSeq(Programs[n])
                                /\ \A i \in DOMAIN Programs[n] : IsSeq(Programs[n][i].rel_path)
                                /\ LET tool == c.tools[c.suites[n].tool] IN
                                     /\ IsSeq(tool.actions)
                                     /\ \A i \in DOMAIN tool.actions : IsSeq(tool.actions[i].outputs)

LEMMA SoundWellFormed ==
  ASSUME NEW s \in Sound
  PROVE  WellFormed(Config[s])
BY ConfigAssumption DEF WellFormed

(* Directories of hardware, of programs and of simulations are apart.      *)
LEMMA HardwareBelow ==
  ASSUME NEW c, WellFormed(c), NEW h \in AllHardware(c)
  PROVE  \E n : Below(h.silo_dir, c.build_dir, "hw", n)
<1>1. PICK i \in DOMAIN c.experiments : h \in ToSet(resolve_hardware(c, c.experiments[i]))
  BY DEF AllHardware
<1>2. resolve_hardware(c, c.experiments[i]) \in Seq(HardwareJobs(c, c.experiments[i]))
  BY HardwareSeq DEF WellFormed
<1>3. h \in HardwareJobs(c, c.experiments[i])
  BY <1>1, <1>2 DEF ToSet
<1>4. PICK tb, ps, sim : h = HardwareJob(c, tb, ps, sim)
  BY <1>3 DEF HardwareJobs
<1> DEFINE dirs == <<"hw", tb, ps, sim>>
<1>5. h.silo_dir = c.build_dir \o dirs
  BY <1>4 DEF HardwareJob, hw_dir
<1>6. IsSeq(dirs) /\ Len(dirs) >= 2 /\ dirs[1] = "hw"
  <2>1. dirs \in Seq({"hw", tb, ps, sim})
    OBVIOUS
  <2>2. IsSeq(dirs)
    BY <2>1, IsSeqIf
  <2> QED
    BY <2>2
<1>7. IsSeq(<<>>)
  BY DEF IsSeq
<1> HIDE DEF dirs
<1> QED
  BY <1>5, <1>6, <1>7, BelowIs DEF WellFormed

LEMMA SoftwareBelow ==
  ASSUME NEW c, WellFormed(c), NEW n, NEW rel_path, IsSeq(rel_path)
  PROVE  Below(sw_dir(c.build_dir, n, rel_path), c.build_dir, "sw", n)
<1> DEFINE dirs == <<"sw", n>>
<1>1. IsSeq(dirs) /\ Len(dirs) >= 2 /\ dirs[1] = "sw" /\ dirs[2] = n
  <2>1. dirs \in Seq({"sw", n})
    OBVIOUS
  <2>2. IsSeq(dirs)
    BY <2>1, IsSeqIf
  <2> QED
    BY <2>2
<1>2. sw_dir(c.build_dir, n, rel_path) = (c.build_dir \o dirs) \o rel_path
  BY DEF sw_dir
<1> HIDE DEF dirs
<1> QED
  BY <1>1, <1>2, BelowIs DEF WellFormed

LEMMA SoftwareKnown ==
  ASSUME NEW c, NEW exp
  PROVE  SoftwareJobs(c, exp) \subseteq AllSoftware(c)
<1> SUFFICES ASSUME NEW n \in Range(exp.suites) \cap DOMAIN c.suites, NEW i \in DOMAIN Programs[n]
             PROVE  SoftwareJob(c, n, Programs[n][i]) \in AllSoftware(c)
  BY DEF SoftwareJobs, Range
<1>1. SoftwareJob(c, n, Programs[n][i]) \in ToSet(resolve_suite(c, n))
  BY DEF resolve_suite, ToSet
<1> QED
  BY <1>1 DEF AllSoftware

LEMMA RelPaths ==
  ASSUME NEW c, WellFormed(c), NEW j \in AllSoftware(c)
  PROVE  IsSeq(j.rel_path)
<1>1. PICK n \in DOMAIN c.suites : \E i \in DOMAIN Programs[n] :
        j = SoftwareJob(c, n, Programs[n][i])
  BY DEF AllSoftware, resolve_suite, ToSet
<1>2. PICK i \in DOMAIN Programs[n] : j = SoftwareJob(c, n, Programs[n][i])
  BY <1>1
<1>3. j.rel_path = Programs[n][i].rel_path
  BY <1>2 DEF SoftwareJob
<1> QED
  BY <1>3 DEF WellFormed

SimsOfAll(c) == UNION {SimsOf(c, c.experiments[i]) : i \in DOMAIN c.experiments}

LEMMA AllSimulationsSeq ==
  ASSUME NEW c, WellFormed(c)
  PROVE  AllSimulations(c) \in Seq(SimsOfAll(c))
<1> DEFINE rows == [i \in DOMAIN c.experiments |-> SimulationsOf(c, c.experiments[i])]
<1>1. \A i \in DOMAIN c.experiments : SimulationsOf(c, c.experiments[i]) \in Seq(SimsOfAll(c))
  <2> TAKE i \in DOMAIN c.experiments
  <2>1. SimulationsOf(c, c.experiments[i]) \in Seq(SimsOf(c, c.experiments[i]))
    BY SimulationsSeq DEF WellFormed
  <2>2. SimsOf(c, c.experiments[i]) \subseteq SimsOfAll(c)
    BY DEF SimsOfAll
  <2> QED
    BY <2>1, <2>2
<1>2. rows \in Seq(Seq(SimsOfAll(c)))
  <2>1. PICK m \in Nat : DOMAIN c.experiments = 1 .. m
    BY IsSeqDomain DEF WellFormed
  <2> QED
    BY <1>1, <2>1
<1>3. FlattenSeq(rows) \in Seq(SimsOfAll(c))
  <2> HIDE DEF rows
  <2> QED
    BY <1>2, FlattenFacts
<1> QED
  BY <1>3 DEF AllSimulations

(* The directory of a simulation: six names below the build directory, and *)
(* the path of the program.                                                *)
SimulationDir(x, root, dirs, rest) ==
  /\ x.silo_dir = (root \o dirs) \o rest
  /\ IsSeq(dirs) /\ IsSeq(rest) /\ Len(dirs) = 6
  /\ dirs[1] = "sim" /\ dirs[2] = x.experiment

LEMMA SimulationsInDirs ==
  ASSUME NEW c, WellFormed(c), NEW s \in ToSet(AllSimulations(c))
  PROVE  \E dirs, rest : SimulationDir(s, c.build_dir, dirs, rest)
<1>1. s \in SimsOfAll(c)
  BY AllSimulationsSeq DEF ToSet
<1>2. PICK i \in DOMAIN c.experiments : s \in SimsOf(c, c.experiments[i])
  BY <1>1 DEF SimsOfAll
<1> PICK exp : exp = c.experiments[i]
  OBVIOUS
<1> DEFINE dirs(hw, last) ==
      <<"sim", exp.name, hw.testbench, hw.param_set, hw.simulator, last>>
<1>3. ASSUME NEW hw, NEW last
      PROVE  /\ IsSeq(dirs(hw, last)) /\ Len(dirs(hw, last)) = 6
             /\ dirs(hw, last)[1] = "sim" /\ dirs(hw, last)[2] = exp.name
  <2>1. dirs(hw, last) \in Seq({"sim", exp.name, hw.testbench, hw.param_set, hw.simulator, last})
    OBVIOUS
  <2>2. IsSeq(dirs(hw, last))
    <3> HIDE DEF dirs
    <3> QED
      BY <2>1, IsSeqIf
  <2> QED
    BY <2>2
<1>4. ASSUME NEW hw, s = StandaloneSim(c, exp, hw)
      PROVE  /\ s.silo_dir = (c.build_dir \o dirs(hw, "standalone")) \o <<>> /\ IsSeq(<<>>)
             /\ s.experiment = exp.name
  <2>1. s.silo_dir = c.build_dir \o dirs(hw, "standalone") /\ s.experiment = exp.name
    BY <1>4 DEF StandaloneSim, SimJob, standalone_dir
  <2>2. IsSeq(c.build_dir) /\ IsSeq(dirs(hw, "standalone"))
    BY <1>3 DEF WellFormed
  <2>3. PICK S : (c.build_dir \o dirs(hw, "standalone")) \in Seq(S)
    <3> HIDE DEF dirs
    <3> QED
      BY <2>2, IsSeqFacts DEF IsSeq
  <2>4. (c.build_dir \o dirs(hw, "standalone")) \o <<>> = c.build_dir \o dirs(hw, "standalone")
    <3> HIDE DEF dirs
    <3> QED
      BY <2>3
  <2> QED
    BY <2>1, <2>4 DEF IsSeq
<1>5. ASSUME NEW hw, NEW sw \in SoftwareJobs(c, exp), s = SoftwareSim(c, exp, hw, sw)
      PROVE  /\ s.silo_dir = (c.build_dir \o dirs(hw, sw.suite_name)) \o sw.rel_path
             /\ IsSeq(sw.rel_path) /\ s.experiment = exp.name
  BY <1>5, SoftwareKnown, RelPaths DEF SoftwareSim, SimJob, sim_dir
<1>6. ASSUME NEW hw, s = StandaloneSim(c, exp, hw)
      PROVE  SimulationDir(s, c.build_dir, dirs(hw, "standalone"), <<>>)
  <2> HIDE DEF dirs
  <2> QED
    BY <1>3, <1>4, <1>6 DEF SimulationDir
<1>7. ASSUME NEW hw, NEW sw \in SoftwareJobs(c, exp), s = SoftwareSim(c, exp, hw, sw)
      PROVE  SimulationDir(s, c.build_dir, dirs(hw, sw.suite_name), sw.rel_path)
  <2>1. /\ s.silo_dir = (c.build_dir \o dirs(hw, sw.suite_name)) \o sw.rel_path
        /\ IsSeq(sw.rel_path) /\ s.experiment = exp.name
    BY <1>5, <1>7
  <2> HIDE DEF dirs
  <2> QED
    BY <1>3, <2>1 DEF SimulationDir
<1> HIDE DEF dirs
<1>8. CASE \E hw : s = StandaloneSim(c, exp, hw)
  BY <1>6, <1>8
<1>9. CASE \E hw : \E sw \in SoftwareJobs(c, exp) : s = SoftwareSim(c, exp, hw, sw)
  BY <1>7, <1>9
<1> QED
  BY <1>2, <1>8, <1>9 DEF SimsOf

LEMMA SimulationBelow ==
  ASSUME NEW c, WellFormed(c), NEW s \in ToSet(AllSimulations(c))
  PROVE  Below(s.silo_dir, c.build_dir, "sim", s.experiment)
<1>1. PICK dirs, rest : SimulationDir(s, c.build_dir, dirs, rest)
  BY SimulationsInDirs
<1>2. /\ IsSeq(c.build_dir) /\ IsSeq(dirs) /\ Len(dirs) >= 2 /\ IsSeq(rest)
      /\ dirs[1] = "sim" /\ dirs[2] = s.experiment
  BY <1>1 DEF SimulationDir, WellFormed
<1>3. Below((c.build_dir \o dirs) \o rest, c.build_dir, dirs[1], dirs[2])
  BY <1>2, BelowIs
<1> QED
  BY <1>1, <1>2, <1>3 DEF SimulationDir

(* A file in a job's directory.                                            *)
LEMMA FileBelow ==
  ASSUME NEW root, IsSeq(root), NEW dir, NEW kind, NEW name, Below(dir, root, kind, name), NEW f
  PROVE  Below(Append(dir, f), root, kind, name) /\ IsSeq(dir)
<1>1. IsSeq(dir) /\ Len(dir) \in Nat /\ Len(root) \in Nat
  BY IsSeqFacts DEF Below
<1> PICK S : dir \in Seq(S) /\ f \in S
  <2>1. dir \in Seq(Range(dir) \cup {f})
    BY <1>1 DEF IsSeq
  <2> QED
    BY <2>1
<1> PICK p : p = Append(dir, f)
  OBVIOUS
<1>2. p \in Seq(S) /\ Len(p) = Len(dir) + 1 /\ \A i \in 1 .. Len(dir) : p[i] = dir[i]
  OBVIOUS
<1>3. IsSeq(p)
  BY <1>2, IsSeqIf
<1>4. Len(root) <= Len(p) /\ \A i \in 1 .. Len(root) : p[i] = root[i]
  BY <1>1, <1>2, PrefixIs DEF Below
<1>5. IsPrefix(root, p)
  BY <1>3, <1>4, PrefixIs
<1>6. Below(p, root, kind, name)
  BY <1>1, <1>2, <1>3, <1>5 DEF Below
<1> QED
  BY <1>1, <1>6

(* What clean removes lies in the build directory; of simulations only     *)
(* those of the experiment it was given.                                   *)
LEMMA CleanedBelow ==
  ASSUME config \in Sound, NEW d \in CleanedDirs
  PROVE  \E kind, name : /\ Below(d, C.build_dir, kind, name)
                         /\ kind = "sim" => Is(cmd.experiment, name)
<1>1. WellFormed(C) /\ Sims[config] = AllSimulations(C)
  BY SoundWellFormed DEF C, Sims
<1>2. CASE \E x \in ToSet(Sims[config]) : Is(cmd.experiment, x.experiment) /\ d = x.silo_dir
  BY <1>1, <1>2, SimulationBelow
<1>3. CASE \E h \in AllHardware(C) : d = h.silo_dir
  BY <1>1, <1>3, HardwareBelow
<1>4. CASE \E n : d = sw_dir(C.build_dir, n, <<>>)
  <2>1. IsSeq(<<>>)
    BY DEF IsSeq
  <2> QED
    BY <1>1, <1>4, <2>1, SoftwareBelow
<1>5. CASE \E j \in AllSoftware(C) : d = sw_dir(C.build_dir, j.suite_name, j.rel_path)
  BY <1>1, <1>5, RelPaths, SoftwareBelow
<1> QED
  BY <1>2, <1>3, <1>4, <1>5 DEF CleanedDirs

(* Cleaning one experiment, by any other filters too, leaves the logs of   *)
(* the others, whatever the names (main.rs:156): no directory that clean   *)
(* removes holds one.                                                      *)
THEOREM CleanLeavesOthers == Spec => CleanKeepsOthers
<1>1. ASSUME IInv, [Next]_vars, Clean, cmd.experiment # "",
             NEW i \in DOMAIN Sims[config], Sims[config][i].experiment # cmd.experiment,
             sim_log(Sims[config][i]) \in DOMAIN disk
      PROVE  sim_log(Sims[config][i]) \in DOMAIN disk'
  <2> PICK s : s = Sims[config][i]
    OBVIOUS
  <2>1. config \in Sound
    BY <1>1 DEF Clean, IInv, ConfigInv
  <2>2. WellFormed(C) /\ s \in ToSet(AllSimulations(C))
    BY <2>1, SoundWellFormed DEF C, Sims, ToSet
  <2>3. IsSeq(C.build_dir) /\ Below(sim_log(s), C.build_dir, "sim", s.experiment)
    BY <2>2, SimulationBelow, FileBelow DEF sim_log, WellFormed
  <2>4. ASSUME NEW d \in CleanedDirs PROVE ~IsPrefix(d, sim_log(s))
    <3>1. PICK kind, name : /\ Below(d, C.build_dir, kind, name)
                            /\ kind = "sim" => Is(cmd.experiment, name)
      BY <2>1, CleanedBelow
    <3>2. kind # "sim" \/ name # s.experiment
      BY <1>1, <3>1 DEF Is
    <3> QED
      BY <2>3, <3>1, <3>2, BelowApart
  <2>5. disk' = Without(CleanedDirs)
    BY <1>1 DEF Clean
  <2> QED
    BY <1>1, <2>4, <2>5 DEF Without, Restrict
<1>2. IInv /\ [Next]_vars =>
        (Clean /\ cmd.experiment # "" =>
           \A i \in DOMAIN Sims[config] : Sims[config][i].experiment # cmd.experiment =>
             (sim_log(Sims[config][i]) \in DOMAIN disk =>
                sim_log(Sims[config][i]) \in DOMAIN disk'))
  BY <1>1
<1> QED
  BY <1>2, InitIInv, StepIInv, PTL DEF Spec, CleanKeepsOthers

-----------------------------------------------------------------------------
(* Types.  Beside them: no source is removed, by clean or with the log of  *)
(* a simulation that is interrupted; each edge of a run is left to start,  *)
(* runs or failed.                                                         *)

(* Directories and files below the build directory hold no source.         *)
LEMMA NoSourceBelow ==
  ASSUME NEW s \in Sound, NEW d, NEW kind, NEW name, Below(d, Config[s].build_dir, kind, name),
         NEW p \in Sources
  PROVE  ~IsPrefix(d, p)
<1> PICK root : root = Config[s].build_dir
  OBVIOUS
<1>1. IsSeq(root) /\ IsSeq(p) /\ ~IsPrefix(root, p)
  BY SoundWellFormed, SourcesAssumption DEF WellFormed, Sound
<1>2. IsSeq(d) /\ IsPrefix(root, d)
  BY DEF Below
<1>3. Len(root) \in Nat /\ Len(d) \in Nat /\ Len(p) \in Nat
  BY <1>1, <1>2, IsSeqFacts
<1>4. Len(root) <= Len(d) /\ \A i \in 1 .. Len(root) : root[i] = d[i]
  BY <1>1, <1>2, PrefixIs
<1> SUFFICES ASSUME IsPrefix(d, p) PROVE FALSE
  OBVIOUS
<1>5. Len(d) <= Len(p) /\ \A i \in 1 .. Len(d) : d[i] = p[i]
  BY <1>1, <1>2, PrefixIs
<1>6. Len(root) <= Len(p) /\ \A i \in 1 .. Len(root) : root[i] = p[i]
  BY <1>3, <1>4, <1>5
<1> QED
  BY <1>1, <1>6, PrefixIs

LEMMA SoftwareRule ==
  ASSUME NEW c, NEW j \in AllSoftware(c), NEW a \in ToSet(j.actions)
  PROVE  \E tool, action : a.rule_name = <<tool, action>>
<1>1. PICK n \in DOMAIN c.suites : \E i \in DOMAIN Programs[n] :
        j = SoftwareJob(c, n, Programs[n][i])
  BY DEF AllSoftware, resolve_suite, ToSet
<1>2. PICK prog : j = SoftwareJob(c, n, prog)
  BY <1>1
<1>3. PICK k \in DOMAIN j.actions : a = j.actions[k]
  BY DEF ToSet
<1> QED
  BY <1>2, <1>3 DEF SoftwareJob

(* What a simulation edge makes is a log in the build directory.           *)
LEMMA SimulatesBelow ==
  ASSUME NEW s \in Sound, NEW o \in DOMAIN Generated[s].edges,
         Generated[s].edges[o].simulates, NEW p \in o
  PROVE  \E name : Below(p, Config[s].build_dir, "sim", name)
<1> PICK c : c = Config[s]
  OBVIOUS
<1>0. WellFormed(c)
  BY SoundWellFormed
<1> DEFINE edges == {TaskEdge(t) : t \in ToSet(c.tasks)}
                    \cup {HardwareEdge(c, h) : h \in AllHardware(c)}
                    \cup {SoftwareEdge(a) : a \in UNION {ToSet(j.actions) : j \in AllSoftware(c)}}
                    \cup {SimulationEdge(x) : x \in ToSet(AllSimulations(c))}
           e == CHOOSE x \in edges : x.outs = o
<1>1. Generated[s] = generate(c, AllHardware(c), AllSoftware(c), AllSimulations(c))
  BY DEF Generated, BuildGraph
<1>2. o \in {x.outs : x \in edges} /\ e.rule = run_sim_script
  <2> DEFINE graph == [q \in {x.outs : x \in edges} |->
             LET f == CHOOSE x \in edges : x.outs = q
             IN [ins |-> f.ins, opens |-> f.opens, simulates |-> f.rule = run_sim_script,
                 command |-> ExpandedCommand(rules(c)[f.rule], f.vars)]]
  <2>0. generate(c, AllHardware(c), AllSoftware(c), AllSimulations(c))
          = [accepted |-> Accepts(c, AllSoftware(c), AllSimulations(c), edges), edges |-> graph]
    BY DEF generate, EdgesOf, Graph
  <2> HIDE DEF graph
  <2>1. Generated[s].edges = graph
    BY <1>1, <2>0
  <2> USE DEF graph
  <2> HIDE DEF edges
  <2>2. o \in {x.outs : x \in edges}
    BY <2>1
  <2>3. PICK sim \in BOOLEAN : sim = (e.rule = run_sim_script)
    OBVIOUS
  <2>4. Generated[s].edges[o] =
          [ins |-> e.ins, opens |-> e.opens, simulates |-> e.rule = run_sim_script,
           command |-> ExpandedCommand(rules(c)[e.rule], e.vars)]
    BY <2>1, <2>2
  <2>5. PICK ins, opens, command :
          Generated[s].edges[o] =
            [ins |-> ins, opens |-> opens, simulates |-> e.rule = run_sim_script,
             command |-> command]
    BY <2>4
  <2>6. Generated[s].edges[o] =
          [ins |-> ins, opens |-> opens, simulates |-> sim, command |-> command]
    BY <2>3, <2>5, Zenon
  <2>7. Generated[s].edges[o].simulates = sim
    BY <2>6
  <2> QED
    BY <2>2, <2>3, <2>7
<1>3. e \in edges /\ e.outs = o
  BY <1>2
<1> HIDE DEF e
<1>4. ASSUME NEW t, e = TaskEdge(t) PROVE FALSE
  <2>1. e.rule = <<"task", t.name>>
    BY <1>4 DEF TaskEdge
  <2> QED
    BY <1>2, <2>1 DEF run_sim_script
<1>5. ASSUME NEW h, e = HardwareEdge(c, h) PROVE FALSE
  <2>1. e.rule = <<h.simulator, "compile">>
    BY <1>5 DEF HardwareEdge
  <2> QED
    BY <1>2, <2>1 DEF run_sim_script
<1>6. ASSUME NEW j \in AllSoftware(c), NEW a \in ToSet(j.actions), e = SoftwareEdge(a)
      PROVE  FALSE
  <2>2. PICK x, y : a.rule_name = <<x, y>>
    BY SoftwareRule
  <2>3. e.rule = <<x, y>>
    BY <1>6, <2>2 DEF SoftwareEdge
  <2> QED
    BY <1>2, <2>3 DEF run_sim_script
<1>7. ASSUME NEW x \in ToSet(AllSimulations(c)), e = SimulationEdge(x)
      PROVE  Below(p, c.build_dir, "sim", x.experiment)
  <2>1. p = sim_log(x)
    BY <1>3, <1>7 DEF SimulationEdge
  <2> QED
    BY <1>0, <2>1, SimulationBelow, FileBelow DEF sim_log, WellFormed
<1> QED
  BY <1>3, <1>4, <1>5, <1>6, <1>7

ControlOK ==
  /\ harness_lua \in Versions /\ config \in Versions
  /\ build_ninja \in Sound \cup {NoFile}
  /\ pc \in {"idle", "loaded", "resolved", "plan", "ninja", "analyse"}
  /\ quiet \in BOOLEAN /\ keep_going \in BOOLEAN
  /\ outcome \in {"none", "done", "error", "interrupted"}

SourcesKept == Sources \subseteq DOMAIN disk

LogOK == \A p \in DOMAIN ninja_log : ninja_log[p].changed \subseteq InputsOf[p]

RunOK ==
  /\ DOMAIN running \cap (todo \cup failed) = {} /\ todo \cap failed = {}
  /\ pc \in {"loaded", "resolved", "plan"} => todo = {} /\ failed = {}

ReportOK ==
  /\ DOMAIN report \subseteq ToSet(targets) \cap DOMAIN disk
  /\ pc # "idle" => DOMAIN report = {}

LEMMA InitTypes == Init => ControlOK /\ SourcesKept /\ LogOK /\ RunOK /\ ReportOK
<1> SUFFICES ASSUME Init PROVE ControlOK /\ SourcesKept /\ LogOK /\ RunOK /\ ReportOK
  OBVIOUS
<1>1. ControlOK
  BY ScriptsAssumption DEF Init, ControlOK
<1>2. SourcesKept
  BY DEF Init, SourcesKept
<1>3. DOMAIN ninja_log = {} /\ DOMAIN running = {} /\ DOMAIN report = {}
  BY DEF Init
<1>4. todo = {} /\ failed = {}
  BY DEF Init
<1> QED
  BY <1>1, <1>2, <1>3, <1>4 DEF LogOK, RunOK, ReportOK

LEMMA StepControlOK ==
  ASSUME IInv, ControlOK, [Next]_vars
  PROVE  ControlOK'
<1> USE DEF ControlOK, Stays, Ends, nvars, hvars, vars
<1>1. CASE Load \/ CleanAll \/ resolve_all_jobs
  BY <1>1 DEF Load, CleanAll, resolve_all_jobs
<1>2. CASE Gen
  BY <1>2 DEF Gen, IInv, ConfigInv
<1>3. CASE List \/ NotFound \/ Analyze \/ NothingToDo \/ Clean
  BY <1>3 DEF List, NotFound, Analyze, NothingToDo, Clean
<1>4. CASE Simulate \/ Compile
  BY <1>4 DEF Simulate, Compile, AskNinja, IInv, ConfigInv
<1>5. CASE NinjaBegins \/ NinjaEnds \/ run_analysis
  BY <1>5 DEF NinjaBegins, NinjaEnds, run_analysis
<1>6. CASE NinjaWorks \/ NinjaFails
  BY <1>6 DEF NinjaWorks, NinjaFails, EdgeStart, EdgeSucceeds, EdgeFails
<1>7. CASE User
  BY <1>7 DEF User, EditSource, EditScript, Interrupt, Killed
<1>8. CASE UNCHANGED vars
  BY <1>8
<1> QED
  BY <1>1, <1>2, <1>3, <1>4, <1>5, <1>6, <1>7, <1>8 DEF Next, Command

(* Files are only removed by clean and by an interrupt.                    *)
LEMMA FilesStay ==
  ASSUME [Next]_vars, ~CleanAll, ~Clean, ~Interrupt
  PROVE  DOMAIN disk \subseteq DOMAIN disk'
<1> USE DEF Stays, Ends, nvars, hvars, vars
<1>0. \A f, g : DOMAIN Over(f, g) = DOMAIN f \cup DOMAIN g
  BY DEF Over
<1>1. CASE Load \/ Gen \/ List \/ NotFound \/ Analyze \/ NothingToDo
  BY <1>1 DEF Load, Gen, List, NotFound, Analyze, NothingToDo
<1>2. CASE resolve_all_jobs
  <2>1. disk' = Rewritten(config)
    BY <1>2 DEF resolve_all_jobs
  <2> QED
    BY <1>0, <2>1 DEF Rewritten
<1>3. CASE Simulate \/ Compile \/ NinjaBegins \/ NinjaFails \/ NinjaEnds \/ run_analysis
  BY <1>3 DEF Simulate, Compile, AskNinja, NinjaBegins, NinjaFails, EdgeFails, NinjaEnds,
              run_analysis
<1>4. CASE NinjaWorks
  <2>1. \/ UNCHANGED disk
        \/ \E paths, from, result : disk' = Written(paths, from, result)
    BY <1>4 DEF NinjaWorks, EdgeStart, EdgeSucceeds
  <2>2. ASSUME NEW paths, NEW from, NEW result, disk' = Written(paths, from, result)
        PROVE  DOMAIN disk \subseteq DOMAIN disk'
    BY <1>0, <2>2 DEF Written
  <2> QED
    BY <2>1, <2>2
<1>5. CASE User
  BY <1>5 DEF User, EditSource, EditScript
<1>6. CASE UNCHANGED vars
  BY <1>6
<1> QED
  BY <1>1, <1>2, <1>3, <1>4, <1>5, <1>6 DEF Next, Command

LEMMA StepSourcesKept ==
  ASSUME IInv, ControlOK, SourcesKept, [Next]_vars
  PROVE  SourcesKept'
<1> SUFFICES ASSUME NEW p \in Sources PROVE p \in DOMAIN disk'
  BY DEF SourcesKept
<1>0. p \in DOMAIN disk
  BY DEF SourcesKept
<1>1. CASE CleanAll
  <2>1. ~IsPrefix(C.build_dir, p)
    BY SourcesAssumption DEF C, ControlOK
  <2> QED
    BY <1>0, <1>1, <2>1 DEF CleanAll, Without, Restrict
<1>2. CASE Clean
  <2>1. config \in Sound
    BY <1>2 DEF Clean, IInv, ConfigInv
  <2>2. \A d \in CleanedDirs : ~IsPrefix(d, p)
    BY <2>1, CleanedBelow, NoSourceBelow DEF C
  <2> QED
    BY <1>0, <1>2, <2>2 DEF Clean, Without, Restrict
<1>3. CASE Interrupt
  <2> SUFFICES ASSUME NEW o \in DOMAIN running, EdgeOf(o).simulates PROVE p \notin o
    BY <1>0, <1>3 DEF Interrupt, Killed, Restrict
  <2>1. pc = "ninja"
    BY DEF IInv, IdleInv
  <2>2. build_ninja \in Sound /\ o \in DOMAIN Generated[build_ninja].edges
    BY <2>1 DEF IInv, ConfigInv, EdgesInv
  <2> SUFFICES ASSUME p \in o PROVE FALSE
    OBVIOUS
  <2>3. PICK name : Below(p, Config[build_ninja].build_dir, "sim", name)
    BY <2>2, SimulatesBelow DEF EdgeOf
  <2>4. ~IsPrefix(p, p)
    BY <2>2, <2>3, NoSourceBelow
  <2> QED
    BY <2>4 DEF IsPrefix, Below
<1> QED
  BY <1>0, <1>1, <1>2, <1>3, FilesStay

LEMMA StampedOK ==
  ASSUME LogOK, NEW paths, NEW p \in DOMAIN Stamped(ninja_log, paths)
  PROVE  Stamped(ninja_log, paths)[p].changed \subseteq InputsOf[p]
BY DEF LogOK, Stamped

LEMMA StepLogOK ==
  ASSUME LogOK, [Next]_vars
  PROVE  LogOK'
<1> USE DEF Stays, Ends, nvars, hvars, vars
<1>1. CASE UNCHANGED ninja_log
  BY <1>1 DEF LogOK
<1>2. ASSUME NEW paths, ninja_log' = Stamped(ninja_log, paths)
      PROVE  LogOK'
  BY <1>2, StampedOK DEF LogOK
<1>3. CASE NinjaWorks
  <2>1. ASSUME NEW o, NEW r, EdgeSucceeds(o, r)
        PROVE  LogOK'
    <3> DEFINE made == [p \in o |-> [command |-> EdgeOf(o).command,
                                     changed |-> running[o].changed \cap InputsOf[p]]]
    <3>1. ninja_log' = Over(made, Stamped(ninja_log, o))
      BY <2>1 DEF EdgeSucceeds
    <3>2. ASSUME NEW p \in DOMAIN ninja_log'
          PROVE  ninja_log'[p].changed \subseteq InputsOf[p]
      <4>1. CASE p \in o
        <5>1. ninja_log'[p] = made[p]
          BY <3>1, <3>2, <4>1 DEF Over
        <5> QED
          BY <4>1, <5>1
      <4>2. CASE p \notin o
        <5>1. p \in DOMAIN Stamped(ninja_log, o) /\ ninja_log'[p] = Stamped(ninja_log, o)[p]
          BY <3>1, <3>2, <4>2 DEF Over
        <5> QED
          BY <5>1, StampedOK
      <4> QED
        BY <4>1, <4>2
    <3> QED
      BY <3>2 DEF LogOK
  <2> QED
    BY <1>1, <1>3, <2>1 DEF NinjaWorks, EdgeStart
<1>4. CASE resolve_all_jobs
  BY <1>2, <1>4 DEF resolve_all_jobs
<1>5. ASSUME NEW p, EditSource(p) PROVE LogOK'
  BY <1>2, <1>5 DEF EditSource
<1>6. CASE UNCHANGED vars \/ Load \/ CleanAll \/ Gen \/ List \/ NotFound \/ Simulate \/ Compile
           \/ Analyze \/ NothingToDo \/ Clean \/ NinjaBegins \/ NinjaFails \/ NinjaEnds
           \/ run_analysis \/ Interrupt
  BY <1>1, <1>6 DEF Load, CleanAll, Gen, List, NotFound, Simulate, Compile, AskNinja, Analyze,
     NothingToDo, Clean, NinjaBegins, NinjaFails, EdgeFails, NinjaEnds, run_analysis,
     Interrupt, Killed
<1>7. ASSUME NEW s, EditScript(s) PROVE LogOK'
  BY <1>1, <1>7 DEF EditScript
<1> QED
  BY <1>3, <1>4, <1>5, <1>6, <1>7 DEF Next, Command, User

LEMMA StepRunOK ==
  ASSUME IInv, ControlOK, RunOK, [Next]_vars
  PROVE  RunOK'
<1> USE DEF Stays, Ends, nvars, hvars, vars
<1>1. CASE Load
  BY <1>1 DEF Load, RunOK, IInv, IdleInv
<1>2. CASE UNCHANGED <<todo, running, failed, pc>>
  BY <1>2 DEF RunOK
<1>3. CASE CleanAll \/ resolve_all_jobs
  BY <1>3 DEF CleanAll, resolve_all_jobs, RunOK
<1>4. CASE Gen \/ List \/ NotFound \/ Analyze \/ NothingToDo \/ Clean
  BY <1>4 DEF Gen, List, NotFound, Analyze, NothingToDo, Clean, RunOK
<1>5. CASE Simulate \/ Compile
  BY <1>5 DEF Simulate, Compile, AskNinja, RunOK
<1>6. CASE NinjaBegins
  <2>1. DOMAIN running = {} /\ failed = {}
    BY <1>6 DEF NinjaBegins, IInv, IdleInv, RunOK
  <2> QED
    BY <1>6, <2>1 DEF NinjaBegins, RunOK
<1>7. ASSUME pc' = pc, pc = "ninja", NEW o \in todo, EdgeStart(o)
      PROVE  RunOK'
  <2>1. DOMAIN running' = DOMAIN running \cup {o} /\ todo' = todo \ {o} /\ failed' = failed
    BY <1>7 DEF EdgeStart
  <2> QED
    BY <1>7, <2>1 DEF RunOK
<1>8. ASSUME pc' = pc, pc = "ninja", NEW o, NEW r, EdgeSucceeds(o, r)
      PROVE  RunOK'
  <2>1. DOMAIN running' = DOMAIN running \ {o} /\ todo' = todo /\ failed' = failed
    BY <1>8 DEF EdgeSucceeds, Overtaken, Restrict
  <2> QED
    BY <1>8, <2>1 DEF RunOK
<1>9. ASSUME pc' = pc, pc = "ninja", NEW o, EdgeFails(o)
      PROVE  RunOK'
  <2>1. /\ DOMAIN running' = DOMAIN running \ {o} /\ todo' = todo /\ failed' = failed \cup {o}
        /\ o \in DOMAIN running
    BY <1>9 DEF EdgeFails, Restrict
  <2> QED
    BY <1>9, <2>1 DEF RunOK
<1>10. CASE NinjaEnds \/ run_analysis
  BY <1>10 DEF NinjaEnds, run_analysis, RunOK
<1>11. ASSUME NEW p, EditSource(p) PROVE RunOK'
  <2>1. /\ DOMAIN running' = DOMAIN running
        /\ UNCHANGED <<todo, failed, pc>>
    BY <1>11 DEF EditSource, Overtaken
  <2> QED
    BY <2>1 DEF RunOK
<1>12. ASSUME NEW s, EditScript(s) PROVE RunOK'
  BY <1>2, <1>12 DEF EditScript
<1>13. CASE Interrupt
  <2>1. DOMAIN running' = {} /\ todo' = todo /\ failed' = failed /\ pc' = "idle"
    BY <1>13 DEF Interrupt, Killed
  <2> QED
    BY <2>1 DEF RunOK
<1> QED
  BY <1>1, <1>2, <1>3, <1>4, <1>5, <1>6, <1>7, <1>8, <1>9, <1>10, <1>11, <1>12, <1>13
     DEF Next, Command, User, NinjaWorks, NinjaFails

LEMMA StepReportOK ==
  ASSUME IInv, ReportOK, [Next]_vars
  PROVE  ReportOK'
<1> USE DEF Stays, Ends, nvars, hvars, vars
<1>1. CASE Load
  <2>1. DOMAIN report' = {} /\ pc' = "loaded"
    BY <1>1 DEF Load
  <2> QED
    BY <2>1 DEF ReportOK
<1>2. CASE pc # "idle" /\ UNCHANGED report
  <2>1. DOMAIN report' = {}
    BY <1>2 DEF ReportOK
  <2> QED
    BY <2>1 DEF ReportOK
<1>3. CASE CleanAll \/ resolve_all_jobs \/ Gen \/ List \/ NotFound \/ Simulate \/ Compile
           \/ Analyze \/ NothingToDo \/ Clean \/ NinjaBegins \/ NinjaEnds \/ Interrupt
  BY <1>2, <1>3 DEF CleanAll, resolve_all_jobs, Gen, List, NotFound, Simulate, Compile, AskNinja,
     Analyze, NothingToDo, Clean, NinjaBegins, NinjaEnds, Interrupt
<1>4. CASE NinjaWorks \/ NinjaFails
  BY <1>2, <1>4 DEF NinjaWorks, NinjaFails
<1>5. CASE run_analysis
  <2>1. DOMAIN report' = Logs /\ targets' = targets /\ disk' = disk /\ pc' = "idle"
    BY <1>5 DEF run_analysis
  <2> QED
    BY <2>1 DEF ReportOK, Logs, Analysed
<1>6. CASE User /\ ~Interrupt
  <2>1. UNCHANGED <<targets, report, pc>>
    BY <1>6 DEF User, EditSource, EditScript
  <2>2. DOMAIN disk' = DOMAIN disk
    BY <1>6 DEF User, EditSource, EditScript
  <2> QED
    BY <2>1, <2>2 DEF ReportOK
<1>7. CASE UNCHANGED vars
  BY <1>7 DEF ReportOK
<1> QED
  BY <1>1, <1>3, <1>4, <1>5, <1>6, <1>7 DEF Next, Command, User

(* The types hold in every state: among them, no source is ever removed,   *)
(* an edge of a run of ninja is in one place, ninja's log remembers        *)
(* nothing an output does not depend on, and a report is about logs that   *)
(* are there (main.rs, analysis.rs).                                       *)
THEOREM TypeCorrect == Spec => []TypeOK
<1> DEFINE Types == ControlOK /\ SourcesKept /\ LogOK /\ RunOK /\ ReportOK
<1>1. Init => Types
  BY InitTypes
<1>2. IInv /\ Types /\ [Next]_vars => Types'
  BY StepControlOK, StepSourcesKept, StepLogOK, StepRunOK, StepReportOK
<1>3. IInv /\ Types => TypeOK
  BY DEF IInv, IdleInv, ControlOK, SourcesKept, LogOK, RunOK, ReportOK, TypeOK
<1> HIDE DEF Types
<1> QED
  BY <1>1, <1>2, <1>3, InitIInv, StepIInv, PTL DEF Spec
-----------------------------------------------------------------------------
(* The edges of a build.ninja.                                             *)

EdgeIn(s, q) == Generated[s].edges[q]

(* What is written into build.ninja.                                       *)
EdgeSet(c) == EdgesOf(c, AllHardware(c), AllSoftware(c), AllSimulations(c))

GraphOf(c) == Graph(c, EdgeSet(c))

Acceptable(c) == Accepts(c, AllSoftware(c), AllSimulations(c), EdgeSet(c))

LEMMA GeneratedIs ==
  ASSUME NEW s \in Sound
  PROVE  /\ Generated[s].accepted <=> Acceptable(Config[s])
         /\ Generated[s].edges = GraphOf(Config[s])
<1> PICK c : c = Config[s]
  OBVIOUS
<1>1. generate(c, AllHardware(c), AllSoftware(c), AllSimulations(c))
        = [accepted |-> Acceptable(c), edges |-> GraphOf(c)]
  BY DEF generate, EdgeSet, GraphOf, Acceptable
<1>2. Generated[s] = generate(c, AllHardware(c), AllSoftware(c), AllSimulations(c))
  BY DEF Generated, BuildGraph
<1> QED
  BY <1>1, <1>2

LEMMA EdgesAre ==
  ASSUME NEW s \in Sound
  PROVE  EdgesIn(s) = {e.outs : e \in EdgeSet(Config[s])}
BY GeneratedIs DEF GraphOf, Graph, EdgesIn

LEMMA LogIsEdge ==
  ASSUME NEW s \in Sound, NEW x \in ToSet(Sims[s])
  PROVE  {sim_log(x)} \in EdgesIn(s)
<1>1. SimulationEdge(x) \in EdgeSet(Config[s])
  BY DEF EdgeSet, EdgesOf, Sims
<1>2. SimulationEdge(x).outs = {sim_log(x)}
  BY DEF SimulationEdge
<1> QED
  BY <1>1, <1>2, EdgesAre

(* The actions of the tool of a suite.                                     *)
Acts(c, n) == c.tools[c.suites[n].tool].actions

ActionFiles(c, n) == FlattenSeq([i \in DOMAIN Acts(c, n) |-> Acts(c, n)[i].outputs])

LEMMA ActionFilesAre ==
  ASSUME NEW c, WellFormed(c), NEW n \in DOMAIN c.suites
  PROVE  ToSet(ActionFiles(c, n)) = UNION {ToSet(Acts(c, n)[l].outputs) : l \in DOMAIN Acts(c, n)}
<1> PICK acts : acts = Acts(c, n)
  OBVIOUS
<1>1. IsSeq(acts) /\ \A l \in DOMAIN acts : IsSeq(acts[l].outputs)
  BY DEF WellFormed, Acts
<1> PICK m \in Nat : DOMAIN acts = 1 .. m
  BY <1>1, IsSeqDomain
<1> DEFINE rows == [l \in DOMAIN acts |-> acts[l].outputs]
           S == UNION {Range(acts[l].outputs) : l \in DOMAIN acts}
<1>2. \A l \in 1 .. m : Range(acts[l].outputs) \subseteq S
  OBVIOUS
<1> HIDE DEF S
<1>3. \A l \in 1 .. m : acts[l].outputs \in Seq(S)
  BY <1>1, <1>2 DEF IsSeq
<1>4. rows \in Seq(Seq(S)) /\ DOMAIN rows = DOMAIN acts /\ \A l \in DOMAIN acts : rows[l] = acts[l].outputs
  BY <1>3
<1>5. ActionFiles(c, n) = FlattenSeq(rows)
  BY DEF ActionFiles
<1> HIDE DEF rows
<1>6. ToSet(FlattenSeq(rows)) = UNION {ToSet(rows[l]) : l \in DOMAIN rows}
  BY <1>4, FlattenFacts
<1>7. {ToSet(rows[l]) : l \in DOMAIN rows} = {ToSet(acts[l].outputs) : l \in DOMAIN acts}
  BY <1>4
<1> QED
  BY <1>5, <1>6, <1>7

ActionsAre(c, n, j, acts) ==
  /\ acts = Acts(c, n)
  /\ j.artifacts = artifact_paths(ActionFiles(c, n), j.silo_dir)
  /\ DOMAIN j.actions = DOMAIN acts
  /\ \A i \in DOMAIN acts : j.actions[i].outputs =
       {j.artifacts[a.name] : a \in ToSet(acts[i].outputs)}

LEMMA ProgramActions ==
  ASSUME NEW c, NEW n, NEW prog, NEW j, j = SoftwareJob(c, n, prog)
  PROVE  ActionsAre(c, n, j, Acts(c, n))
<1> PICK acts : acts = Acts(c, n)
  OBVIOUS
<1>1. acts = c.tools[c.suites[n].tool].actions
  BY DEF Acts
<1>2. ActionFiles(c, n) = FlattenSeq([i \in DOMAIN acts |-> acts[i].outputs])
  BY DEF ActionFiles
<1>3. ActionsAre(c, n, j, acts)
  BY <1>1, <1>2 DEF SoftwareJob, ActionsAre
<1> QED
  BY <1>3

(* Each artifact of a program is an output of one of its actions.          *)
LEMMA ProgramArtifacts ==
  ASSUME NEW c, WellFormed(c), NEW j \in AllSoftware(c), NEW p \in Range(j.artifacts)
  PROVE  \E a \in ToSet(j.actions) : p \in a.outputs
<1>1. PICK n \in DOMAIN c.suites : \E i \in DOMAIN Programs[n] :
        j = SoftwareJob(c, n, Programs[n][i])
  BY DEF AllSoftware, resolve_suite, ToSet
<1>2. PICK i \in DOMAIN Programs[n] : j = SoftwareJob(c, n, Programs[n][i])
  BY <1>1
<1> PICK all, acts : all = ToSet(ActionFiles(c, n)) /\ acts = Acts(c, n)
  OBVIOUS
<1>3. /\ j.artifacts = artifact_paths(ActionFiles(c, n), j.silo_dir)
      /\ DOMAIN j.actions = DOMAIN acts
      /\ \A k \in DOMAIN acts : j.actions[k].outputs =
           {j.artifacts[a.name] : a \in ToSet(acts[k].outputs)}
  <2>1. ActionsAre(c, n, j, Acts(c, n))
    BY <1>2, ProgramActions
  <2> QED
    BY <2>1 DEF ActionsAre
<1>4. all = UNION {ToSet(acts[k].outputs) : k \in DOMAIN acts}
  BY ActionFilesAre
<1>5. PICK f \in all : p = j.artifacts[f.name]
  <2>1. PICK x \in DOMAIN j.artifacts : p = j.artifacts[x]
    BY DEF Range
  <2>2. DOMAIN j.artifacts = {a.name : a \in all}
    BY <1>3 DEF artifact_paths
  <2> QED
    BY <2>1, <2>2
<1>6. PICK k \in DOMAIN acts : f \in ToSet(acts[k].outputs)
  BY <1>4
<1>7. p \in j.actions[k].outputs
  BY <1>3, <1>5, <1>6
<1> QED
  BY <1>3, <1>7 DEF ToSet

(* Each is the output of an edge.                                          *)
LEMMA ArtifactEdge ==
  ASSUME NEW s \in Sound
  PROVE  /\ \A h \in AllHardware(Config[s]) : Range(h.artifact_paths) \in EdgesIn(s)
         /\ \A j \in AllSoftware(Config[s]) : Range(j.artifacts) \subseteq UNION EdgesIn(s)
<1> PICK c : c = Config[s]
  OBVIOUS
<1>1. ASSUME NEW h \in AllHardware(c)
      PROVE  Range(h.artifact_paths) \in EdgesIn(s)
  <2>1. HardwareEdge(c, h).outs = Range(h.artifact_paths)
    BY DEF HardwareEdge
  <2>2. HardwareEdge(c, h) \in EdgeSet(c)
    BY DEF EdgeSet, EdgesOf
  <2> QED
    BY <2>1, <2>2, EdgesAre
<1>2. ASSUME NEW j \in AllSoftware(c), NEW p \in Range(j.artifacts)
      PROVE  p \in UNION EdgesIn(s)
  <2>1. PICK a \in ToSet(j.actions) : p \in a.outputs
    BY SoundWellFormed, ProgramArtifacts
  <2>2. SoftwareEdge(a) \in EdgeSet(c) /\ SoftwareEdge(a).outs = a.outputs
    BY DEF EdgeSet, EdgesOf, SoftwareEdge
  <2> QED
    BY <2>1, <2>2, EdgesAre
<1> QED
  BY <1>1, <1>2

(* In an accepted graph an edge is the one with its outputs.               *)
LEMMA EdgeInIs ==
  ASSUME NEW s \in Sound, Generated[s].accepted, NEW e \in EdgeSet(Config[s])
  PROVE  /\ e.outs # {} /\ e.outs \in EdgesIn(s)
         /\ EdgeIn(s, e.outs).ins = e.ins /\ EdgeIn(s, e.outs).opens = e.opens
<1> PICK c : c = Config[s]
  OBVIOUS
<1> DEFINE edge == CHOOSE y \in EdgeSet(c) : y.outs = e.outs
<1>1. edge \in EdgeSet(c) /\ edge.outs = e.outs
  OBVIOUS
<1>2. /\ e.outs \in DOMAIN GraphOf(c)
      /\ GraphOf(c)[e.outs].ins = edge.ins /\ GraphOf(c)[e.outs].opens = edge.opens
  BY DEF GraphOf, Graph
<1> HIDE DEF edge
<1>3. /\ \A x, y \in EdgeSet(c) : x # y => x.outs \cap y.outs = {}
      /\ \A x \in EdgeSet(c) : x.outs # {}
  BY GeneratedIs DEF Acceptable, Accepts
<1>4. edge = e /\ e.outs # {}
  BY <1>1, <1>3
<1> QED
  BY <1>2, <1>4, GeneratedIs DEF EdgesIn, EdgeIn

LEMMA UpstreamIs ==
  ASSUME NEW s \in Sound, NEW o \in EdgesIn(s)
  PROVE  /\ o \in UpstreamOf[s][o]
         /\ \A q \in UpstreamOf[s][o], r \in EdgesIn(s) :
              r \cap EdgeIn(s, q).ins # {} => r \in UpstreamOf[s][o]
<1> PICK graph : graph = Generated[s].edges
  OBVIOUS
<1>1. UpstreamOf[s][o] = Upstream(graph, o) /\ o \in DOMAIN graph /\ IsFiniteSet(DOMAIN graph)
  BY GraphsAssumption DEF UpstreamOf, UpstreamsIn, EdgesIn
<1>2. /\ o \in Upstream(graph, o)
      /\ \A q \in Upstream(graph, o) : Producers(graph, q) \subseteq Upstream(graph, o)
  BY <1>1, UpstreamClosed
<1> QED
  BY <1>1, <1>2 DEF Producers, EdgeIn, EdgesIn

-----------------------------------------------------------------------------
(* The directories of jobs, and what is made in them.                      *)

(* A directory tells what it is of.                                        *)
LEMMA HardwareDir ==
  ASSUME NEW root, IsSeq(root), NEW tb, NEW ps, NEW sim, NEW tb2, NEW ps2, NEW sim2,
         hw_dir(root, tb, ps, sim) = hw_dir(root, tb2, ps2, sim2)
  PROVE  tb = tb2 /\ ps = ps2 /\ sim = sim2
<1> PICK z : z = hw_dir(root, tb, ps, sim)
  OBVIOUS
<1>1. IsPath(z, root, <<"hw", tb, ps, sim>>) /\ IsPath(z, root, <<"hw", tb2, ps2, sim2>>)
  BY DirsAreSeqs DEF IsPath, hw_dir
<1>2. <<"hw", tb, ps, sim>> = <<"hw", tb2, ps2, sim2>>
  BY <1>1, SplitSame
<1> QED
  BY <1>2

LEMMA SoftwareDir ==
  ASSUME NEW root, IsSeq(root), NEW n, NEW path, IsSeq(path), NEW n2, NEW path2, IsSeq(path2),
         sw_dir(root, n, path) = sw_dir(root, n2, path2)
  PROVE  n = n2 /\ path = path2
<1> PICK z : z = sw_dir(root, n, path)
  OBVIOUS
<1> PICK x, y : x = root \o <<"sw", n>> /\ y = root \o <<"sw", n2>>
  OBVIOUS
<1>1. IsPath(x, root, <<"sw", n>>) /\ IsPath(y, root, <<"sw", n2>>)
  BY DirsAreSeqs DEF IsPath
<1>2. IsSeq(x) /\ IsSeq(y)
  BY <1>1, IsSeqFacts DEF IsPath
<1>3. Len(x) = Len(root) + 2 /\ Len(y) = Len(root) + 2
  BY <1>1, PartsOf
<1>4. IsPath(z, x, path) /\ IsPath(z, y, path2)
  BY <1>2 DEF IsPath, sw_dir
<1>5. x = y /\ path = path2
  BY <1>3, <1>4, SplitSame
<1>6. <<"sw", n>> = <<"sw", n2>>
  BY <1>1, <1>5, SplitSame
<1> QED
  BY <1>5, <1>6

SimDirs(name, hw, last) ==
  <<"sim", name, hw.testbench, hw.param_set, hw.simulator, last>>

(* The directory of a simulation of an experiment on a piece of hardware.  *)
SimIn(x, root, name, hw, last, rest) ==
  IsSeq(rest) /\ x.silo_dir = (root \o SimDirs(name, hw, last)) \o rest

LEMMA SimulationDirSame ==
  ASSUME NEW root, IsSeq(root), NEW x, NEW y, x.silo_dir = y.silo_dir,
         NEW name, NEW hw, NEW last, NEW rest, SimIn(x, root, name, hw, last, rest),
         NEW name2, NEW hw2, NEW last2, NEW rest2, SimIn(y, root, name2, hw2, last2, rest2)
  PROVE  /\ name = name2 /\ last = last2 /\ rest = rest2
         /\ hw.testbench = hw2.testbench /\ hw.param_set = hw2.param_set
         /\ hw.simulator = hw2.simulator
<1> PICK z : z = x.silo_dir
  OBVIOUS
<1> PICK d, d2 : d = SimDirs(name, hw, last) /\ d2 = SimDirs(name2, hw2, last2)
  OBVIOUS
<1> PICK p, p2 : p = root \o d /\ p2 = root \o d2
  OBVIOUS
<1>1. IsSeq(d) /\ Len(d) = 6 /\ IsSeq(d2) /\ Len(d2) = 6
  BY DirsAreSeqs DEF SimDirs
<1>2. IsPath(p, root, d) /\ IsPath(p2, root, d2)
  BY <1>1 DEF IsPath
<1>3. IsSeq(p) /\ IsSeq(p2)
  BY <1>2, IsSeqFacts DEF IsPath
<1>4. Len(p) = Len(root) + 6 /\ Len(p2) = Len(root) + 6
  <2>1. Len(p) = Len(root) + Len(d)
    BY <1>2, PartsOf
  <2>2. Len(p2) = Len(root) + Len(d2)
    BY <1>2, PartsOf
  <2> QED
    BY <1>1, <2>1, <2>2
<1>5. IsPath(z, p, rest) /\ IsPath(z, p2, rest2)
  BY <1>3 DEF IsPath, SimIn
<1>6. p = p2 /\ rest = rest2
  BY <1>4, <1>5, SplitSame
<1>7. d = d2
  BY <1>2, <1>6, SplitSame
<1>8. SimDirs(name, hw, last) = SimDirs(name2, hw2, last2)
  BY <1>7
<1> QED
  BY <1>6, <1>8 DEF SimDirs

-----------------------------------------------------------------------------
(* Jobs that one resolves one after the other have directories of their    *)
(* own.                                                                    *)

LEMMA HardwareDiffers ==
  ASSUME NEW c, IsSeq(c.build_dir), NEW exp, IsSeq(exp.param_sets), IsSeq(exp.simulators),
         IsInjective(exp.param_sets), IsInjective(exp.simulators)
  PROVE  DirsDiffer(resolve_hardware(c, exp))
<1> DEFINE S == HardwareJobs(c, exp)
           job(i, j) == HardwareJob(c, exp.testbench, exp.param_sets[i], exp.simulators[j])
           row(i) == [j \in DOMAIN exp.simulators |-> job(i, j)]
           rows == [i \in DOMAIN exp.param_sets |-> row(i)]
<1> PICK m \in Nat, n \in Nat : DOMAIN exp.param_sets = 1 .. m /\ DOMAIN exp.simulators = 1 .. n
  BY DEF IsSeq
<1>1. \A i \in 1 .. m, j \in 1 .. n : job(i, j) \in S
  <2> TAKE i \in 1 .. m, j \in 1 .. n
  <2>1. exp.param_sets[i] \in Range(exp.param_sets) /\ exp.simulators[j] \in Range(exp.simulators)
    BY DEF Range
  <2> QED
    BY <2>1 DEF HardwareJobs
<1>2. ASSUME NEW i \in 1 .. m, NEW k \in 1 .. m, NEW j \in 1 .. n, NEW l \in 1 .. n,
             job(i, j).silo_dir = job(k, l).silo_dir
      PROVE  i = k /\ j = l
  <2>1. exp.param_sets[i] = exp.param_sets[k] /\ exp.simulators[j] = exp.simulators[l]
    BY <1>2, HardwareDir DEF HardwareJob
  <2> QED
    BY <2>1 DEF IsInjective
<1> HIDE DEF job
<1>3. \A i \in 1 .. m : row(i) \in Seq(S)
  BY <1>1
<1>4. rows \in Seq(Seq(S)) /\ DOMAIN rows = 1 .. m
  <2> HIDE DEF row
  <2> QED
    BY <1>3
<1>5. RowsApart(rows)
  <2>1. ASSUME NEW i \in 1 .. m PROVE DirsDiffer(rows[i])
    BY <1>2 DEF DirsDiffer
  <2>2. ASSUME NEW i \in 1 .. m, NEW k \in 1 .. m, i # k
        PROVE  Apart(ToSet(rows[i]), ToSet(rows[k]))
    BY <1>2, <2>2 DEF Apart, ToSet
  <2> HIDE DEF rows
  <2> QED
    BY <1>4, <2>1, <2>2 DEF RowsApart
<1>6. resolve_hardware(c, exp) = FlattenSeq(rows)
  BY DEF resolve_hardware, rows, row, job
<1> HIDE DEF rows
<1> QED
  BY <1>4, <1>5, <1>6, FlattenFacts

LEMMA ProgramFields ==
  ASSUME NEW c, NEW n, NEW prog
  PROVE  LET j == SoftwareJob(c, n, prog) IN
         /\ j.suite_name = n /\ j.rel_path = prog.rel_path
         /\ j.silo_dir = sw_dir(c.build_dir, n, prog.rel_path)
BY DEF SoftwareJob

(* What is known of a program's job.                                       *)
IsProgram(c, j, n, prog) == j = SoftwareJob(c, n, prog)

LEMMA SoftwareIs ==
  ASSUME NEW c, WellFormed(c), NEW j \in AllSoftware(c)
  PROVE  /\ j.suite_name \in DOMAIN c.suites
         /\ IsSeq(j.rel_path) /\ j.silo_dir = sw_dir(c.build_dir, j.suite_name, j.rel_path)
         /\ \E i \in DOMAIN Programs[j.suite_name] :
              /\ IsProgram(c, j, j.suite_name, Programs[j.suite_name][i])
              /\ j.rel_path = Programs[j.suite_name][i].rel_path
<1>1. PICK n \in DOMAIN c.suites : \E i \in DOMAIN Programs[n] :
        j = SoftwareJob(c, n, Programs[n][i])
  BY DEF AllSoftware, resolve_suite, ToSet
<1>2. PICK i \in DOMAIN Programs[n] : j = SoftwareJob(c, n, Programs[n][i])
  BY <1>1
<1>3. /\ j.suite_name = n /\ j.rel_path = Programs[n][i].rel_path
      /\ j.silo_dir = sw_dir(c.build_dir, n, Programs[n][i].rel_path)
  BY <1>2 DEF SoftwareJob
<1> QED
  BY <1>2, <1>3, RelPaths DEF IsProgram

LEMMA ProgramsNamed ==
  ASSUME NEW c, NamedApart(c), NEW n \in DOMAIN c.suites
  PROVE  \A i, k \in DOMAIN Programs[n] :
           Programs[n][i].rel_path = Programs[n][k].rel_path => i = k
BY DEF NamedApart

LEMMA SoftwareSame ==
  ASSUME NEW c, WellFormed(c), NamedApart(c), NEW x \in AllSoftware(c), NEW y \in AllSoftware(c),
         x.silo_dir = y.silo_dir
  PROVE  x = y
<1>1. /\ IsSeq(x.rel_path) /\ x.silo_dir = sw_dir(c.build_dir, x.suite_name, x.rel_path)
      /\ IsSeq(y.rel_path) /\ y.silo_dir = sw_dir(c.build_dir, y.suite_name, y.rel_path)
  BY SoftwareIs
<1>2. x.suite_name = y.suite_name /\ x.rel_path = y.rel_path
  <2> PICK n, r, n2, r2 : /\ n = x.suite_name /\ r = x.rel_path
                          /\ n2 = y.suite_name /\ r2 = y.rel_path
    OBVIOUS
  <2>1. sw_dir(c.build_dir, n, r) = sw_dir(c.build_dir, n2, r2) /\ IsSeq(r) /\ IsSeq(r2)
    BY <1>1
  <2>2. n = n2 /\ r = r2
    BY <2>1, SoftwareDir DEF WellFormed
  <2> QED
    BY <2>2
<1> PICK n \in DOMAIN c.suites : n = x.suite_name
  BY SoftwareIs
<1>3. PICK i \in DOMAIN Programs[n] :
        IsProgram(c, x, n, Programs[n][i]) /\ x.rel_path = Programs[n][i].rel_path
  BY SoftwareIs
<1>4. PICK k \in DOMAIN Programs[n] :
        IsProgram(c, y, n, Programs[n][k]) /\ y.rel_path = Programs[n][k].rel_path
  BY <1>2, SoftwareIs
<1>5. i = k
  BY <1>2, <1>3, <1>4, ProgramsNamed
<1> QED
  BY <1>3, <1>4, <1>5 DEF IsProgram

LEMMA SoftwareDiffers ==
  ASSUME NEW c, WellFormed(c), NamedApart(c), NEW exp, IsSeq(exp.suites), IsInjective(exp.suites)
  PROVE  SoftwareOf(c, exp) \in Seq(AllSoftware(c)) /\ DirsDiffer(SoftwareOf(c, exp))
<1> DEFINE S == AllSoftware(c)
           row(i) == IF exp.suites[i] \in DOMAIN c.suites THEN resolve_suite(c, exp.suites[i])
                                                          ELSE <<>>
           rows == [i \in DOMAIN exp.suites |-> row(i)]
<1>1. ASSUME NEW n \in DOMAIN c.suites
      PROVE  /\ resolve_suite(c, n) \in Seq(S) /\ DirsDiffer(resolve_suite(c, n))
             /\ \A j \in ToSet(resolve_suite(c, n)) : j.suite_name = n
  <2> PICK ps : ps = resolve_suite(c, n)
    OBVIOUS
  <2>1. PICK m \in Nat : DOMAIN Programs[n] = 1 .. m
    BY IsSeqDomain DEF WellFormed
  <2>2. /\ ps = [i \in 1 .. m |-> SoftwareJob(c, n, Programs[n][i])]
        /\ \A i \in 1 .. m : ps[i] = SoftwareJob(c, n, Programs[n][i])
    BY <2>1 DEF resolve_suite
  <2>3. \A i \in 1 .. m : ps[i] \in S
    <3>1. ToSet(ps) \subseteq S
      BY DEF AllSoftware
    <3> HIDE DEF S
    <3> QED
      BY <2>2, <3>1 DEF ToSet
  <2>4. ps \in Seq(S)
    BY <2>2, <2>3
  <2>5. \A i \in 1 .. m : ps[i].suite_name = n /\ ps[i].rel_path = Programs[n][i].rel_path
    BY <2>2, ProgramFields
  <2>6. ASSUME NEW i \in 1 .. m, NEW k \in 1 .. m, ps[i].silo_dir = ps[k].silo_dir
        PROVE  i = k
    <3>1. ps[i].rel_path = ps[k].rel_path
      BY <2>3, <2>6, SoftwareSame
    <3>2. Programs[n][i].rel_path = Programs[n][k].rel_path
      BY <2>5, <3>1
    <3> QED
      BY <2>1, <3>2, ProgramsNamed
  <2> QED
    BY <2>2, <2>4, <2>5, <2>6 DEF DirsDiffer, ToSet
<1>2. ASSUME NEW i \in DOMAIN exp.suites
      PROVE  /\ row(i) \in Seq(S) /\ DirsDiffer(row(i))
             /\ \A j \in ToSet(row(i)) : j.suite_name = exp.suites[i]
  <2>1. CASE exp.suites[i] \in DOMAIN c.suites
    BY <1>1, <2>1
  <2>2. CASE exp.suites[i] \notin DOMAIN c.suites
    BY <2>2 DEF DirsDiffer, ToSet
  <2> QED
    BY <2>1, <2>2
<1> PICK m \in Nat : DOMAIN exp.suites = 1 .. m
  BY IsSeqDomain
<1> HIDE DEF row
<1>3. rows \in Seq(Seq(S)) /\ DOMAIN rows = 1 .. m /\ \A i \in 1 .. m : rows[i] = row(i)
  BY <1>2
<1>4. SoftwareOf(c, exp) = FlattenSeq(rows)
  BY DEF SoftwareOf, row
<1> HIDE DEF rows
<1>5. ASSUME NEW i \in 1 .. m, NEW k \in 1 .. m, i # k
      PROVE  Apart(ToSet(rows[i]), ToSet(rows[k]))
  <2> SUFFICES ASSUME NEW x \in ToSet(rows[i]), NEW y \in ToSet(rows[k]),
                      x.silo_dir = y.silo_dir
               PROVE  FALSE
    BY DEF Apart
  <2>1. x \in S /\ y \in S
    BY <1>2, <1>3 DEF ToSet
  <2>2. x = y
    BY <2>1, SoftwareSame
  <2>3. exp.suites[i] = exp.suites[k]
    BY <1>2, <1>3, <2>2
  <2> QED
    BY <1>5, <2>3 DEF IsInjective
<1>6. RowsApart(rows)
  BY <1>2, <1>3, <1>5 DEF RowsApart
<1> QED
  BY <1>3, <1>4, <1>6, FlattenFacts

(* The simulations of an experiment on one piece of hardware.              *)
SimsWith(c, exp, hw) ==
  LET sws == SoftwareOf(c, exp)
  IN IF sws = <<>> THEN <<StandaloneSim(c, exp, hw)>>
     ELSE [j \in DOMAIN sws |-> SoftwareSim(c, exp, hw, sws[j])]

LEMMA StandaloneIn ==
  ASSUME NEW c, IsSeq(c.build_dir), NEW exp, NEW hw
  PROVE  SimIn(StandaloneSim(c, exp, hw), c.build_dir, exp.name, hw, "standalone", <<>>)
<1> PICK dirs : dirs = SimDirs(exp.name, hw, "standalone")
  OBVIOUS
<1> PICK x : x = StandaloneSim(c, exp, hw)
  OBVIOUS
<1>1. x.silo_dir = c.build_dir \o dirs /\ IsSeq(dirs) /\ IsSeq(<<>>)
  <2>1. IsSeq(<<>>)
    BY DEF IsSeq
  <2>2. IsSeq(dirs)
    BY DirsAreSeqs DEF SimDirs
  <2> QED
    BY <2>1, <2>2 DEF StandaloneSim, SimJob, standalone_dir, SimDirs
<1>2. PICK S : c.build_dir \o dirs \in Seq(S)
  BY <1>1, IsSeqFacts DEF IsSeq
<1>3. (c.build_dir \o dirs) \o <<>> = c.build_dir \o dirs
  BY <1>2
<1> QED
  BY <1>1, <1>3 DEF SimIn

LEMMA SoftwareIn ==
  ASSUME NEW c, NEW exp, NEW hw, NEW sw, IsSeq(sw.rel_path)
  PROVE  SimIn(SoftwareSim(c, exp, hw, sw), c.build_dir, exp.name, hw, sw.suite_name, sw.rel_path)
BY DEF SoftwareSim, SimJob, sim_dir, SimDirs, SimIn

(* They are where the experiment and the hardware say, each in a directory *)
(* of its own.                                                             *)
LEMMA SimsWithDiffer ==
  ASSUME NEW c, WellFormed(c), NamedApart(c), NEW exp, IsSeq(exp.suites),
         IsInjective(exp.suites), NEW hw
  PROVE  /\ SimsWith(c, exp, hw) \in Seq(ToSet(SimsWith(c, exp, hw)))
         /\ DirsDiffer(SimsWith(c, exp, hw))
         /\ \A x \in ToSet(SimsWith(c, exp, hw)) :
              \E last, rest : SimIn(x, c.build_dir, exp.name, hw, last, rest)
<1> PICK sws : sws = SoftwareOf(c, exp)
  OBVIOUS
<1> PICK sims : sims = SimsWith(c, exp, hw)
  OBVIOUS
<1>1. sws \in Seq(AllSoftware(c)) /\ DirsDiffer(sws) /\ IsSeq(c.build_dir)
  BY SoftwareDiffers DEF WellFormed
<1>2. CASE sws = <<>>
  <2> PICK x : x = StandaloneSim(c, exp, hw)
    OBVIOUS
  <2>1. sims = <<x>>
    BY <1>2 DEF SimsWith
  <2>2. sims \in Seq(ToSet(sims)) /\ DirsDiffer(sims) /\ ToSet(sims) = {x}
    BY <2>1 DEF DirsDiffer, ToSet
  <2>3. SimIn(x, c.build_dir, exp.name, hw, "standalone", <<>>)
    BY <1>1, StandaloneIn
  <2> QED
    BY <2>2, <2>3
<1>3. CASE sws # <<>>
  <2> DEFINE sim(j) == SoftwareSim(c, exp, hw, sws[j])
  <2> PICK m \in Nat : DOMAIN sws = 1 .. m
    BY <1>1
  <2>1. sims = [j \in 1 .. m |-> sim(j)]
    BY <1>3 DEF SimsWith
  <2>2. ASSUME NEW j \in 1 .. m
        PROVE  /\ sws[j] \in AllSoftware(c) /\ IsSeq(sws[j].rel_path)
               /\ sws[j].silo_dir = sw_dir(c.build_dir, sws[j].suite_name, sws[j].rel_path)
               /\ SimIn(sim(j), c.build_dir, exp.name, hw, sws[j].suite_name, sws[j].rel_path)
    <3>1. sws[j] \in AllSoftware(c)
      BY <1>1
    <3> QED
      BY <3>1, SoftwareIs, SoftwareIn
  <2> HIDE DEF sim
  <2>3. sims \in Seq(ToSet(sims)) /\ ToSet(sims) = {sim(j) : j \in 1 .. m}
    BY <2>1 DEF ToSet
  <2>4. ASSUME NEW i \in 1 .. m, NEW j \in 1 .. m, sim(i).silo_dir = sim(j).silo_dir
        PROVE  i = j
    <3>1. /\ SimIn(sim(i), c.build_dir, exp.name, hw, sws[i].suite_name, sws[i].rel_path)
          /\ SimIn(sim(j), c.build_dir, exp.name, hw, sws[j].suite_name, sws[j].rel_path)
      BY <2>2
    <3>2. sws[i].suite_name = sws[j].suite_name /\ sws[i].rel_path = sws[j].rel_path
      BY <1>1, <2>4, <3>1, SimulationDirSame
    <3>3. sws[i].silo_dir = sws[j].silo_dir
      BY <2>2, <3>2
    <3> QED
      BY <1>1, <3>3 DEF DirsDiffer
  <2>5. DirsDiffer(sims)
    BY <2>1, <2>4 DEF DirsDiffer
  <2> QED
    BY <2>2, <2>3, <2>5
<1> QED
  BY <1>2, <1>3

(* The simulations of an experiment.                                       *)
LEMMA SimulationsDiffer ==
  ASSUME NEW c, WellFormed(c), NamedApart(c), NEW e \in DOMAIN c.experiments,
         NEW exp, exp = c.experiments[e]
  PROVE  /\ DirsDiffer(SimulationsOf(c, exp))
         /\ \A x \in ToSet(SimulationsOf(c, exp)) : \E hw, last, rest :
              SimIn(x, c.build_dir, exp.name, hw, last, rest)
<1> PICK hws \in Seq(HardwareJobs(c, exp)) : hws = resolve_hardware(c, exp)
  BY HardwareSeq DEF WellFormed
<1> PICK m \in Nat : DOMAIN hws = 1 .. m
  OBVIOUS
<1>1. DirsDiffer(hws) /\ IsSeq(exp.suites) /\ IsInjective(exp.suites) /\ IsSeq(c.build_dir)
  BY HardwareDiffers DEF WellFormed, NamedApart
<1> DEFINE row(i) == SimsWith(c, exp, hws[i])
           rows == [i \in DOMAIN hws |-> row(i)]
           S == UNION {ToSet(row(i)) : i \in 1 .. m}
<1>2. ASSUME NEW i \in 1 .. m
      PROVE  /\ row(i) \in Seq(S) /\ DirsDiffer(row(i))
             /\ \A x \in ToSet(row(i)) :
                  \E last, rest : SimIn(x, c.build_dir, exp.name, hws[i], last, rest)
  <2>1. /\ row(i) \in Seq(ToSet(row(i))) /\ DirsDiffer(row(i))
        /\ \A x \in ToSet(row(i)) :
             \E last, rest : SimIn(x, c.build_dir, exp.name, hws[i], last, rest)
    BY <1>1, SimsWithDiffer
  <2> HIDE DEF row
  <2>2. ToSet(row(i)) \subseteq S
    OBVIOUS
  <2> HIDE DEF S
  <2>3. row(i) \in Seq(S)
    BY <2>1, <2>2
  <2> QED
    BY <2>1, <2>3
<1>3. SimulationsOf(c, exp) = FlattenSeq(rows)
  BY DEF SimulationsOf, resolve_simulations, SimsWith
<1> HIDE DEF row, S
<1>4. rows \in Seq(Seq(S)) /\ DOMAIN rows = 1 .. m /\ \A i \in 1 .. m : rows[i] = row(i)
  BY <1>2
<1> HIDE DEF rows
<1>5. ASSUME NEW i \in 1 .. m, NEW k \in 1 .. m, i # k
      PROVE  Apart(ToSet(rows[i]), ToSet(rows[k]))
  <2> SUFFICES ASSUME NEW x \in ToSet(row(i)), NEW y \in ToSet(row(k)), x.silo_dir = y.silo_dir
               PROVE  FALSE
    BY <1>4 DEF Apart
  <2>1. PICK last, rest : SimIn(x, c.build_dir, exp.name, hws[i], last, rest)
    BY <1>2
  <2>2. PICK last2, rest2 : SimIn(y, c.build_dir, exp.name, hws[k], last2, rest2)
    BY <1>2
  <2>3. /\ hws[i].testbench = hws[k].testbench /\ hws[i].param_set = hws[k].param_set
        /\ hws[i].simulator = hws[k].simulator
    BY <1>1, <2>1, <2>2, SimulationDirSame
  <2>4. \A h \in HardwareJobs(c, exp) :
          h.silo_dir = hw_dir(c.build_dir, h.testbench, h.param_set, h.simulator)
    BY DEF HardwareJobs, HardwareJob
  <2>5. hws[i].silo_dir = hws[k].silo_dir
    <3>1. hws[i] \in HardwareJobs(c, exp) /\ hws[k] \in HardwareJobs(c, exp)
      OBVIOUS
    <3> QED
      BY <2>3, <2>4, <3>1
  <2> QED
    BY <1>1, <1>5, <2>5 DEF DirsDiffer
<1>6. RowsApart(rows)
  BY <1>2, <1>4, <1>5 DEF RowsApart
<1>7. /\ ToSet(FlattenSeq(rows)) = UNION {ToSet(rows[i]) : i \in DOMAIN rows}
      /\ DirsDiffer(FlattenSeq(rows))
  BY <1>4, <1>6, FlattenFacts
<1> QED
  BY <1>2, <1>3, <1>4, <1>7

(* All of them.                                                            *)
LEMMA AllSimulationsDiffer ==
  ASSUME NEW c, WellFormed(c), NamedApart(c)
  PROVE  DirsDiffer(AllSimulations(c))
<1> PICK m \in Nat : DOMAIN c.experiments = 1 .. m
  BY IsSeqDomain DEF WellFormed
<1> DEFINE row(i) == SimulationsOf(c, c.experiments[i])
           rows == [i \in DOMAIN c.experiments |-> row(i)]
<1>1. ASSUME NEW i \in 1 .. m
      PROVE  /\ row(i) \in Seq(SimsOfAll(c)) /\ DirsDiffer(row(i))
             /\ \A x \in ToSet(row(i)) : \E hw, last, rest :
                  SimIn(x, c.build_dir, c.experiments[i].name, hw, last, rest)
  <2>1. row(i) \in Seq(SimsOf(c, c.experiments[i]))
    BY SimulationsSeq DEF WellFormed
  <2>2. SimsOf(c, c.experiments[i]) \subseteq SimsOfAll(c)
    BY DEF SimsOfAll
  <2>3. /\ DirsDiffer(row(i))
        /\ \A x \in ToSet(row(i)) : \E hw, last, rest :
             SimIn(x, c.build_dir, c.experiments[i].name, hw, last, rest)
    BY SimulationsDiffer
  <2> HIDE DEF row
  <2> QED
    BY <2>1, <2>2, <2>3
<1>2. AllSimulations(c) = FlattenSeq(rows)
  BY DEF AllSimulations
<1> HIDE DEF row
<1>3. /\ rows \in Seq(Seq(SimsOfAll(c))) /\ DOMAIN rows = 1 .. m
      /\ \A i \in 1 .. m : rows[i] = row(i)
  BY <1>1
<1> HIDE DEF rows
<1>4. ASSUME NEW i \in 1 .. m, NEW k \in 1 .. m, i # k
      PROVE  Apart(ToSet(rows[i]), ToSet(rows[k]))
  <2> SUFFICES ASSUME NEW x \in ToSet(row(i)), NEW y \in ToSet(row(k)), x.silo_dir = y.silo_dir
               PROVE  FALSE
    BY <1>3 DEF Apart
  <2>1. PICK hw, last, rest : SimIn(x, c.build_dir, c.experiments[i].name, hw, last, rest)
    BY <1>1
  <2>2. PICK hw2, last2, rest2 : SimIn(y, c.build_dir, c.experiments[k].name, hw2, last2, rest2)
    BY <1>1
  <2>3. c.experiments[i].name = c.experiments[k].name
    BY <2>1, <2>2, SimulationDirSame DEF WellFormed
  <2> QED
    BY <1>4, <2>3 DEF NamedApart
<1>5. RowsApart(rows)
  BY <1>1, <1>3, <1>4 DEF RowsApart
<1> QED
  BY <1>2, <1>3, <1>5, FlattenFacts

(* A path in one of the directories of jobs of a kind.                     *)
InKind(p, root, kind) ==
  /\ kind \in {"hw", "sw", "sim"} /\ IsPrefix(Append(root, kind), p)
  /\ p[Len(root) + 1] = kind

LEMMA BelowKind ==
  ASSUME NEW root, IsSeq(root), NEW p, NEW kind \in {"hw", "sw", "sim"}, NEW name,
         Below(p, root, kind, name)
  PROVE  InKind(p, root, kind)
<1>1. /\ IsSeq(p) /\ Len(p) \in Nat /\ Len(root) \in Nat /\ Len(root) + 2 <= Len(p)
      /\ p[Len(root) + 1] = kind
  BY IsSeqFacts DEF Below
<1>2. \A i \in 1 .. Len(root) : p[i] = root[i]
  BY <1>1, PrefixIs DEF Below
<1> PICK S : root \in Seq(S) /\ kind \in S
  <2>1. root \in Seq(Range(root) \cup {kind})
    BY DEF IsSeq
  <2> QED
    BY <2>1
<1> PICK q : q = Append(root, kind)
  OBVIOUS
<1>3. /\ q \in Seq(S) /\ Len(q) = Len(root) + 1
      /\ \A i \in 1 .. Len(root) : q[i] = root[i]
      /\ q[Len(root) + 1] = kind
  OBVIOUS
<1>4. Len(q) <= Len(p) /\ \A i \in 1 .. Len(q) : q[i] = p[i]
  BY <1>1, <1>2, <1>3
<1>5. IsPrefix(q, p)
  BY <1>1, <1>3, <1>4, IsSeqIf, PrefixIs
<1> QED
  BY <1>1, <1>5 DEF InKind

(* What hardware makes.                                                    *)
IsHardware(c, h, i, ps, sim) ==
  /\ sim \in Range(c.experiments[i].simulators)
  /\ h = HardwareJob(c, c.experiments[i].testbench, ps, sim)

LEMMA HardwareIs ==
  ASSUME NEW c, WellFormed(c), NEW h \in AllHardware(c)
  PROVE  \E i \in DOMAIN c.experiments : \E ps, sim : IsHardware(c, h, i, ps, sim)
<1>1. PICK i \in DOMAIN c.experiments : h \in ToSet(resolve_hardware(c, c.experiments[i]))
  BY DEF AllHardware
<1>2. resolve_hardware(c, c.experiments[i]) \in Seq(HardwareJobs(c, c.experiments[i]))
  BY HardwareSeq DEF WellFormed
<1>3. h \in HardwareJobs(c, c.experiments[i])
  BY <1>1, <1>2 DEF ToSet
<1> QED
  BY <1>3 DEF HardwareJobs, IsHardware

LEMMA HardwareSame ==
  ASSUME NEW c, WellFormed(c), NEW x \in AllHardware(c), NEW y \in AllHardware(c),
         x.silo_dir = y.silo_dir
  PROVE  x = y
<1>1. PICK tb, ps, sim : x = HardwareJob(c, tb, ps, sim)
  BY HardwareIs DEF IsHardware
<1>2. PICK tb2, ps2, sim2 : y = HardwareJob(c, tb2, ps2, sim2)
  BY HardwareIs DEF IsHardware
<1>3. hw_dir(c.build_dir, tb, ps, sim) = hw_dir(c.build_dir, tb2, ps2, sim2)
  BY <1>1, <1>2 DEF HardwareJob
<1>4. tb = tb2 /\ ps = ps2 /\ sim = sim2
  BY <1>3, HardwareDir DEF WellFormed
<1> QED
  BY <1>1, <1>2, <1>4

LEMMA HardwareMakes ==
  ASSUME NEW c, WellFormed(c), NamedApart(c), NEW h \in AllHardware(c)
  PROVE  /\ Range(h.artifact_paths) # {}
         /\ \A p \in Range(h.artifact_paths) :
              IsSeq(h.silo_dir) /\ InKind(p, c.build_dir, "hw") /\ \E f : p = Append(h.silo_dir, f)
<1> PICK i \in DOMAIN c.experiments : \E ps, sim : IsHardware(c, h, i, ps, sim)
  BY HardwareIs
<1>1. PICK ps, sim : /\ sim \in Range(c.experiments[i].simulators)
                     /\ h = HardwareJob(c, c.experiments[i].testbench, ps, sim)
  BY DEF IsHardware
<1> PICK outs : outs = c.simulators[sim].outputs
  OBVIOUS
<1>2. h.artifact_paths = artifact_paths(outs, h.silo_dir)
  BY <1>1 DEF HardwareJob
<1>3. ToSet(outs) # {}
  <2>1. sim \in ToSet(c.experiments[i].simulators)
    BY <1>1 DEF Range, ToSet
  <2> QED
    BY <2>1 DEF NamedApart
<1>4. Range(h.artifact_paths) # {}
  <2>1. PICK a : a \in ToSet(outs)
    BY <1>3
  <2>2. a.name \in DOMAIN h.artifact_paths
    BY <1>2, <2>1 DEF artifact_paths
  <2> QED
    BY <2>2 DEF Range
<1>5. ASSUME NEW p \in Range(h.artifact_paths)
      PROVE  \E f : p = Append(h.silo_dir, f)
  BY <1>2 DEF artifact_paths, Range
<1>6. PICK n : Below(h.silo_dir, c.build_dir, "hw", n)
  BY HardwareBelow
<1>7. ASSUME NEW f
      PROVE  IsSeq(h.silo_dir) /\ InKind(Append(h.silo_dir, f), c.build_dir, "hw")
  BY <1>6, FileBelow, BelowKind DEF WellFormed
<1> QED
  BY <1>4, <1>5, <1>7

LEMMA ActionsNamed ==
  ASSUME NEW c, NamedApart(c), NEW n \in DOMAIN c.suites, NEW i \in DOMAIN Acts(c, n)
  PROVE  /\ ToSet(Acts(c, n)[i].outputs) # {}
         /\ \A l \in DOMAIN Acts(c, n) : l # i =>
              \A a \in ToSet(Acts(c, n)[i].outputs), b \in ToSet(Acts(c, n)[l].outputs) :
                a.name # b.name /\ a.filename # b.filename
BY DEF NamedApart, Acts

LEMMA ArtifactIs ==
  ASSUME NEW files, NEW dir, NEW a \in ToSet(files)
  PROVE  \E b \in ToSet(files) :
           b.name = a.name /\ artifact_paths(files, dir)[a.name] = Append(dir, b.filename)
<1> PICK b : b = CHOOSE x \in ToSet(files) : x.name = a.name
  OBVIOUS
<1>1. b \in ToSet(files) /\ b.name = a.name
  OBVIOUS
<1>2. artifact_paths(files, dir)[a.name] = Append(dir, b.filename)
  BY DEF artifact_paths
<1> QED
  BY <1>1, <1>2

(* What the actions of a program make.                                     *)
LEMMA ActionMakes ==
  ASSUME NEW c, WellFormed(c), NamedApart(c), NEW j \in AllSoftware(c), NEW i \in DOMAIN j.actions
  PROVE  /\ j.suite_name \in DOMAIN c.suites /\ i \in DOMAIN Acts(c, j.suite_name)
         /\ j.actions[i].outputs # {}
         /\ \A p \in j.actions[i].outputs : \E b \in ToSet(Acts(c, j.suite_name)[i].outputs) :
              p = Append(j.silo_dir, b.filename)
<1> PICK n \in DOMAIN c.suites : n = j.suite_name
  BY SoftwareIs
<1>1. PICK k \in DOMAIN Programs[n] : IsProgram(c, j, n, Programs[n][k])
  BY SoftwareIs
<1> PICK all, acts : all = ToSet(ActionFiles(c, n)) /\ acts = Acts(c, n)
  OBVIOUS
<1>2. /\ j.artifacts = artifact_paths(ActionFiles(c, n), j.silo_dir)
      /\ i \in DOMAIN acts
      /\ j.actions[i].outputs = {j.artifacts[a.name] : a \in ToSet(acts[i].outputs)}
  <2>1. j = SoftwareJob(c, n, Programs[n][k])
    BY <1>1 DEF IsProgram
  <2>2. ActionsAre(c, n, j, Acts(c, n))
    BY <2>1, ProgramActions
  <2> QED
    BY <2>2 DEF ActionsAre
<1>3. all = UNION {ToSet(acts[l].outputs) : l \in DOMAIN acts}
  BY ActionFilesAre
<1>4. /\ ToSet(acts[i].outputs) # {}
      /\ \A l \in DOMAIN acts : l # i =>
           \A a \in ToSet(acts[i].outputs), b \in ToSet(acts[l].outputs) : a.name # b.name
  BY <1>2, ActionsNamed
<1>5. j.actions[i].outputs # {}
  <2> PICK X : X = ToSet(acts[i].outputs)
    OBVIOUS
  <2>1. PICK a : a \in X
    BY <1>4
  <2>2. j.artifacts[a.name] \in j.actions[i].outputs
    BY <1>2, <2>1
  <2> QED
    BY <2>2
<1>6. ASSUME NEW p \in j.actions[i].outputs
      PROVE  \E b \in ToSet(acts[i].outputs) : p = Append(j.silo_dir, b.filename)
  <2>1. PICK a \in ToSet(acts[i].outputs) : p = j.artifacts[a.name]
    BY <1>2
  <2>2. a \in all
    BY <1>2, <1>3
  <2> PICK files, dir : files = ActionFiles(c, n) /\ dir = j.silo_dir
    OBVIOUS
  <2> PICK name : name = a.name
    OBVIOUS
  <2>3. \E b \in ToSet(files) :
          b.name = name /\ artifact_paths(files, dir)[name] = Append(dir, b.filename)
    <3>1. a \in ToSet(files)
      BY <2>2
    <3>2. \E b \in ToSet(files) :
            b.name = a.name /\ artifact_paths(files, dir)[a.name] = Append(dir, b.filename)
      BY ONLY <3>1, ArtifactIs
    <3> QED
      BY <3>2
  <2> PICK b \in ToSet(files) :
        b.name = name /\ artifact_paths(files, dir)[name] = Append(dir, b.filename)
    BY <2>3
  <2>4. p = Append(j.silo_dir, b.filename)
    BY <1>2, <2>1
  <2>5. PICK l \in DOMAIN acts : b \in ToSet(acts[l].outputs)
    BY <1>3
  <2>6. l = i
    BY <1>4, <2>1, <2>5
  <2> QED
    BY <2>4, <2>5, <2>6
<1> QED
  BY <1>2, <1>5, <1>6

LEMMA ProgramMakes ==
  ASSUME NEW c, WellFormed(c), NamedApart(c), NEW j \in AllSoftware(c), NEW a \in ToSet(j.actions)
  PROVE  /\ a.outputs # {}
         /\ \A p \in a.outputs :
              IsSeq(j.silo_dir) /\ InKind(p, c.build_dir, "sw") /\ \E f : p = Append(j.silo_dir, f)
<1>1. PICK i \in DOMAIN j.actions : a = j.actions[i]
  BY DEF ToSet
<1>2. a.outputs # {} /\ \A p \in a.outputs : \E f : p = Append(j.silo_dir, f)
  BY <1>1, ActionMakes
<1>3. Below(j.silo_dir, c.build_dir, "sw", j.suite_name)
  BY SoftwareIs, SoftwareBelow
<1>4. ASSUME NEW f
      PROVE  IsSeq(j.silo_dir) /\ InKind(Append(j.silo_dir, f), c.build_dir, "sw")
  BY <1>3, FileBelow, BelowKind DEF WellFormed
<1> QED
  BY <1>2, <1>4

(* Two actions of a program make different files.                          *)
LEMMA ActionsApart ==
  ASSUME NEW c, WellFormed(c), NamedApart(c), NEW j \in AllSoftware(c),
         NEW i \in DOMAIN j.actions, NEW k \in DOMAIN j.actions, i # k
  PROVE  j.actions[i].outputs \cap j.actions[k].outputs = {}
<1> PICK acts : acts = Acts(c, j.suite_name)
  OBVIOUS
<1> SUFFICES ASSUME NEW p \in j.actions[i].outputs \cap j.actions[k].outputs PROVE FALSE
  OBVIOUS
<1>1. i \in DOMAIN acts /\ k \in DOMAIN acts /\ j.suite_name \in DOMAIN c.suites
  BY ActionMakes
<1>2. PICK a \in ToSet(acts[i].outputs) : p = Append(j.silo_dir, a.filename)
  BY ActionMakes
<1>3. PICK b \in ToSet(acts[k].outputs) : p = Append(j.silo_dir, b.filename)
  BY ActionMakes
<1>4. IsSeq(j.silo_dir)
  BY SoftwareIs, SoftwareBelow DEF Below
<1>5. a.filename = b.filename
  BY <1>2, <1>3, <1>4, AppendSame
<1>6. a.filename # b.filename
  BY <1>1, <1>2, <1>3, ActionsNamed
<1> QED
  BY <1>5, <1>6

(* Each simulation makes its log.                                          *)
LEMMA LogIn ==
  ASSUME NEW c, WellFormed(c), NEW x \in ToSet(AllSimulations(c)), NEW f
  PROVE  IsSeq(x.silo_dir) /\ InKind(Append(x.silo_dir, f), c.build_dir, "sim")
<1>1. Below(x.silo_dir, c.build_dir, "sim", x.experiment)
  BY SimulationBelow
<1> QED
  BY <1>1, FileBelow, BelowKind DEF WellFormed

LEMMA LogsApart ==
  ASSUME NEW c, WellFormed(c), NamedApart(c),
         NEW i \in DOMAIN AllSimulations(c), NEW k \in DOMAIN AllSimulations(c), i # k
  PROVE  sim_log(AllSimulations(c)[i]) # sim_log(AllSimulations(c)[k])
<1> PICK sims : sims = AllSimulations(c)
  OBVIOUS
<1>1. sims[i] \in ToSet(sims) /\ sims[k] \in ToSet(sims)
  BY DEF ToSet
<1>2. IsSeq(sims[i].silo_dir) /\ IsSeq(sims[k].silo_dir)
  BY <1>1, LogIn
<1>3. sims[i].silo_dir # sims[k].silo_dir
  BY AllSimulationsDiffer DEF DirsDiffer
<1> QED
  BY <1>2, <1>3, AppendSame DEF sim_log

-----------------------------------------------------------------------------
(* What ninja takes and is told.                                           *)

(* The kinds of edges.                                                     *)
IsTaskEdge(c, e)     == \E i \in DOMAIN c.tasks : e = TaskEdge(c.tasks[i])
IsHardwareEdge(c, e) == \E h \in AllHardware(c) : e = HardwareEdge(c, h)
IsSoftwareEdge(c, e) == \E j \in AllSoftware(c) : \E i \in DOMAIN j.actions :
                          e = SoftwareEdge(j.actions[i])
IsSimulationEdge(c, e) == \E i \in DOMAIN AllSimulations(c) :
                            e = SimulationEdge(AllSimulations(c)[i])

LEMMA EdgeKinds ==
  ASSUME NEW c, NEW e \in EdgeSet(c)
  PROVE  \/ IsTaskEdge(c, e) \/ IsHardwareEdge(c, e)
         \/ IsSoftwareEdge(c, e) \/ IsSimulationEdge(c, e)
BY DEF EdgeSet, EdgesOf, ToSet, IsTaskEdge, IsHardwareEdge, IsSoftwareEdge, IsSimulationEdge

(* A file a task makes is in no directory of a kind of jobs.               *)
InNone(p, root) == \A kind \in {"hw", "sw", "sim"} : ~InKind(p, root, kind)

LEMMA EdgesMake ==
  ASSUME NEW c, WellFormed(c), NamedApart(c), NEW e
  PROVE  /\ IsTaskEdge(c, e) => e.outs # {} /\ \A p \in e.outs : InNone(p, c.build_dir)
         /\ IsHardwareEdge(c, e) => e.outs # {} /\ \A p \in e.outs : InKind(p, c.build_dir, "hw")
         /\ IsSoftwareEdge(c, e) => e.outs # {} /\ \A p \in e.outs : InKind(p, c.build_dir, "sw")
         /\ IsSimulationEdge(c, e) => e.outs # {} /\ \A p \in e.outs : InKind(p, c.build_dir, "sim")
<1>1. ASSUME NEW i \in DOMAIN c.tasks, e = TaskEdge(c.tasks[i])
      PROVE  e.outs # {} /\ \A p \in e.outs : InNone(p, c.build_dir)
  <2> PICK t \in ToSet(c.tasks) : t = c.tasks[i]
    BY DEF ToSet
  <2>1. e.outs = t.outputs
    BY <1>1 DEF TaskEdge
  <2>2. t.outputs # {} /\ TasksApart(c)
    BY DEF NamedApart
  <2> QED
    BY <2>1, <2>2 DEF TasksApart, InNone, InKind
<1>2. ASSUME NEW h \in AllHardware(c), e = HardwareEdge(c, h)
      PROVE  e.outs # {} /\ \A p \in e.outs : InKind(p, c.build_dir, "hw")
  <2>1. e.outs = Range(h.artifact_paths)
    BY <1>2 DEF HardwareEdge
  <2> QED
    BY <2>1, HardwareMakes
<1>3. ASSUME NEW j \in AllSoftware(c), NEW i \in DOMAIN j.actions, e = SoftwareEdge(j.actions[i])
      PROVE  e.outs # {} /\ \A p \in e.outs : InKind(p, c.build_dir, "sw")
  <2> PICK a \in ToSet(j.actions) : a = j.actions[i]
    BY DEF ToSet
  <2>1. e.outs = a.outputs
    BY <1>3 DEF SoftwareEdge
  <2> QED
    BY <2>1, ProgramMakes
<1>4. ASSUME NEW i \in DOMAIN AllSimulations(c), e = SimulationEdge(AllSimulations(c)[i])
      PROVE  e.outs # {} /\ \A p \in e.outs : InKind(p, c.build_dir, "sim")
  <2> PICK x \in ToSet(AllSimulations(c)) : x = AllSimulations(c)[i]
    BY DEF ToSet
  <2>1. e.outs = {Append(x.silo_dir, "sim.log")}
    BY <1>4 DEF SimulationEdge, sim_log
  <2> QED
    BY <2>1, LogIn
<1> QED
  BY <1>1, <1>2, <1>3, <1>4
     DEF IsTaskEdge, IsHardwareEdge, IsSoftwareEdge, IsSimulationEdge

(* Files of two kinds.                                                     *)
LEMMA KindsApart ==
  ASSUME NEW p, NEW root
  PROVE  /\ \A k, l : InKind(p, root, k) /\ InKind(p, root, l) => k = l
         /\ \A k : ~(InKind(p, root, k) /\ InNone(p, root))
BY DEF InKind, InNone

(* Edges that make a file both are the same.                               *)
LEMMA EdgesOfOneFile ==
  ASSUME NEW c, WellFormed(c), NamedApart(c), NEW e \in EdgeSet(c), NEW f \in EdgeSet(c),
         NEW p \in e.outs \cap f.outs
  PROVE  e = f
<1>1. CASE IsTaskEdge(c, e) /\ IsTaskEdge(c, f)
  <2>1. PICK i \in DOMAIN c.tasks : e = TaskEdge(c.tasks[i])
    BY <1>1 DEF IsTaskEdge
  <2>2. PICK k \in DOMAIN c.tasks : f = TaskEdge(c.tasks[k])
    BY <1>1 DEF IsTaskEdge
  <2>3. p \in c.tasks[i].outputs /\ p \in c.tasks[k].outputs
    BY <2>1, <2>2 DEF TaskEdge
  <2>4. i = k
    BY <2>3 DEF NamedApart
  <2> QED
    BY <2>1, <2>2, <2>4
<1>2. CASE IsHardwareEdge(c, e) /\ IsHardwareEdge(c, f)
  <2>1. PICK h \in AllHardware(c) : e = HardwareEdge(c, h)
    BY <1>2 DEF IsHardwareEdge
  <2>2. PICK g \in AllHardware(c) : f = HardwareEdge(c, g)
    BY <1>2 DEF IsHardwareEdge
  <2>3. p \in Range(h.artifact_paths) /\ p \in Range(g.artifact_paths)
    BY <2>1, <2>2 DEF HardwareEdge
  <2>4. h.silo_dir = g.silo_dir
    <3>1. PICK x : p = Append(h.silo_dir, x)
      BY <2>3, HardwareMakes
    <3>2. PICK y : p = Append(g.silo_dir, y)
      BY <2>3, HardwareMakes
    <3>3. IsSeq(h.silo_dir) /\ IsSeq(g.silo_dir)
      BY <2>3, HardwareMakes
    <3> QED
      BY <3>1, <3>2, <3>3, AppendSame
  <2> QED
    BY <2>1, <2>2, <2>4, HardwareSame
<1>3. CASE IsSoftwareEdge(c, e) /\ IsSoftwareEdge(c, f)
  <2>1. PICK j \in AllSoftware(c) : \E i \in DOMAIN j.actions : e = SoftwareEdge(j.actions[i])
    BY <1>3 DEF IsSoftwareEdge
  <2>2. PICK i \in DOMAIN j.actions : e = SoftwareEdge(j.actions[i])
    BY <2>1
  <2>3. PICK g \in AllSoftware(c) : \E k \in DOMAIN g.actions : f = SoftwareEdge(g.actions[k])
    BY <1>3 DEF IsSoftwareEdge
  <2>4. PICK k \in DOMAIN g.actions : f = SoftwareEdge(g.actions[k])
    BY <2>3
  <2>5. p \in j.actions[i].outputs /\ p \in g.actions[k].outputs
    BY <2>2, <2>4 DEF SoftwareEdge
  <2>6. j.silo_dir = g.silo_dir
    <3>0. j.actions[i] \in ToSet(j.actions) /\ g.actions[k] \in ToSet(g.actions)
      BY DEF ToSet
    <3>1. PICK x : p = Append(j.silo_dir, x)
      BY <2>5, <3>0, ProgramMakes
    <3>2. PICK y : p = Append(g.silo_dir, y)
      BY <2>5, <3>0, ProgramMakes
    <3>3. IsSeq(j.silo_dir) /\ IsSeq(g.silo_dir)
      BY <2>5, <3>0, ProgramMakes
    <3> QED
      BY <3>1, <3>2, <3>3, AppendSame
  <2>7. j = g
    BY <2>6, SoftwareSame
  <2>8. i = k
    BY <2>5, <2>7, ActionsApart
  <2> QED
    BY <2>2, <2>4, <2>7, <2>8
<1>4. CASE IsSimulationEdge(c, e) /\ IsSimulationEdge(c, f)
  <2>1. PICK i \in DOMAIN AllSimulations(c) : e = SimulationEdge(AllSimulations(c)[i])
    BY <1>4 DEF IsSimulationEdge
  <2>2. PICK k \in DOMAIN AllSimulations(c) : f = SimulationEdge(AllSimulations(c)[k])
    BY <1>4 DEF IsSimulationEdge
  <2>3. p = sim_log(AllSimulations(c)[i]) /\ p = sim_log(AllSimulations(c)[k])
    BY <2>1, <2>2 DEF SimulationEdge
  <2>4. i = k
    BY <2>3, LogsApart
  <2> QED
    BY <2>1, <2>2, <2>4
<1>5. /\ IsTaskEdge(c, e) => InNone(p, c.build_dir)
      /\ IsHardwareEdge(c, e) => InKind(p, c.build_dir, "hw")
      /\ IsSoftwareEdge(c, e) => InKind(p, c.build_dir, "sw")
      /\ IsSimulationEdge(c, e) => InKind(p, c.build_dir, "sim")
  BY EdgesMake
<1>6. /\ IsTaskEdge(c, f) => InNone(p, c.build_dir)
      /\ IsHardwareEdge(c, f) => InKind(p, c.build_dir, "hw")
      /\ IsSoftwareEdge(c, f) => InKind(p, c.build_dir, "sw")
      /\ IsSimulationEdge(c, f) => InKind(p, c.build_dir, "sim")
  BY EdgesMake
<1>7. "hw" # "sw" /\ "hw" # "sim" /\ "sw" # "sim"
  OBVIOUS
<1> QED
  BY <1>1, <1>2, <1>3, <1>4, <1>5, <1>6, <1>7, EdgeKinds, KindsApart

LEMMA NamesAccepted ==
  ASSUME NEW c, WellFormed(c), NamedApart(c)
  PROVE  Acceptable(c)
<1>1. /\ \A i, j \in DOMAIN c.tasks : i # j => c.tasks[i].name # c.tasks[j].name
      /\ DOMAIN TaskRules(c) \cap (DOMAIN SimulatorRules(c) \cup DOMAIN ToolRules(c)) = {}
      /\ \A n \in DOMAIN c.suites : \A i, j \in DOMAIN Programs[n] :
           i # j => Programs[n][i].rel_path # Programs[n][j].rel_path
  BY DEF NamedApart
<1>2. \A job \in AllSoftware(c) : \A i, j \in DOMAIN job.actions :
        i # j => job.actions[i].outputs \cap job.actions[j].outputs = {}
  BY ActionsApart
<1>3. \A i, j \in DOMAIN AllSimulations(c) :
        i # j => sim_log(AllSimulations(c)[i]) # sim_log(AllSimulations(c)[j])
  BY LogsApart
<1>4. \A e, f \in EdgeSet(c) : e # f => e.outs \cap f.outs = {}
  BY EdgesOfOneFile
<1>5. \A e \in EdgeSet(c) : e.outs # {}
  BY EdgeKinds, EdgesMake
<1> QED
  BY <1>1, <1>2, <1>3, <1>4, <1>5 DEF Acceptable, Accepts

(* If names that make a directory are given once, and whatever makes       *)
(* something says what, ninja takes every build.ninja (ninja.rs:7),        *)
(* whatever the test benches, parameter sets, simulators, suites and       *)
(* experiments: the directories tell apart what the jobs make.             *)
THEOREM NinjaTakesIt ==
  (\A s \in Sound : NamedApart(Config[s])) => (Spec => []NinjaAccepts)
<1> SUFFICES ASSUME \A s \in Sound : NamedApart(Config[s]) PROVE Spec => []NinjaAccepts
  OBVIOUS
<1>1. TypeOK => NinjaAccepts
  <2> SUFFICES ASSUME build_ninja \in Sound PROVE Generated[build_ninja].accepted
    BY DEF TypeOK, NinjaAccepts
  <2>1. Acceptable(Config[build_ninja])
    BY NamesAccepted, SoundWellFormed
  <2> QED
    BY <2>1, GeneratedIs
<1> QED
  BY <1>1, TypeCorrect, PTL

-----------------------------------------------------------------------------
(* What commands open.                                                     *)

(* run.sh is told, of files, only what the simulation depends on.          *)
LEMMA ArgsAreDependencies ==
  ASSUME NEW c, WellFormed(c), NEW x \in ToSet(AllSimulations(c))
  PROVE  Range(x.run_sh.args) \subseteq x.dependencies
<1>1. ASSUME NEW exp, NEW hw, NEW dir, NEW artifacts, NEW plusargs,
             x = SimJob(c, exp, hw, dir, artifacts, plusargs)
      PROVE  Range(x.run_sh.args) \subseteq x.dependencies
  <2>1. x.dependencies = {artifacts[n] : n \in DOMAIN artifacts}
    BY <1>1 DEF SimJob
  <2>2. x.run_sh.args = Restrict(artifacts, run_template(c, hw).uses \cap DOMAIN artifacts)
    BY <1>1 DEF SimJob, RunScript
  <2> QED
    BY <2>1, <2>2 DEF Restrict, Range
<1>2. x \in SimsOfAll(c)
  BY AllSimulationsSeq DEF ToSet
<1>3. PICK i \in DOMAIN c.experiments : x \in SimsOf(c, c.experiments[i])
  BY <1>2 DEF SimsOfAll
<1> PICK exp : exp = c.experiments[i]
  OBVIOUS
<1>4. CASE \E hw : x = StandaloneSim(c, exp, hw)
  BY <1>1, <1>4 DEF StandaloneSim
<1>5. CASE \E hw, sw : x = SoftwareSim(c, exp, hw, sw)
  BY <1>1, <1>5 DEF SoftwareSim
<1> QED
  BY <1>3, <1>4, <1>5 DEF SimsOf

(* No command makes a run.sh.                                              *)
LEMMA ScriptNotMade ==
  ASSUME NEW c, WellFormed(c), NamedApart(c), NEW x \in ToSet(AllSimulations(c)),
         NEW e \in EdgeSet(c)
  PROVE  run_sh(x.silo_dir) \notin e.outs
<1> SUFFICES ASSUME run_sh(x.silo_dir) \in e.outs PROVE FALSE
  OBVIOUS
<1> PICK p : p = run_sh(x.silo_dir)
  OBVIOUS
<1>1. IsSeq(x.silo_dir) /\ InKind(p, c.build_dir, "sim")
  BY LogIn DEF run_sh
<1>2. IsSimulationEdge(c, e)
  <2>1. "hw" # "sim" /\ "sw" # "sim"
    OBVIOUS
  <2> QED
    BY <1>1, <2>1, EdgeKinds, EdgesMake, KindsApart
<1>3. PICK i \in DOMAIN AllSimulations(c) : e = SimulationEdge(AllSimulations(c)[i])
  BY <1>2 DEF IsSimulationEdge
<1> PICK y \in ToSet(AllSimulations(c)) : y = AllSimulations(c)[i]
  BY DEF ToSet
<1>4. p = Append(y.silo_dir, "sim.log") /\ IsSeq(y.silo_dir)
  BY <1>3, LogIn DEF SimulationEdge, sim_log
<1>5. "run.sh" = "sim.log"
  BY <1>1, <1>4, AppendSame DEF run_sh
<1> QED
  BY <1>5

(* Of what its command opens and another makes, ninja is told.             *)
LEMMA OpensAreInputs ==
  ASSUME NEW s \in Sound, NamedApart(Config[s]), OpensTold(s), NEW e \in EdgeSet(Config[s])
  PROVE  e.opens \cap UNION EdgesIn(s) \subseteq e.ins \cup e.outs
<1> PICK c : c = Config[s]
  OBVIOUS
<1> PICK made : made = UNION EdgesIn(s)
  OBVIOUS
<1>1. WellFormed(c)
  BY SoundWellFormed
<1>2. CASE IsTaskEdge(c, e)
  BY <1>2 DEF IsTaskEdge, TaskEdge
<1>3. CASE IsHardwareEdge(c, e)
  <2>1. PICK h \in AllHardware(c) : e = HardwareEdge(c, h)
    BY <1>3 DEF IsHardwareEdge
  <2>2. FileLists[c.testbenches[h.testbench].filelist].nested \cap made = {}
    BY DEF OpensTold
  <2>3. PICK tb, ps, sim : h = HardwareJob(c, tb, ps, sim)
    BY <1>1, HardwareIs DEF IsHardware
  <2> PICK common, lists : /\ common = hw_common_dir(c.build_dir, h.testbench, h.param_set)
                           /\ lists = FileLists[c.testbenches[h.testbench].filelist]
    OBVIOUS
  <2>4. h.rtl_inputs = {params_svh(common), resolved_f(common)} \cup lists.plain
    BY <2>3 DEF HardwareJob, rtl_inputs
  <2>5. /\ e.ins = {top_f(h.silo_dir)} \cup h.rtl_inputs \cup h.external_deps
        /\ e.opens = {top_f(h.silo_dir), params_svh(common), resolved_f(common)}
                     \cup lists.plain \cup lists.nested \cup h.external_deps
    BY <2>1 DEF HardwareEdge
  <2> QED
    BY <2>2, <2>4, <2>5
<1>4. CASE IsSoftwareEdge(c, e)
  <2>1. PICK j \in AllSoftware(c) : \E i \in DOMAIN j.actions : e = SoftwareEdge(j.actions[i])
    BY <1>4 DEF IsSoftwareEdge
  <2>2. PICK a \in ToSet(j.actions) : e = SoftwareEdge(a)
    BY <2>1 DEF ToSet
  <2>3. Range(a.variables) \cap made \subseteq a.inputs \cup a.outputs
    BY DEF OpensTold
  <2>4. /\ e.ins = a.inputs /\ e.outs = a.outputs
        /\ e.opens = (a.inputs \cup Range(a.variables)) \ a.outputs
    BY <2>2 DEF SoftwareEdge
  <2> QED
    BY <2>3, <2>4
<1>5. CASE IsSimulationEdge(c, e)
  <2>1. PICK i \in DOMAIN AllSimulations(c) : e = SimulationEdge(AllSimulations(c)[i])
    BY <1>5 DEF IsSimulationEdge
  <2> PICK x \in ToSet(AllSimulations(c)) : x = AllSimulations(c)[i]
    BY DEF ToSet
  <2>2. /\ e.ins = x.dependencies
        /\ e.opens = {run_sh(x.silo_dir)} \cup Range(x.run_sh.args)
    BY <2>1 DEF SimulationEdge
  <2>3. Range(x.run_sh.args) \subseteq x.dependencies
    BY <1>1, ArgsAreDependencies
  <2>4. run_sh(x.silo_dir) \notin made
    <3>1. \A f \in EdgeSet(c) : run_sh(x.silo_dir) \notin f.outs
      BY <1>1, ScriptNotMade
    <3> QED
      BY <3>1, EdgesAre
  <2> QED
    BY <2>2, <2>3, <2>4
<1> QED
  BY <1>2, <1>3, <1>4, <1>5, EdgeKinds

(* If no file list names what a command makes behind "-f", and the         *)
(* variables of an action name, of such files, only its inputs and         *)
(* outputs, then whatever names are given, each build.ninja tells ninja    *)
(* enough: of what a command opens, what another makes comes first         *)
(* (hw.rs:90, sw.rs:92, sim.rs:44).  So no two commands that run at once   *)
(* touch each other's files.                                               *)
THEOREM OrderIsTold ==
  (\A s \in Sound : NamedApart(Config[s]) /\ OpensTold(s))
  => (Spec => [](TellsOrder /\ NoReadWhileWritten))
<1> SUFFICES ASSUME \A s \in Sound : NamedApart(Config[s]) /\ OpensTold(s)
             PROVE  Spec => [](TellsOrder /\ NoReadWhileWritten)
  OBVIOUS
<1>1. ASSUME NEW s \in Sound
      PROVE  OrderTold[s]
  <2> SUFFICES ASSUME Generated[s].accepted, NEW o \in EdgesIn(s), NEW q \in EdgesIn(s), o # q
               PROVE  /\ o \cap q = {}
                      /\ o \cap Generated[s].edges[q].opens # {} => o \in UpstreamOf[s][q]
    BY DEF OrderTold, EdgesIn
  <2>1. PICK e \in EdgeSet(Config[s]) : e.outs = o
    BY EdgesAre
  <2>2. PICK f \in EdgeSet(Config[s]) : f.outs = q
    BY EdgesAre
  <2>3. o \cap q = {}
    BY <2>1, <2>2, GeneratedIs DEF Acceptable, Accepts
  <2>4. EdgeIn(s, q).ins = f.ins /\ EdgeIn(s, q).opens = f.opens
    BY <2>2, EdgeInIs
  <2>5. f.opens \cap UNION EdgesIn(s) \subseteq f.ins \cup f.outs
    BY OpensAreInputs
  <2>6. ASSUME o \cap EdgeIn(s, q).opens # {} PROVE o \in UpstreamOf[s][q]
    <3>1. o \cap EdgeIn(s, q).ins # {}
      BY <2>2, <2>3, <2>4, <2>5, <2>6
    <3> QED
      BY <3>1, UpstreamIs
  <2> QED
    BY <2>3, <2>6 DEF EdgeIn
<1>2. TellsOrder
  BY <1>1 DEF TellsOrder
<1> QED
  BY <1>2, CommandsKeepApart, PTL
=============================================================================
