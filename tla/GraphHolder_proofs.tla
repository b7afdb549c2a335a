-------------------------- MODULE GraphHolder_proofs --------------------------
(* No edit is forgotten on its way to the graph, unless it was reported late or a
   data error left two runs at work: proofs about GraphHolder for any number of
   files, edits and runs.                                                     *)
EXTENDS GraphHolder, TLAPS

Calm == upsets \cap {"late", "data"} = {}

\* One run at most is under way, and the holder knows.
SingleRun ==
  \A r, s \in Runs : Active(r) => rebuilding /\ (Active(s) => r = s)

\* What a run has read is up to date, or the newer version is announced: by the
\* watcher, or, for a path the run has not captured and will not drop, by the holder.
ReadsAreFresh ==
  \A r \in Runs : Active(r) =>
    \A f \in run[r].read :
      \/ run[r].seen[f] = disk[f]
      \/ f \in events
      \/ f \in tracked \ run[r].files

\* A run reads its files and no others, unless it is a full one; a full run that
\* has written has read everything, and the graph is what it saw.
RunsInStage ==
  \A r \in Runs :
    /\ At(r, "checking") => run[r].read = {}
    /\ At(r, "incremental") => run[r].read \subseteq run[r].files
    /\ At(r, "written") => run[r].read = Files /\ \A f \in Files : graph[f] = run[r].seen[f]

Core == EditsSurvive /\ SingleRun /\ ReadsAreFresh /\ RunsInStage

IInv == TypeOK /\ (Calm => Core)

-----------------------------------------------------------------------------
(* Type correctness.                                                         *)

LEMMA NoRunIsRecord == NoRun \in RunRecord
<1>1. [f \in Files |-> 0] \in [Files -> Versions]
  BY BoundsAssumption DEF Versions
<1>2. QED
  BY <1>1 DEF NoRun, RunRecord, Stages

LEMMA CapturedFields ==
  ASSUME NEW T, NEW n, NEW stage
  PROVE  Captured(stage, T, n) =
           [stage |-> stage, files |-> T, changes |-> n, read |-> {},
            seen |-> [f \in Files |-> 0]]
<1> DEFINE none == [f \in Files |-> 0]
<1>1. Captured(stage, T, n) =
        [[stage |-> "none", files |-> {}, changes |-> 0, read |-> {}, seen |-> none]
           EXCEPT !.stage = stage, !.files = T, !.changes = n]
  BY Zenon DEF Captured, NoRun
<1> HIDE DEF none
<1>2. Captured(stage, T, n) =
        [stage |-> stage, files |-> T, changes |-> n, read |-> {}, seen |-> none]
  BY <1>1
<1>3. QED
  BY <1>2 DEF none

LEMMA CapturedIsRecord ==
  ASSUME NEW T \in SUBSET Files, NEW n \in Nat, NEW stage \in Stages
  PROVE  Captured(stage, T, n) \in RunRecord
<1>1. [f \in Files |-> 0] \in [Files -> Versions]
  BY BoundsAssumption DEF Versions
<1>2. [stage |-> stage, files |-> T, changes |-> n, read |-> {},
       seen |-> [f \in Files |-> 0]] \in RunRecord
  BY <1>1 DEF RunRecord
<1>3. QED
  BY <1>2, CapturedFields

LEMMA KindIsStage ==
  ASSUME NEW T, NEW c
  PROVE  Kind(T, c) \in {"checking", "incremental", "full"}
BY DEF Kind

\* What triggerRebuild() does to the holder is well typed.
LEMMA TriggerTyped ==
  ASSUME NEW runs \in [Runs -> RunRecord], NEW busy \in BOOLEAN, NEW n \in Nat,
         NEW T \in SUBSET Files, NEW c \in 0..FullEvery, pending \in BOOLEAN,
         Trigger(runs, busy, n, T, c)
  PROVE  /\ run' \in [Runs -> RunRecord] /\ changes' \in Nat /\ cycles' \in 0..FullEvery
         /\ rebuilding' \in BOOLEAN /\ pending' \in BOOLEAN
<1>1. Captured(Kind(T, c), T, n) \in RunRecord
  BY KindIsStage, CapturedIsRecord DEF Stages
<1>2. cycles' \in 0..FullEvery
  BY CadenceAssumption DEF Trigger, Started
<1>3. changes' \in Nat
  BY DEF Trigger, Started
<1>4. rebuilding' \in BOOLEAN
  BY Zenon DEF Trigger, Started
<1>5. pending' \in BOOLEAN
  BY Zenon DEF Trigger, Started
<1>6. run' \in [Runs -> RunRecord]
  BY <1>1 DEF Trigger, Started
<1>7. QED
  BY <1>2, <1>3, <1>4, <1>5, <1>6

LEMMA FinallyTyped ==
  ASSUME NEW runs \in [Runs -> RunRecord], NEW n \in Nat, NEW T \in SUBSET Files,
         NEW c \in 0..FullEvery, pending \in BOOLEAN, Finally(runs, n, T, c)
  PROVE  /\ run' \in [Runs -> RunRecord] /\ changes' \in Nat /\ cycles' \in 0..FullEvery
         /\ rebuilding' \in BOOLEAN /\ pending' \in BOOLEAN
<1>1. CASE pending
  <2>1. Trigger(runs, FALSE, n, T, c)
    BY <1>1 DEF Finally
  <2>2. QED
    BY <2>1, TriggerTyped
<1>2. CASE ~pending
  BY <1>2 DEF Finally
<1>3. QED
  BY <1>1, <1>2

LEMMA InitTyped == Init => TypeOK
<1> SUFFICES ASSUME Init PROVE TypeOK
  OBVIOUS
<1>1. disk \in [Files -> Versions] /\ graph \in [Files -> Versions]
  BY BoundsAssumption DEF Init, Versions
<1>2. run \in [Runs -> RunRecord]
  BY NoRunIsRecord DEF Init
<1>3. changes \in Nat /\ cycles \in 0..FullEvery
  BY CadenceAssumption DEF Init
<1>4. QED
  BY <1>1, <1>2, <1>3 DEF Init, TypeOK

LEMMA EndedTyped ==
  ASSUME TypeOK, NEW r \in Runs
  PROVE  Ended(r) \in [Runs -> RunRecord]
BY NoRunIsRecord DEF Ended, TypeOK

LEMMA BuiltTyped ==
  ASSUME TypeOK, NEW r \in Runs, NEW F
  PROVE  Built(F, run[r].seen) \in [Files -> Versions]
<1>1. run[r].seen \in [Files -> Versions] /\ graph \in [Files -> Versions]
  BY DEF TypeOK, RunRecord
<1>2. QED
  BY <1>1 DEF Built

LEMMA SucceedTyped ==
  ASSUME TypeOK, NEW r \in Runs, NEW c \in 0..FullEvery, Succeed(r, c),
         graph' \in [Files -> Versions]
  PROVE  TypeOK'
<1>1. run[r].changes \in Nat /\ changes \in Nat
  BY DEF TypeOK, RunRecord
<1>2. Less(changes, run[r].changes) \in Nat
  BY <1>1 DEF Less
<1>3. Processed(r) \in SUBSET Files
  BY DEF TypeOK, Processed
<1>4. Finally(Ended(r), Less(changes, run[r].changes), Processed(r), c)
  BY DEF Succeed
<1>5. /\ run' \in [Runs -> RunRecord] /\ changes' \in Nat /\ cycles' \in 0..FullEvery
      /\ rebuilding' \in BOOLEAN /\ pending' \in BOOLEAN
  BY <1>2, <1>3, <1>4, EndedTyped, FinallyTyped DEF TypeOK
<1>6. QED
  BY <1>3, <1>5 DEF Succeed, TypeOK

LEMMA RunStepTyped ==
  ASSUME TypeOK, NEW r \in Runs, RunStep(r)
  PROVE  TypeOK'
<1>1. CASE CheckEnds(r)
  <2>1. \E stage \in Stages : run' = [run EXCEPT ![r].stage = stage]
    BY <1>1 DEF CheckEnds, Stages
  <2>2. run' \in [Runs -> RunRecord]
    BY <2>1 DEF TypeOK, RunRecord
  <2>3. cycles' \in 0..FullEvery
    BY <1>1, CadenceAssumption DEF CheckEnds, TypeOK
  <2>4. QED
    BY <1>1, <2>2, <2>3 DEF CheckEnds, TypeOK, drain
<1>2. ASSUME NEW f \in Files, Read(r, f) PROVE TypeOK'
  <2>1. run[r] \in RunRecord /\ disk[f] \in Versions
    BY DEF TypeOK
  <2>2. [run[r] EXCEPT !.read = @ \cup {f}, !.seen[f] = disk[f]] \in RunRecord
    BY <2>1 DEF RunRecord
  <2>3. run' = [run EXCEPT ![r] = [run[r] EXCEPT !.read = @ \cup {f}, !.seen[f] = disk[f]]]
    BY <1>2 DEF Read, TypeOK
  <2>4. run' \in [Runs -> RunRecord]
    BY <2>2, <2>3 DEF TypeOK
  <2>5. QED
    BY <1>2, <2>4 DEF Read, TypeOK, drain
<1>3. CASE IncrementalDone(r)
  <2> DEFINE c == IF cycles < FullEvery THEN cycles + 1 ELSE cycles
  <2>1. c \in 0..FullEvery
    BY CadenceAssumption DEF TypeOK
  <2>2. Succeed(r, c) /\ graph' \in [Files -> Versions]
    BY <1>3, BuiltTyped DEF IncrementalDone
  <2>3. QED
    BY <2>1, <2>2, SucceedTyped
<1>4. CASE FullWrite(r)
  <2>1. graph' \in [Files -> Versions]
    BY <1>4, BuiltTyped DEF FullWrite
  <2>2. QED
    BY <1>4, <2>1 DEF FullWrite, TypeOK, RunRecord, Stages, drain
<1>5. CASE FullDone(r)
  <2>1. Succeed(r, cycles) /\ graph' \in [Files -> Versions] /\ cycles \in 0..FullEvery
    BY <1>5 DEF FullDone, TypeOK
  <2>2. QED
    BY <2>1, SucceedTyped
<1>6. CASE InfraFails(r)
  <2>1. Finally(Ended(r), changes, tracked, cycles)
    BY <1>6 DEF InfraFails
  <2>2. /\ run' \in [Runs -> RunRecord] /\ changes' \in Nat /\ cycles' \in 0..FullEvery
        /\ rebuilding' \in BOOLEAN /\ pending' \in BOOLEAN
    BY <2>1, EndedTyped, FinallyTyped DEF TypeOK
  <2>3. QED
    BY <1>6, <2>2 DEF InfraFails, InfraRetry, Happens, TypeOK, drain
<1>7. CASE DataFails(r)
  <2> DEFINE runs == [run EXCEPT ![r] = Captured("full", run[r].files, run[r].changes)]
  <2>1. run[r].files \in SUBSET Files /\ run[r].changes \in Nat
    BY DEF TypeOK, RunRecord
  <2>2. runs \in [Runs -> RunRecord]
    BY <2>1, CapturedIsRecord DEF TypeOK, Stages
  <2>3. Finally(runs, changes, tracked, cycles)
    BY <1>7 DEF DataFails
  <2>4. /\ run' \in [Runs -> RunRecord] /\ changes' \in Nat /\ cycles' \in 0..FullEvery
        /\ rebuilding' \in BOOLEAN /\ pending' \in BOOLEAN
    <3> HIDE DEF runs
    <3> QED BY <2>2, <2>3, FinallyTyped DEF TypeOK
  <2>5. QED
    BY <1>7, <2>4 DEF DataFails, Happens, TypeOK, drain
<1>8. CASE FullFails(r)
  <2>1. Finally(Ended(r), changes, tracked, cycles)
    BY <1>8 DEF FullFails
  <2>2. /\ run' \in [Runs -> RunRecord] /\ changes' \in Nat /\ cycles' \in 0..FullEvery
        /\ rebuilding' \in BOOLEAN /\ pending' \in BOOLEAN
    BY <2>1, EndedTyped, FinallyTyped DEF TypeOK
  <2>3. graph' \in [Files -> Versions]
    BY <1>8, BuiltTyped DEF FullFails
  <2>4. QED
    BY <1>8, <2>2, <2>3 DEF FullFails, Happens, TypeOK, drain
<1>9. QED
  BY <1>1, <1>2, <1>3, <1>4, <1>5, <1>6, <1>7, <1>8 DEF RunStep

LEMMA StepTyped == TypeOK /\ [Next]_vars => TypeOK'
<1> SUFFICES ASSUME TypeOK, [Next]_vars PROVE TypeOK'
  OBVIOUS
<1>1. ASSUME NEW f \in Files, Edit(f) PROVE TypeOK'
  BY <1>1, BoundsAssumption DEF Edit, TypeOK, Versions, holder, drain
<1>2. CASE Notify
  BY <1>2 DEF Notify, Happens, TypeOK
<1>3. CASE IdleFires \/ RetryFires
  <2>1. Trigger(run, rebuilding, changes, tracked, cycles)
    BY <1>3 DEF IdleFires, RetryFires
  <2>2. /\ run' \in [Runs -> RunRecord] /\ changes' \in Nat /\ cycles' \in 0..FullEvery
        /\ rebuilding' \in BOOLEAN /\ pending' \in BOOLEAN
    BY <2>1, TriggerTyped DEF TypeOK
  <2>3. QED
    BY <1>3, <2>2 DEF IdleFires, RetryFires, TypeOK, drain
<1>4. ASSUME NEW r \in Runs, RunStep(r) PROVE TypeOK'
  BY <1>4, RunStepTyped
<1>5. CASE SwapDrain \/ DriftDone
  BY <1>5 DEF SwapDrain, DriftDone, Drain, TypeOK, holder
<1>6. CASE UNCHANGED vars
  BY <1>6 DEF vars, holder, drain, TypeOK
<1>7. QED
  BY <1>1, <1>2, <1>3, <1>4, <1>5, <1>6 DEF Next

\* The holder's state keeps its types, for any number of files, edits and runs.
THEOREM TypeCorrect == Spec => []TypeOK
<1>1. QED
  BY InitTyped, StepTyped, PTL DEF Spec

-----------------------------------------------------------------------------
(* No edit is forgotten.                                                     *)

LEMMA InitInv == Init => IInv
<1> SUFFICES ASSUME Init PROVE IInv
  OBVIOUS
<1>1. \A f \in Files : graph[f] = disk[f]
  BY DEF Init
<1>2. \A r \in Runs : ~Active(r)
  BY DEF Init, Active, At, NoRun
<1>3. Core
  BY <1>1, <1>2 DEF Core, EditsSurvive, SingleRun, ReadsAreFresh, RunsInStage, Active, At
<1>4. QED
  BY <1>3, InitTyped DEF IInv

\* triggerRebuild() leaves the runs alone, or starts one when the holder is not busy.
LEMMA TriggerRuns ==
  ASSUME NEW runs, NEW busy \in BOOLEAN, NEW n, NEW T, NEW c, Trigger(runs, busy, n, T, c)
  PROVE  \/ run' = runs /\ rebuilding' = busy
         \/ /\ ~busy /\ rebuilding'
            /\ \E r \in Runs : run' = [runs EXCEPT ![r] = Captured(Kind(T, c), T, n)]
<1>1. CASE Nothing(n, T, busy)
  BY <1>1, Zenon DEF Trigger, Started
<1>2. CASE ~Nothing(n, T, busy) /\ busy
  BY <1>2, Zenon DEF Trigger, Started
<1>3. CASE ~Nothing(n, T, busy) /\ ~busy
  BY <1>3, Zenon DEF Trigger, Started
<1>4. QED
  BY <1>1, <1>2, <1>3

\* A run that has just started has read nothing.
FreshRuns ==
  \A r \in Runs : Active(r) =>
    /\ run[r].read = {} /\ run[r].stage \in {"checking", "incremental", "full"}
    /\ rebuilding /\ \A s \in Runs : Active(s) => r = s

LEMMA StartedIsFresh ==
  ASSUME NEW runs \in [Runs -> RunRecord], \A s \in Runs : runs[s].stage = "none",
         NEW r \in Runs, NEW T, NEW c, NEW n,
         run' = [runs EXCEPT ![r] = Captured(Kind(T, c), T, n)], rebuilding'
  PROVE  FreshRuns'
<1>1. run'[r] = Captured(Kind(T, c), T, n)
  OBVIOUS
<1>2. run'[r].read = {} /\ run'[r].stage \in {"checking", "incremental", "full"}
  BY <1>1, CapturedFields, KindIsStage
<1>3. \A s \in Runs : s # r => run'[s].stage = "none"
  OBVIOUS
<1>4. QED
  BY <1>2, <1>3 DEF FreshRuns, Active, At

\* After the only run has ended there is none, or one that has just started.
LEMMA FinallyIsFresh ==
  ASSUME NEW runs \in [Runs -> RunRecord], \A s \in Runs : runs[s].stage = "none",
         NEW n, NEW T, NEW c, Finally(runs, n, T, c)
  PROVE  FreshRuns'
<1>1. CASE run' = runs
  BY <1>1 DEF FreshRuns, Active, At
<1>2. CASE run' # runs
  <2>1. Trigger(runs, FALSE, n, T, c)
    BY <1>2 DEF Finally
  <2>2. rebuilding' /\ \E r \in Runs : run' = [runs EXCEPT ![r] = Captured(Kind(T, c), T, n)]
    BY <1>2, <2>1, TriggerRuns
  <2>3. QED
    BY <2>2, StartedIsFresh
<1>3. QED
  BY <1>1, <1>2

LEMMA FreshIsEnough ==
  FreshRuns' => SingleRun' /\ ReadsAreFresh' /\ RunsInStage'
BY DEF FreshRuns, SingleRun, ReadsAreFresh, RunsInStage, Active, At

LEMMA EndedIsIdle ==
  ASSUME TypeOK, SingleRun, NEW r \in Runs, Active(r)
  PROVE  \A s \in Runs : Ended(r)[s].stage = "none"
<1> TAKE s \in Runs
<1>1. CASE s = r
  BY <1>1 DEF Ended, TypeOK, NoRun
<1>2. CASE s # r
  BY <1>2 DEF Ended, TypeOK, SingleRun, Active, At
<1>3. QED
  BY <1>1, <1>2

\* The timers: the run they may start is the only one.
LEMMA TriggerKeepsCore ==
  ASSUME TypeOK, Core, Trigger(run, rebuilding, changes, tracked, cycles),
         UNCHANGED <<disk, graph, events, tracked>>
  PROVE  Core'
<1>1. EditsSurvive'
  BY DEF Core, EditsSurvive
<1>2. CASE run' = run /\ rebuilding' = rebuilding
  BY <1>1, <1>2 DEF Core, SingleRun, ReadsAreFresh, RunsInStage, Active, At
<1>3. CASE /\ ~rebuilding /\ rebuilding'
           /\ \E r \in Runs :
                run' = [run EXCEPT ![r] = Captured(Kind(tracked, cycles), tracked, changes)]
  <2>1. \A s \in Runs : run[s].stage = "none"
    BY <1>3 DEF Core, SingleRun, Active, At
  <2>2. run \in [Runs -> RunRecord]
    BY DEF TypeOK
  <2>3. FreshRuns'
    BY <1>3, <2>1, <2>2, StartedIsFresh
  <2>4. QED
    BY <1>1, <2>3, FreshIsEnough DEF Core
<1>4. rebuilding \in BOOLEAN
  BY DEF TypeOK
<1>5. \/ run' = run /\ rebuilding' = rebuilding
      \/ /\ ~rebuilding /\ rebuilding'
         /\ \E r \in Runs :
              run' = [run EXCEPT ![r] = Captured(Kind(tracked, cycles), tracked, changes)]
  BY <1>4, TriggerRuns
<1>6. QED
  BY <1>2, <1>3, <1>5, Zenon

\* A run that ends takes along the paths it captured, all of them up to date.
LEMMA SucceedKeepsCore ==
  ASSUME TypeOK, Core, NEW r \in Runs, Active(r), NEW c, Succeed(r, c),
         \A f \in Files : graph'[f] = disk[f] \/ f \in events
                          \/ f \in tracked \ run[r].files
  PROVE  Core'
<1>1. EditsSurvive'
  BY DEF Succeed, Processed, EditsSurvive
<1>2. Ended(r) \in [Runs -> RunRecord]
  BY EndedTyped
<1>3. \A s \in Runs : Ended(r)[s].stage = "none"
  BY EndedIsIdle DEF Core
<1>4. Finally(Ended(r), Less(changes, run[r].changes), Processed(r), c)
  BY DEF Succeed
<1>5. FreshRuns'
  BY <1>2, <1>3, <1>4, FinallyIsFresh
<1>6. QED
  BY <1>1, <1>5, FreshIsEnough DEF Core

\* A run that fails for good leaves the paths where they are.
LEMMA FailureKeepsCore ==
  ASSUME TypeOK, Core, NEW r \in Runs, Active(r),
         Finally(Ended(r), changes, tracked, cycles), UNCHANGED <<disk, events, tracked>>,
         \A f \in Files : graph'[f] = disk[f] \/ f \in events \cup tracked
  PROVE  Core'
<1>1. EditsSurvive'
  BY DEF EditsSurvive
<1>2. Ended(r) \in [Runs -> RunRecord]
  BY EndedTyped
<1>3. \A s \in Runs : Ended(r)[s].stage = "none"
  BY EndedIsIdle DEF Core
<1>4. FreshRuns'
  BY <1>2, <1>3, FinallyIsFresh
<1>5. QED
  BY <1>1, <1>4, FreshIsEnough DEF Core

LEMMA RunStepKeepsCore ==
  ASSUME TypeOK, Core, NEW r \in Runs, RunStep(r), Calm'
  PROVE  Core'
<1> USE DEF Core
<1>1. CASE CheckEnds(r)
  <2>1. PICK stage \in {"incremental", "full"} : run' = [run EXCEPT ![r].stage = stage]
    BY <1>1 DEF CheckEnds
  <2>2. run'[r].read = {} /\ run'[r].stage = stage /\ Active(r)
    BY <1>1, <2>1 DEF CheckEnds, TypeOK, RunRecord, RunsInStage, Active, At
  <2>3. \A s \in Runs : s # r => run'[s] = run[s]
    BY <2>1 DEF TypeOK
  <2>4. FreshRuns'
    BY <1>1, <2>2, <2>3 DEF CheckEnds, FreshRuns, SingleRun, Active, At
  <2>5. EditsSurvive'
    BY <1>1 DEF CheckEnds, EditsSurvive
  <2>6. QED
    BY <2>4, <2>5, FreshIsEnough
<1>2. ASSUME NEW g \in Files, Read(r, g) PROVE Core'
  <2>1. /\ run'[r].stage = run[r].stage /\ run'[r].files = run[r].files
        /\ run'[r].read = run[r].read \cup {g}
        /\ \A f \in Files : run'[r].seen[f] = IF f = g THEN disk[g] ELSE run[r].seen[f]
    BY <1>2 DEF Read, TypeOK, RunRecord
  <2>2. \A s \in Runs : s # r => run'[s] = run[s]
    BY <1>2 DEF Read, TypeOK
  <2>3. EditsSurvive'
    BY <1>2 DEF Read, EditsSurvive
  <2>4. SingleRun'
    BY <1>2, <2>1, <2>2 DEF Read, SingleRun, Active, At
  <2>5. run[r].read \subseteq Files
    BY DEF TypeOK, RunRecord
  <2>6. ReadsAreFresh'
    <3>1. UNCHANGED <<disk, events, tracked>>
      BY <1>2 DEF Read
    <3>2. ASSUME NEW f \in run'[r].read
          PROVE  \/ run'[r].seen[f] = disk[f] \/ f \in events
                 \/ f \in tracked \ run'[r].files
      <4>1. Active(r)
        BY <1>2 DEF Read, Active, At
      <4>2. QED
        BY <2>1, <2>5, <3>2, <4>1 DEF ReadsAreFresh
    <3>3. ASSUME NEW s \in Runs, s # r, run'[s].stage # "none", NEW f \in run'[s].read
          PROVE  \/ run'[s].seen[f] = disk[f] \/ f \in events
                 \/ f \in tracked \ run'[s].files
      BY <2>2, <3>3 DEF ReadsAreFresh, Active, At
    <3>4. QED
      BY <3>1, <3>2, <3>3 DEF ReadsAreFresh, Active, At
  <2>7. RunsInStage'
    <3>1. run[r].stage \in {"incremental", "full"} /\ g \in Scope(r)
      BY <1>2 DEF Read
    <3>2. At(r, "incremental") => run'[r].read \subseteq run'[r].files
      BY <2>1, <3>1 DEF Scope, At, RunsInStage
    <3>3. UNCHANGED graph
      BY <1>2 DEF Read
    <3>4. ASSUME NEW s \in Runs, s # r
          PROVE  /\ run'[s].stage = "checking" => run'[s].read = {}
                 /\ run'[s].stage = "incremental" => run'[s].read \subseteq run'[s].files
                 /\ run'[s].stage = "written" =>
                      run'[s].read = Files /\ \A f \in Files : graph[f] = run'[s].seen[f]
      BY <2>2, <3>4 DEF RunsInStage, At
    <3>5. /\ run'[r].stage \notin {"checking", "written"}
          /\ run'[r].stage = "incremental" => run'[r].read \subseteq run'[r].files
      BY <2>1, <3>1, <3>2 DEF At
    <3>6. QED
      BY <3>3, <3>4, <3>5 DEF RunsInStage, At
  <2>8. QED
    BY <2>3, <2>4, <2>6, <2>7
<1>3. CASE IncrementalDone(r)
  <2> DEFINE c == IF cycles < FullEvery THEN cycles + 1 ELSE cycles
  <2>1. Active(r) /\ Succeed(r, c)
    BY <1>3 DEF IncrementalDone, Active, At
  <2>2. ASSUME NEW f \in Files
        PROVE  graph'[f] = disk[f] \/ f \in events \/ f \in tracked \ run[r].files
    <3>1. CASE f \in run[r].files
      BY <1>3, <2>1, <3>1 DEF IncrementalDone, Built, ReadsAreFresh
    <3>2. CASE f \notin run[r].files
      BY <1>3, <3>2 DEF IncrementalDone, Built, EditsSurvive
    <3>3. QED
      BY <3>1, <3>2
  <2> HIDE DEF c
  <2>3. QED
    BY <2>1, <2>2, SucceedKeepsCore
<1>4. CASE FullWrite(r)
  <2>1. Active(r) /\ run[r].read = Files
    BY <1>4 DEF FullWrite, Active, At
  <2>2. \A f \in Files : graph'[f] = run[r].seen[f]
    BY <1>4 DEF FullWrite, Built
  <2>3. run' = [run EXCEPT ![r].stage = "written"] /\ UNCHANGED <<disk, events, tracked, rebuilding>>
    BY <1>4 DEF FullWrite
  <2>4. /\ run'[r].stage = "written" /\ run'[r].files = run[r].files
        /\ run'[r].read = run[r].read /\ run'[r].seen = run[r].seen
        /\ \A s \in Runs : s # r => run'[s] = run[s] /\ run[s].stage = "none"
    BY <2>1, <2>3 DEF TypeOK, RunRecord, SingleRun, Active, At
  <2>5. EditsSurvive'
    BY <2>1, <2>2, <2>3 DEF EditsSurvive, ReadsAreFresh
  <2>6. SingleRun'
    BY <2>1, <2>3, <2>4 DEF SingleRun, Active, At
  <2>7. ReadsAreFresh'
    BY <2>1, <2>3, <2>4 DEF ReadsAreFresh, Active, At
  <2>8. RunsInStage'
    BY <2>1, <2>2, <2>4 DEF RunsInStage, At
  <2>9. QED
    BY <2>5, <2>6, <2>7, <2>8
<1>5. CASE FullDone(r)
  <2>1. Active(r) /\ Succeed(r, cycles) /\ UNCHANGED graph
    BY <1>5 DEF FullDone, Active, At
  <2>2. \A f \in Files : graph[f] = run[r].seen[f] /\ f \in run[r].read
    BY <1>5 DEF FullDone, RunsInStage
  <2>3. \A f \in Files : graph'[f] = disk[f] \/ f \in events \/ f \in tracked \ run[r].files
    BY <2>1, <2>2 DEF ReadsAreFresh
  <2>4. QED
    BY <2>1, <2>3, SucceedKeepsCore
<1>6. CASE InfraFails(r)
  <2>1. Active(r) /\ Finally(Ended(r), changes, tracked, cycles)
    BY <1>6 DEF InfraFails, Active, At
  <2>2. UNCHANGED <<disk, graph, events, tracked>>
    BY <1>6 DEF InfraFails
  <2>3. \A f \in Files : graph'[f] = disk[f] \/ f \in events \cup tracked
    BY <2>2 DEF EditsSurvive
  <2>4. QED
    BY <2>1, <2>2, <2>3, FailureKeepsCore
<1>7. CASE DataFails(r)
  BY <1>7 DEF DataFails, Happens, Calm
<1>8. CASE FullFails(r)
  <2>1. Active(r) /\ Finally(Ended(r), changes, tracked, cycles)
    BY <1>8 DEF FullFails, Active, At
  <2>2. UNCHANGED <<disk, events, tracked>>
    BY <1>8 DEF FullFails
  <2>3. PICK F \in SUBSET run[r].read : graph' = Built(F, run[r].seen)
    BY <1>8 DEF FullFails
  <2>4. \A f \in Files : graph'[f] = disk[f] \/ f \in events \cup tracked
    BY <2>1, <2>3 DEF Built, EditsSurvive, ReadsAreFresh
  <2>5. QED
    BY <2>1, <2>2, <2>4, FailureKeepsCore
<1>9. QED
  BY <1>1, <1>2, <1>3, <1>4, <1>5, <1>6, <1>7, <1>8 DEF RunStep

\* The watcher hands over: what a run has missed is tracked, unless it is late.
LEMMA NotifyKeepsCore ==
  ASSUME TypeOK, Core, Notify, Calm'
  PROVE  Core'
<1>1. \A f \in events : ~Late(f)
  BY DEF Notify, Happens, Calm
<1>2. tracked' = tracked \cup events /\ events' = {} /\ UNCHANGED <<disk, graph, run, rebuilding>>
  BY DEF Notify
<1>3. EditsSurvive'
  BY <1>2 DEF Core, EditsSurvive
<1>4. ReadsAreFresh'
  BY <1>1, <1>2 DEF Core, ReadsAreFresh, Late, Active, At
<1>5. SingleRun' /\ RunsInStage'
  BY <1>2 DEF Core, SingleRun, RunsInStage, Active, At
<1>6. QED
  BY <1>3, <1>4, <1>5 DEF Core

LEMMA StepInv == IInv /\ [Next]_vars => IInv'
<1> SUFFICES ASSUME TypeOK, [Next]_vars, Calm => Core, Calm' PROVE Core'
  BY StepTyped DEF IInv
<1>1. upsets \subseteq upsets'
  BY DEF Next, Edit, Notify, IdleFires, RetryFires, RunStep, CheckEnds, Read, IncrementalDone,
         FullWrite, FullDone, Succeed, InfraFails, DataFails, FullFails, SwapDrain, DriftDone,
         Happens, vars, holder, drain
<1>2. Core
  BY <1>1 DEF Calm
<1>3. ASSUME NEW f \in Files, Edit(f) PROVE Core'
  <2>1. disk' = [disk EXCEPT ![f] = @ + 1] /\ events' = events \cup {f}
        /\ UNCHANGED <<graph, tracked, run, rebuilding>>
    BY <1>3 DEF Edit, holder
  <2>2. \A g \in Files : g # f => disk'[g] = disk[g]
    BY <2>1 DEF TypeOK
  <2>3. \A r \in Runs : run[r].read \subseteq Files
    BY DEF TypeOK, RunRecord
  <2>4. QED
    BY <1>2, <2>1, <2>2, <2>3
    DEF Core, EditsSurvive, SingleRun, ReadsAreFresh, RunsInStage, Active, At
<1>4. CASE Notify
  BY <1>2, <1>4, NotifyKeepsCore
<1>5. CASE IdleFires \/ RetryFires
  BY <1>2, <1>5, TriggerKeepsCore DEF IdleFires, RetryFires
<1>6. ASSUME NEW r \in Runs, RunStep(r) PROVE Core'
  BY <1>2, <1>6, RunStepKeepsCore
<1>7. CASE SwapDrain \/ DriftDone \/ UNCHANGED vars
  <2>1. UNCHANGED <<disk, graph, events, tracked, run, rebuilding>>
    BY <1>7 DEF SwapDrain, DriftDone, vars, holder
  <2>2. QED
    BY <1>2, <2>1 DEF Core, EditsSurvive, SingleRun, ReadsAreFresh, RunsInStage, Active, At
<1>8. QED
  BY <1>3, <1>4, <1>5, <1>6, <1>7 DEF Next

\* The path of an edit stays with the watcher or with the holder until the graph
\* has the edit, unless a change was reported late or a data error left two runs.
THEOREM EditsKept == Spec => []NoEditForgotten
<1>1. IInv => NoEditForgotten
  BY DEF IInv, Calm, Core, NoEditForgotten
<1>2. QED
  BY <1>1, InitInv, StepInv, PTL DEF Spec

\* Until a data error: one reindex at a time, and isRebuilding says so.
THEOREM OneRunWhileCalm == Spec => []OneRebuildWhileCalm
<1>1. IInv => OneRebuildWhileCalm
  BY DEF IInv, Calm, Core, SingleRun, OneRebuild, OneRebuildWhileCalm
<1>2. QED
  BY <1>1, InitInv, StepInv, PTL DEF Spec

=============================================================================
