----------------------------- MODULE GraphHolder -----------------------------
(* How an edit reaches the code graph of a running proxy: the file watcher, the
   GraphHolder that batches changed paths and decides between an incremental and
   a full reindex, the reindex runs, and the drift drain that waits for them.

   A run spends its time in awaits: it reads the files one by one, writes, and
   its promise settles; the watcher, the timers and other runs go on meanwhile.
   The handlers of a promise (then, catch, finally) run in one turn and are one
   action.  What a file holds is a version number; its absence is a version like
   any other.  The graph keeps, per file, the version it was last built from. *)
EXTENDS Naturals, FiniteSets

CONSTANTS Files,
          MaxVersion,      \* bound: edits of one file
          MaxRuns,         \* bound: reindex runs under way at once
          FileLimit,       \* incrementalFileLimit
          CheckEvery,      \* invariantCheckEveryNCycles
          FullEvery,       \* fullReindexEveryNCycles
          Upsets,          \* which of UpsetKinds may happen, each at most once
          MaxUpsets        \* bound: how many of them in one behaviour

Runs == 1..MaxRuns
Versions == 0..MaxVersion

(* infra: a run ends in a timeout or a locked database; data: an incremental run
   ends in any other error; full: a full run fails; late: a path is reported to
   the holder while a run that captured it has already read an older version.  *)
UpsetKinds == {"infra", "data", "full", "late"}

ASSUME FilesAssumption == IsFiniteSet(Files)
ASSUME BoundsAssumption ==
  MaxVersion \in Nat /\ MaxRuns \in Nat \ {0} /\ FileLimit \in Nat
ASSUME CadenceAssumption == CheckEvery \in Nat \ {0} /\ FullEvery \in Nat \ {0}
ASSUME UpsetsAssumption == Upsets \subseteq UpsetKinds /\ MaxUpsets \in Nat

VARIABLES
  disk,        \* file -> its version
  graph,       \* file -> the version the graph was built from
  events,      \* changes the watcher has not handed over yet
  tracked,     \* changedFilePaths
  changes,     \* fileChangesSinceLastRebuild
  idle,        \* idleTimer is armed
  retry,       \* infraRetryTimer is armed
  rebuilding,  \* GraphHolder.rebuilding
  pending,     \* GraphHolder.rebuildPending
  cycles,      \* incrementalCycleCount (capped at FullEvery)
  run,         \* slot -> a reindex under way
  swapped,     \* the drain that a swap schedules with setImmediate is due
  drift,       \* pendingDriftPaths
  batch,       \* the paths processFiles() is at; driftBusy when there are any
  upsets       \* the upsets so far

holder == <<tracked, changes, idle, retry, rebuilding, pending, cycles, run>>
drain == <<swapped, drift, batch>>
vars == <<disk, graph, events, holder, drain, upsets>>

Stages == {"none", "checking", "incremental", "full", "written"}

RunRecord ==
  [stage   : Stages,
   files   : SUBSET Files,             \* changedFiles
   changes : Nat,                      \* changesAtStart
   read    : SUBSET Files,             \* the files read so far
   seen    : [Files -> Versions]]      \* ... and the versions found

NoRun == [stage |-> "none", files |-> {}, changes |-> 0, read |-> {},
          seen |-> [f \in Files |-> 0]]

TypeOK ==
  /\ disk \in [Files -> Versions] /\ graph \in [Files -> Versions]
  /\ events \subseteq Files /\ tracked \subseteq Files
  /\ changes \in Nat /\ cycles \in 0..FullEvery
  /\ idle \in BOOLEAN /\ retry \in BOOLEAN
  /\ rebuilding \in BOOLEAN /\ pending \in BOOLEAN
  /\ run \in [Runs -> RunRecord]
  /\ swapped \in BOOLEAN /\ drift \subseteq Files /\ batch \subseteq Files
  /\ upsets \subseteq Upsets

At(r, stage) == run[r].stage = stage
Active(r) == ~At(r, "none")

Less(a, b) == IF a > b THEN a - b ELSE 0

Happens(kind) ==
  /\ kind \in Upsets \ upsets /\ Cardinality(upsets) < MaxUpsets
  /\ upsets' = upsets \cup {kind}

\* The graph was built when the proxy started.
Init ==
  /\ disk = [f \in Files |-> 0] /\ graph = disk
  /\ events = {} /\ tracked = {} /\ changes = 0 /\ cycles = 0
  /\ idle = FALSE /\ retry = FALSE /\ rebuilding = FALSE /\ pending = FALSE
  /\ run = [r \in Runs |-> NoRun]
  /\ swapped = FALSE /\ drift = {} /\ batch = {}
  /\ upsets = {}

-----------------------------------------------------------------------------
(* Edits and the watcher.                                                    *)

Edit(f) ==
  /\ disk[f] < MaxVersion /\ disk' = [disk EXCEPT ![f] = @ + 1]
  /\ events' = events \cup {f}
  /\ UNCHANGED <<graph, holder, drain, upsets>>

\* Some run captured the path and has read a version that is out of date.
Late(f) == \E r \in Runs : f \in run[r].files \cap run[r].read /\ run[r].seen[f] # disk[f]

\* The debounced batch arrives: notifyFileChange re-arms the idle timer; the
\* drift drain it calls next finds pendingChanges > 0 and returns.
Notify ==
  /\ events # {} /\ events' = {}
  /\ tracked' = tracked \cup events /\ changes' = changes + 1 /\ idle' = TRUE
  /\ drift' = drift \cup events
  /\ IF \E f \in events : Late(f) THEN Happens("late") ELSE UNCHANGED upsets
  /\ UNCHANGED <<disk, graph, retry, rebuilding, pending, cycles, run, swapped, batch>>

-----------------------------------------------------------------------------
(* triggerRebuild(), with the state its caller has left.                     *)

Captured(stage, T, n) == [NoRun EXCEPT !.stage = stage, !.files = T, !.changes = n]

\* Which kind of run, and the cycle count it starts with.
Periodic(T, c) == Cardinality(T) <= FileLimit /\ c >= FullEvery
Kind(T, c) ==
  IF Cardinality(T) > FileLimit \/ c >= FullEvery THEN "full"
  ELSE IF c > 0 /\ c % CheckEvery = 0 THEN "checking" ELSE "incremental"

\* Nothing to index; an empty set with a counter left over is reconciled.
Nothing(n, T, busy) == n = 0 \/ (~busy /\ T = {})

\* A run begins in a free slot.
Started(runs, n, T, c) ==
  /\ \E r \in Runs :
       /\ runs[r].stage = "none" /\ \A s \in 1..(r - 1) : runs[s].stage # "none"
       /\ run' = [runs EXCEPT ![r] = Captured(Kind(T, c), T, n)]
  /\ cycles' = IF Periodic(T, c) THEN 0 ELSE c
  /\ changes' = n /\ rebuilding' = TRUE /\ pending' = FALSE

\* Mutant of Trigger: without its early returns.
TriggerAnyway(runs, busy, n, T, c) == Started(runs, n, T, c)

Trigger(runs, busy, n, T, c) ==
  \/ /\ Nothing(n, T, busy)
     /\ changes' = 0 /\ run' = runs /\ cycles' = c
     /\ rebuilding' = busy /\ pending' = (busy /\ pending)
  \/ /\ ~Nothing(n, T, busy) /\ busy
     /\ changes' = n /\ run' = runs /\ cycles' = c /\ rebuilding' = TRUE /\ pending' = TRUE
  \/ ~Nothing(n, T, busy) /\ ~busy /\ Started(runs, n, T, c)

IdleFires ==
  /\ idle /\ idle' = FALSE /\ Trigger(run, rebuilding, changes, tracked, cycles)
  /\ UNCHANGED <<disk, graph, events, tracked, retry, drain, upsets>>

RetryFires ==
  /\ retry /\ retry' = FALSE /\ Trigger(run, rebuilding, changes, tracked, cycles)
  /\ UNCHANGED <<disk, graph, events, tracked, idle, drain, upsets>>

\* The finally handler of a run.
Finally(runs, n, T, c) ==
  IF pending THEN Trigger(runs, FALSE, n, T, c)
  ELSE /\ run' = runs /\ changes' = n /\ cycles' = c
       /\ rebuilding' = FALSE /\ pending' = FALSE

-----------------------------------------------------------------------------
(* The runs.                                                                 *)

\* verifyGraphInvariants and the sweep: the graph is sound, healed or cannot be
\* checked, or it is beyond repair.
CheckEnds(r) ==
  /\ At(r, "checking")
  /\ \/ run' = [run EXCEPT ![r].stage = "incremental"] /\ UNCHANGED cycles
     \/ run' = [run EXCEPT ![r].stage = "full"] /\ cycles' = 0
  /\ UNCHANGED <<disk, graph, events, tracked, changes, idle, retry, rebuilding, pending,
                 drain, upsets>>

Scope(r) == IF At(r, "full") THEN Files ELSE run[r].files

Read(r, f) ==
  /\ run[r].stage \in {"incremental", "full"} /\ f \in Scope(r) \ run[r].read
  /\ run' = [run EXCEPT ![r].read = @ \cup {f}, ![r].seen[f] = disk[f]]
  /\ UNCHANGED <<disk, graph, events, tracked, changes, idle, retry, rebuilding, pending,
                 cycles, drain, upsets>>

Built(F, seen) == [f \in Files |-> IF f \in F THEN seen[f] ELSE graph[f]]
Ended(r) == [run EXCEPT ![r] = NoRun]

\* Mutant of Processed: every tracked path counts as indexed.
ProcessedAll(r) == {}

\* The paths left after a run: it drops those it captured, whenever they changed.
Processed(r) == tracked \ run[r].files

\* Swap callbacks, bookkeeping and finally of a run that has succeeded.
Succeed(r, c) ==
  /\ tracked' = Processed(r)
  /\ Finally(Ended(r), Less(changes, run[r].changes), Processed(r), c)
  /\ swapped' = TRUE
  /\ UNCHANGED <<disk, events, idle, retry, drift, batch, upsets>>

\* The transaction of an incremental run commits.
IncrementalDone(r) ==
  /\ At(r, "incremental") /\ run[r].read = run[r].files
  /\ graph' = Built(run[r].files, run[r].seen)
  /\ Succeed(r, IF cycles < FullEvery THEN cycles + 1 ELSE cycles)

\* A full run upserts what it has read and removes the rest; derived layers follow.
FullWrite(r) ==
  /\ At(r, "full") /\ run[r].read = Files
  /\ graph' = Built(Files, run[r].seen)
  /\ run' = [run EXCEPT ![r].stage = "written"]
  /\ UNCHANGED <<disk, events, tracked, changes, idle, retry, rebuilding, pending, cycles,
                 drain, upsets>>

FullDone(r) == At(r, "written") /\ UNCHANGED graph /\ Succeed(r, cycles)

\* Mutant of InfraRetry: the failed run is not retried.
NoInfraRetry == UNCHANGED retry

InfraRetry == retry' = TRUE

\* The transaction rolls back; the paths are still tracked and tried again later.
InfraFails(r) ==
  /\ At(r, "incremental") /\ Happens("infra")
  /\ InfraRetry
  /\ Finally(Ended(r), changes, tracked, cycles)
  /\ UNCHANGED <<disk, graph, events, tracked, idle, drain>>

\* Any other error: runFullRebuild() is started, and the finally handler of the
\* incremental run does not wait for it.
DataFails(r) ==
  /\ At(r, "incremental") /\ Happens("data")
  /\ Finally([run EXCEPT ![r] = Captured("full", run[r].files, run[r].changes)], changes,
             tracked, cycles)
  /\ UNCHANGED <<disk, graph, events, tracked, idle, retry, drain>>

\* A full run fails, with part of its writes done.
FullFails(r) ==
  /\ run[r].stage \in {"full", "written"} /\ Happens("full")
  /\ \E F \in SUBSET run[r].read : graph' = Built(F, run[r].seen)
  /\ Finally(Ended(r), changes, tracked, cycles)
  /\ UNCHANGED <<disk, events, tracked, idle, retry, drain>>

-----------------------------------------------------------------------------
(* drainDrift(): changed paths go to the drift overlay once no reindex is under
   way or due.  (After a slow write the next drain waits for a timer first; that
   delay is left out.)                                                       *)

Gated(busy) == busy \/ rebuilding \/ changes > 0 \/ drift = {}

Drain(busy) ==
  IF Gated(busy) THEN UNCHANGED drift /\ batch' = (IF busy THEN batch ELSE {})
                 ELSE drift' = {} /\ batch' = drift

\* Mutant of SwapDrain: nobody drains after a swap.
SwapForgotten ==
  /\ swapped /\ swapped' = FALSE
  /\ UNCHANGED <<disk, graph, events, holder, drift, batch, upsets>>

SwapDrain ==
  /\ swapped /\ swapped' = FALSE /\ Drain(batch # {})
  /\ UNCHANGED <<disk, graph, events, holder, upsets>>

\* processFiles() returns or throws.
DriftDone ==
  /\ batch # {} /\ Drain(FALSE)
  /\ UNCHANGED <<disk, graph, events, holder, swapped, upsets>>

-----------------------------------------------------------------------------

RunStep(r) ==
  \/ CheckEnds(r) \/ (\E f \in Files : Read(r, f)) \/ IncrementalDone(r) \/ FullWrite(r)
  \/ FullDone(r) \/ InfraFails(r) \/ DataFails(r) \/ FullFails(r)

Next ==
  \/ \E f \in Files : Edit(f)
  \/ Notify \/ IdleFires \/ RetryFires
  \/ \E r \in Runs : RunStep(r)
  \/ SwapDrain \/ DriftDone

Spec == Init /\ [][Next]_vars

\* Timers fire, promises settle, the watcher hands over what it has.
Fairness ==
  /\ WF_vars(Notify) /\ WF_vars(IdleFires) /\ WF_vars(RetryFires)
  /\ \A r \in Runs :
       /\ WF_vars(CheckEnds(r)) /\ WF_vars(\E f \in Files : Read(r, f))
       /\ WF_vars(IncrementalDone(r)) /\ WF_vars(FullWrite(r)) /\ WF_vars(FullDone(r))
  /\ WF_vars(SwapDrain) /\ WF_vars(DriftDone)
FairSpec == Spec /\ Fairness

-----------------------------------------------------------------------------

\* An edit is on its way as long as the graph does not have it: the watcher or
\* the holder still has its path.
EditsSurvive == \A f \in Files : graph[f] # disk[f] => f \in events \cup tracked

\* The same unless a change was reported late, or a data error has left two runs
\* at work: the only two ways in which an edit is forgotten.
NoEditForgotten == upsets \cap {"late", "data"} = {} => EditsSurvive

\* Every edit gets into the graph, when no run failed for good.
GraphCatchesUp ==
  [](upsets \subseteq {"infra"}) =>
    \A f \in Files : \A v \in Versions : (disk[f] = v) ~> (graph[f] >= v)

\* ... and the drift backlog that waits for the reindex gets its turn, as long as
\* the counter and the set of changed paths agree: when triggerRebuild() has to
\* reconcile them there is no swap, and nobody drains.
DriftDrained ==
  [](upsets \subseteq {"infra"} /\ (changes > 0 => tracked # {})) =>
    \A f \in Files : (f \in drift) ~> (f \notin drift)

\* While a reindex runs the holder says so, and starts no other.
OneRebuild ==
  \A r, s \in Runs : Active(r) => rebuilding /\ (Active(s) => r = s)

\* isRebuilding is to be relied on, and no two runs write the graph together, until a
\* data error lets the fallback begin behind the finally handler of the failed run.
OneRebuildWhileCalm == upsets \cap {"late", "data"} = {} => OneRebuild

=============================================================================
