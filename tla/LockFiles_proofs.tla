-------------------------- MODULE LockFiles_proofs --------------------------
(* Theorems about the files by which processes agree which of them goes on: Discovery's
   spawn.lock and unerrd.pid, and proxy.pid, which is PidLock's.               *)
EXTENDS Discovery, PidLock, TLAPS

\* What the steps of the bridges and of unerrd need of the types.
Shape ==
  /\ bridge \in [Bridges -> BridgeRecord]
  /\ stage \in [Daemons -> DaemonStages]
  /\ lock \in LockRecord

\* The inductive invariant.
IInv == Shape /\ LockHasSpawner

-----------------------------------------------------------------------------

LEMMA NewPassType == NewPass \in BridgeRecord /\ NoLock \in LockRecord /\ NoLock.owner = None
  BY ConstantsAssumption DEF NewPass, BridgeRecord, Stations, NoLock, LockRecord

LEMMA InitHolds == Init => IInv
<1>1. SUFFICES ASSUME Init PROVE Shape /\ lock.owner = None
  BY DEF IInv, LockHasSpawner
<1>2. bridge = [b \in Bridges |-> NewPass] /\ lock = NoLock /\ stage \in [Daemons -> DaemonStages]
  BY <1>1 DEF Init, DaemonStages
<1>3. QED
  BY <1>2, NewPassType DEF Shape

\* A bridge that moves to another station keeps its record well formed.
LEMMA GotoType ==
  ASSUME Shape, NEW b \in Bridges, NEW s \in Stations, Goto(b, s)
  PROVE  bridge' \in [Bridges -> BridgeRecord]
  BY DEF Shape, Goto, BridgeRecord

LEMMA BridgeType ==
  ASSUME Shape, NEW b \in Bridges, BridgeStep(b)
  PROVE  bridge' \in [Bridges -> BridgeRecord]
<1>1. CASE \E s \in Stations : Goto(b, s)
  BY <1>1, GotoType
<1>2. CASE Probe(b)
  <2>1. Reachable => sockFile \in Daemons
    BY DEF Reachable
  <2>2. QED
    BY <1>2, <2>1, GotoType DEF Probe, Shape, BridgeRecord, Stations
<1>3. CASE RequestShutdown(b)
  BY <1>3 DEF RequestShutdown, Shape, BridgeRecord, Stations
<1>4. CASE Lost(b)
  BY <1>4, NewPassType DEF Lost, Shape
<1>5. CASE ~Probe(b) /\ ~RequestShutdown(b) /\ ~Lost(b)
  <2>1. \E s \in Stations : Goto(b, s)
    BY <1>5 DEF BridgeStep, Backoff, EnsureReply, Drained, Open, Reclaim, Unlink, WriteAndSpawn,
          SpawnFails, Supervised, Waited, Killed, Crash, Stations
  <2>2. QED BY <2>1, <1>1
<1>6. QED BY <1>2, <1>3, <1>4, <1>5

LEMMA LockType ==
  ASSUME Shape, NEW b \in Bridges, BridgeStep(b)
  PROVE  lock' \in LockRecord
<1>1. CASE Open(b)
  <2>1. [owner |-> b, full |-> FALSE, old |-> FALSE] \in LockRecord
    BY DEF LockRecord
  <2>2. QED
    BY <1>1, <2>1 DEF Open, Shape
<1>2. CASE WriteAndSpawn(b)
  BY <1>2 DEF WriteAndSpawn, Shape, LockRecord
<1>3. CASE ~Open(b) /\ ~WriteAndSpawn(b)
  BY <1>3, NewPassType DEF BridgeStep, Probe, Backoff, EnsureReply, RequestShutdown, Drained,
        Reclaim, Unlink, SpawnFails, Supervised, Waited, Lost, Killed, Crash, Shape
<1>4. QED BY <1>1, <1>2, <1>3

LEMMA ShapeStep ==
  ASSUME Shape, Next
  PROVE  Shape'
<1>1. CASE \E b \in Bridges : BridgeStep(b)
  <2>1. PICK b \in Bridges : BridgeStep(b)
    BY <1>1
  <2>2. stage' \in [Daemons -> DaemonStages]
    BY <2>1 DEF BridgeStep, Probe, Backoff, EnsureReply, RequestShutdown, Drained, Open, Reclaim,
          Unlink, WriteAndSpawn, SpawnFails, Supervised, Waited, Lost, Killed, Crash, KeepDaemons,
          Shape, DaemonStages
  <2>3. QED
    BY <2>1, <2>2, BridgeType, LockType DEF Shape
<1>2. CASE \E d \in Daemons : DaemonStep(d)
  BY <1>2 DEF DaemonStep, CheckPid, ClaimPid, CleanSocket, Listen, Shutdown, Exit, DaemonCrash,
        Move, KeepBridges, Shape, DaemonStages
<1>3. CASE Age
  BY <1>3 DEF Age, KeepDaemons, Shape, LockRecord
<1>4. CASE PidReused
  BY <1>4 DEF PidReused, Shape
<1>5. QED BY <1>1, <1>2, <1>3, <1>4 DEF Next

\* Whoever's lock is there, its owner is at it or has crashed.
LEMMA LockStep ==
  ASSUME IInv, Next
  PROVE  LockHasSpawner'
<1> USE DEF IInv, LockHasSpawner, Shape
<1>1. CASE \E b \in Bridges : BridgeStep(b)
  <2>1. PICK b \in Bridges : BridgeStep(b)
    BY <1>1
  <2>2. CASE lock'.owner = None
    BY <2>2
  <2>3. CASE lock'.owner # None /\ Open(b)
    BY <2>3 DEF Open, At, Goto, Spawning, BridgeRecord, Quiet, LockRecord
  <2>4. CASE lock'.owner # None /\ WriteAndSpawn(b)
    <3>1. lock'.owner = lock.owner /\ lock.owner \in Bridges
      BY <2>4 DEF WriteAndSpawn, LockRecord
    <3>2. QED
      BY <2>4, <3>1 DEF WriteAndSpawn, Goto, Spawning, BridgeRecord, Quiet
  <2>5. CASE lock'.owner # None /\ ~Open(b) /\ ~WriteAndSpawn(b)
    <3>1. lock' = lock /\ lock.owner \in Bridges /\ crashed \subseteq crashed'
      BY <2>1, <2>5, NewPassType DEF BridgeStep, Probe, Backoff, EnsureReply, RequestShutdown,
            Drained, Reclaim, Unlink, SpawnFails, Supervised, Waited, Lost, Killed, Crash, Quiet,
            LockRecord
    <3>2. CASE bridge[b].pc \in Spawning
      <4>1. Crash(b)
        BY <2>1, <2>5, <3>1, <3>2, NewPassType DEF BridgeStep, Probe, Backoff, EnsureReply,
              RequestShutdown, Drained, Reclaim, Unlink, SpawnFails, Supervised, Waited, Lost,
              Killed, At, Spawning
      <4>2. QED
        BY <3>1, <4>1 DEF Crash, Goto
    <3>3. CASE bridge[b].pc \notin Spawning
      <4>1. \A a \in Bridges \ {b} : bridge'[a] = bridge[a]
        BY <2>1 DEF BridgeStep, Probe, Backoff, EnsureReply, RequestShutdown, Drained, Open,
              Reclaim, Unlink, WriteAndSpawn, SpawnFails, Supervised, Waited, Lost, Killed,
              Crash, Goto
      <4>2. QED BY <3>1, <3>3, <4>1
    <3>4. QED BY <3>2, <3>3
  <2>6. QED BY <2>2, <2>3, <2>4, <2>5
<1>2. CASE \E d \in Daemons : DaemonStep(d)
  BY <1>2 DEF DaemonStep, CheckPid, ClaimPid, CleanSocket, Listen, Shutdown, Exit, DaemonCrash,
        KeepBridges
<1>3. CASE Age
  BY <1>3 DEF Age, Quiet, LockRecord
<1>4. CASE PidReused
  BY <1>4 DEF PidReused
<1>5. QED BY <1>1, <1>2, <1>3, <1>4 DEF Next

LEMMA Inductive == IInv /\ [Next]_vars => IInv'
<1>1. ASSUME IInv, Next PROVE IInv'
  BY <1>1, ShapeStep, LockStep DEF IInv
<1>2. ASSUME IInv, UNCHANGED vars PROVE IInv'
  BY <1>2 DEF IInv, Shape, LockHasSpawner, vars
<1>3. QED BY <1>1, <1>2

\* spawn.lock stands for an attempt that goes on, or whose bridge died without a
\* word (spawn-lock.ts; the signal handlers and the `finally` of cli-main.ts).
THEOREM LockIsFreed == Spec => []LockHasSpawner
<1>1. IInv => LockHasSpawner
  BY DEF IInv
<1>2. QED BY InitHolds, Inductive, <1>1, PTL DEF Spec

-----------------------------------------------------------------------------

\* A step of a bridge starts at most one more unerrd, and leaves the files alone.
LEMMA BridgeSparesDaemons ==
  ASSUME Shape, NEW b \in Bridges, BridgeStep(b)
  PROVE  /\ UNCHANGED <<pidFile, sockFile>>
         /\ \A d \in Daemons : (stage[d] = "none" /\ stage'[d] = "checking") \/ stage'[d] = stage[d]
<1>1. CASE WriteAndSpawn(b)
  BY <1>1 DEF WriteAndSpawn, Shape
<1>2. CASE ~WriteAndSpawn(b)
  <2>1. KeepDaemons
    BY <1>2 DEF BridgeStep, Probe, Backoff, EnsureReply, RequestShutdown, Drained, Open, Reclaim,
          Unlink, SpawnFails, Supervised, Waited, Lost, Killed, Crash
  <2>2. QED BY <2>1 DEF KeepDaemons
<1>3. QED BY <1>1, <1>2

LEMMA AloneStep ==
  ASSUME Shape, Next, NEW d \in Daemons, Alone(d)
  PROVE  Alone(d)' \/ stage'[d] # "serving"
<1>1. CASE \E b \in Bridges : BridgeStep(b)
  <2>1. PICK b \in Bridges : BridgeStep(b)
    BY <1>1
  <2>2. QED
    BY <2>1, BridgeSparesDaemons DEF Alone
<1>2. CASE DaemonStep(d)
  BY <1>2 DEF DaemonStep, CheckPid, ClaimPid, CleanSocket, Listen, Shutdown, Exit, DaemonCrash,
        Move, Alone, Shape
<1>3. ASSUME NEW e \in Daemons \ {d}, DaemonStep(e)
      PROVE  Alone(d)'
  <2>1. stage[e] \in {"none", "checking", "exited", "dead"}
    BY DEF Alone
  <2>2. CheckPid(e) \/ DaemonCrash(e)
    BY <1>3, <2>1 DEF DaemonStep, ClaimPid, CleanSocket, Listen, Shutdown, Exit
  <2>3. stage'[e] \in {"exited", "dead"} /\ UNCHANGED <<pidFile, sockFile>>
    BY <2>2 DEF CheckPid, DaemonCrash, Move, Alone, Alive, DaemonPidAlive, Shape
  <2>4. \A x \in Daemons \ {e} : stage'[x] = stage[x]
    BY <2>2 DEF CheckPid, DaemonCrash, Move, Shape
  <2>5. QED
    BY <2>3, <2>4 DEF Alone
<1>4. CASE Age
  BY <1>4 DEF Age, KeepDaemons, Alone
<1>5. CASE PidReused
  BY <1>5 DEF PidReused, Alone
<1>6. QED BY <1>1, <1>2, <1>3, <1>4, <1>5 DEF Next

\* An unerrd that is alone keeps unerrd.pid and unerrd.sock, and nobody comes up
\* next to it, until it stops or dies itself (acquirePidLock of daemon.ts).
THEOREM LoneUnerrdKeepsFiles == Spec => AloneStays
<1>1. ASSUME IInv, Next, NEW d \in Daemons, Alone(d)
      PROVE  Alone(d)' \/ stage'[d] # "serving"
  BY <1>1, AloneStep DEF IInv
<1>2. ASSUME UNCHANGED vars, NEW d \in Daemons, Alone(d)
      PROVE  Alone(d)'
  BY <1>2 DEF Alone, vars
<1>3. IInv /\ [Next]_vars => [\A d \in Daemons : Alone(d) => Alone(d)' \/ stage'[d] # "serving"]_vars
  BY <1>1, <1>2
<1>4. QED
  BY InitHolds, Inductive, <1>3, PTL DEF Spec, AloneStays

-----------------------------------------------------------------------------

\* The rest of TypeOK: the files, the sets and the bound, and what of the files
\* goes with the state of their owners.
FilesOK ==
  /\ pidFile \in Daemons \cup {None} /\ sockFile \in Daemons \cup {None}
  /\ told \subseteq Daemons /\ stale \subseteq {First} /\ crashed \subseteq Bridges
  /\ reused \subseteq Bridges \cup Daemons /\ upsets \in 0..MaxUpsets
  /\ lock.owner = None => lock = NoLock
  /\ sockFile # None => stage[sockFile] \in {"serving", "dead"}

LEMMA TypeParts == TypeOK <=> Shape /\ FilesOK
  BY DEF TypeOK, Shape, FilesOK

LEMMA InitFiles == Init => FilesOK
<1> SUFFICES ASSUME Init PROVE FilesOK
  OBVIOUS
<1>1. lock = NoLock /\ told = {} /\ crashed = {} /\ reused = {} /\ upsets = 0 /\ stale \subseteq {First}
  BY DEF Init
<1>2. PICK scene \in Scenes :
        /\ pidFile = IF scene = "cold" THEN None ELSE First
        /\ sockFile = IF scene = "cold" THEN None ELSE First
        /\ stage = [d \in Daemons |->
                      IF d # First \/ scene = "cold" THEN "none"
                      ELSE IF scene \in {"served", "stale"} THEN "serving" ELSE "dead"]
  BY DEF Init
<1>3. 0 \in 0..MaxUpsets
  BY ConstantsAssumption
<1> QED
  BY <1>1, <1>2, <1>3, ConstantsAssumption DEF FilesOK

\* An upset is counted within its bound.
LEMMA UpsetType ==
  ASSUME FilesOK, upsets' = upsets \/ (AtRisk /\ upsets' = upsets + 1)
  PROVE  upsets' \in 0..MaxUpsets
  BY ConstantsAssumption DEF FilesOK, AtRisk

LEMMA BridgeFiles ==
  ASSUME Shape, FilesOK, NEW b \in Bridges, BridgeStep(b)
  PROVE  FilesOK'
<1>1. UNCHANGED <<pidFile, sockFile>>
      /\ (sockFile # None => stage'[sockFile] \in {"serving", "dead"})
  BY BridgeSparesDaemons DEF FilesOK
<1>2. told' \subseteq Daemons
  <2>1. told' = told \/ (Reachable /\ told' = told \cup {sockFile})
    BY DEF BridgeStep, Probe, Backoff, EnsureReply, RequestShutdown, Drained, Open, Reclaim, Unlink,
           WriteAndSpawn, SpawnFails, Supervised, Waited, Lost, Killed, Crash
  <2> QED
    BY <2>1 DEF FilesOK, Reachable
<1>3. UNCHANGED <<stale, reused>>
  BY DEF BridgeStep, Probe, Backoff, EnsureReply, RequestShutdown, Drained, Open, Reclaim, Unlink,
         WriteAndSpawn, SpawnFails, Supervised, Waited, Lost, Killed, Crash, KeepDaemons
<1>4. crashed' \subseteq Bridges
  <2>1. crashed' = crashed \/ crashed' = crashed \cup {b}
    BY DEF BridgeStep, Probe, Backoff, EnsureReply, RequestShutdown, Drained, Open, Reclaim, Unlink,
           WriteAndSpawn, SpawnFails, Supervised, Waited, Lost, Killed, Crash, Quiet
  <2> QED
    BY <2>1 DEF FilesOK
<1>5. upsets' \in 0..MaxUpsets
  <2>1. upsets' = upsets \/ (AtRisk /\ upsets' = upsets + 1)
    BY DEF BridgeStep, Probe, Backoff, EnsureReply, RequestShutdown, Drained, Open, Reclaim, Unlink,
           WriteAndSpawn, SpawnFails, Supervised, Waited, WaitEnds, Lost, Killed, Crash, Quiet
  <2> QED
    BY <2>1, UpsetType
<1>6. lock'.owner = None => lock' = NoLock
  <2>1. b # None
    BY ConstantsAssumption
  <2>2. CASE Open(b)
    BY <2>1, <2>2 DEF Open, FilesOK
  <2>3. CASE WriteAndSpawn(b)
    <3>1. lock.owner = b => lock'.owner = b
      BY <2>3 DEF WriteAndSpawn, Shape, LockRecord
    <3> QED
      BY <2>1, <2>3, <3>1 DEF WriteAndSpawn, FilesOK
  <2>4. CASE ~Open(b) /\ ~WriteAndSpawn(b)
    BY <2>4 DEF BridgeStep, Probe, Backoff, EnsureReply, RequestShutdown, Drained, Reclaim, Unlink,
          SpawnFails, Supervised, Waited, Lost, Killed, Crash, FilesOK
  <2> QED
    BY <2>2, <2>3, <2>4
<1> QED
  BY <1>1, <1>2, <1>3, <1>4, <1>5, <1>6 DEF FilesOK

\* The socket file names an unerrd that listens, or was killed while it did: whoever
\* stops unlinks it first.
LEMMA DaemonFiles ==
  ASSUME Shape, FilesOK, NEW d \in Daemons, DaemonStep(d)
  PROVE  FilesOK'
<1>1. UNCHANGED <<lock, stale, crashed, reused, told>>
  BY DEF DaemonStep, CheckPid, ClaimPid, CleanSocket, Listen, Shutdown, Exit, DaemonCrash,
         KeepBridges
<1>2. upsets' \in 0..MaxUpsets
  <2>1. upsets' = upsets \/ (AtRisk /\ upsets' = upsets + 1)
    BY DEF DaemonStep, CheckPid, ClaimPid, CleanSocket, Listen, Shutdown, Exit, DaemonCrash
  <2> QED
    BY <2>1, UpsetType
<1>3. pidFile' \in Daemons \cup {None}
  BY DEF DaemonStep, CheckPid, ClaimPid, CleanSocket, Listen, Shutdown, Exit, DaemonCrash, FilesOK
<1>4. sockFile' \in Daemons \cup {None}
      /\ (sockFile' # None => stage'[sockFile'] \in {"serving", "dead"})
  <2>1. CASE CleanSocket(d) \/ Shutdown(d)
    BY <2>1 DEF CleanSocket, Shutdown
  <2>2. CASE Listen(d)
    BY <2>2, ConstantsAssumption DEF Listen, Move, Shape, FilesOK
  <2>3. CASE CheckPid(d) \/ ClaimPid(d) \/ Exit(d)
    BY <2>3 DEF CheckPid, ClaimPid, Exit, Move, Shape, FilesOK
  <2>4. CASE DaemonCrash(d)
    BY <2>4 DEF DaemonCrash, Move, Shape, FilesOK
  <2> QED
    BY <2>1, <2>2, <2>3, <2>4 DEF DaemonStep
<1> QED
  BY <1>1, <1>2, <1>3, <1>4 DEF FilesOK

LEMMA FilesStep ==
  ASSUME Shape, FilesOK, [Next]_vars
  PROVE  FilesOK'
<1>1. CASE Age
  BY <1>1 DEF Age, KeepDaemons, Quiet, FilesOK, NoLock, Shape, LockRecord
<1>2. CASE UNCHANGED vars
  BY <1>2 DEF vars, FilesOK
<1>3. CASE PidReused
  <2>1. upsets' \in 0..MaxUpsets
    BY <1>3, UpsetType DEF PidReused
  <2> QED
    BY <1>3, <2>1 DEF PidReused, FilesOK
<1> QED
  BY <1>1, <1>2, <1>3, BridgeFiles, DaemonFiles DEF Next

\* The state of the bridges, of unerrd and of their files keeps its type, and
\* unerrd.sock never names an unerrd that has left its socket behind in order.
THEOREM TypeCorrect == Spec => []TypeOK
<1>1. Init => Shape /\ FilesOK
  BY InitHolds, InitFiles DEF IInv
<1>2. Shape /\ FilesOK /\ [Next]_vars => (Shape /\ FilesOK)'
  <2>1. ASSUME Shape, UNCHANGED vars PROVE Shape'
    BY <2>1 DEF Shape, vars
  <2> QED
    BY <2>1, ShapeStep, FilesStep
<1>3. QED
  BY <1>1, <1>2, TypeParts, PTL DEF Spec

-----------------------------------------------------------------------------
(* proxy.pid: a proxy at work and named by it is never joined or replaced by a newcomer,
   and one that is wedged is killed first, for any number of processes.      *)

\* The process q can do no more harm: it is dead, or about to be.
Finished(q) == ~ProxyAlive(q) \/ q \in doomed

\* A process that has seen another found a file that one wrote.
SeenHasRun ==
  \A p \in Procs :
    /\ pc[p] \in {"probing", "killing"} => seen[p] \in Procs
    /\ seen[p] \in Procs => pc[p] # "off" /\ pc[seen[p]] # "off"

\* acquire() starts again only after the wedged holder was killed.
RetryAfterKill ==
  \A p \in Procs : pc[p] = "checking" /\ seen[p] \in Procs => Finished(seen[p])

\* The witness is at work now, and a process that probes, probes its witness.
WitnessHolds ==
  \A p \in Procs : witness[p] \in Procs =>
    /\ Holds(witness[p])
    /\ pc[p] # "off"
    /\ pc[p] = "probing" => seen[p] = witness[p]

\* The inductive invariant.
ProxyInv ==
  /\ ProxyTypeOK
  /\ HeldLockDenies
  /\ WedgedIsKilled
  /\ SeenHasRun
  /\ RetryAfterKill
  /\ WitnessHolds

-----------------------------------------------------------------------------

LEMMA ProxyInitHolds == ProxyInit => ProxyInv
  BY MarksAssumption
  DEF ProxyInit, ProxyInv, ProxyTypeOK, HeldLockDenies, WedgedIsKilled, SeenHasRun, RetryAfterKill,
      WitnessHolds, Stages

\* Every step leaves the variables within their types.
LEMMA ProxyTypeStep ==
  ASSUME ProxyTypeOK, SeenHasRun, NEW p \in Procs, Step(p), Watch
  PROVE  ProxyTypeOK'
<1>1. witness' \in [Procs -> Procs \cup {Nobody}]
  BY DEF Watch, ProxyTypeOK
<1>2. CASE Start(p)
  BY <1>1, <1>2, MarksAssumption DEF Start, Enter, ProxyTypeOK, Stages
<1>3. CASE Check(p)
  BY <1>1, <1>3, MarksAssumption DEF Check, Enter, ProxyTypeOK, Stages
<1>4. CASE ProbeSettles(p)
  BY <1>1, <1>4 DEF ProbeSettles, Enter, ProxyTypeOK, Stages
<1>5. CASE KillWedged(p)
  BY <1>1, <1>5 DEF KillWedged, Enter, ProxyTypeOK, Stages, SeenHasRun
<1>6. CASE Remove(p)
  BY <1>1, <1>6 DEF Remove, Enter, ProxyTypeOK, Stages
<1>7. CASE Truncate(p)
  BY <1>1, <1>7 DEF Truncate, Enter, ProxyTypeOK, Stages
<1>8. CASE Write(p)
  BY <1>1, <1>8 DEF Write, Enter, ProxyTypeOK, Stages
<1>9. CASE Beat(p)
  BY <1>1, <1>9 DEF Beat, Enter, ProxyTypeOK, Stages
<1>10. CASE Leave(p)
  BY <1>1, <1>10 DEF Leave, Enter, ProxyTypeOK, Stages
<1>11. CASE ProxyCrash(p)
  BY <1>1, <1>11 DEF ProxyCrash, ProxyAlive, Enter, ProxyTypeOK, Stages
<1>12. CASE Freeze(p)
  BY <1>1, <1>12 DEF Freeze, Runs, ProxyAlive, ProxyTypeOK
<1>13. CASE Thaw(p)
  BY <1>1, <1>13 DEF Thaw, ProxyTypeOK
<1>14. CASE Recycle(p)
  BY <1>1, <1>14 DEF Recycle, ProxyTypeOK
<1>15. QED
  BY <1>2, <1>3, <1>4, <1>5, <1>6, <1>7, <1>8, <1>9, <1>10, <1>11, <1>12, <1>13, <1>14 DEF Step

\* Nobody returns from the dead, and a pending SIGKILL stays pending until then.
LEMMA FinishedStays ==
  ASSUME ProxyTypeOK, SeenHasRun, NEW p \in Procs, Step(p), NEW q \in Procs, pc[q] # "off"
  PROVE  pc'[q] # "off" /\ (Finished(q) => Finished(q)')
  BY DEF Step, Start, Check, ProbeSettles, KillWedged, Remove, Truncate, Write, Beat, Leave,
         ProxyCrash, Freeze, Thaw, Recycle, Enter, ProxyTypeOK, SeenHasRun, Finished, ProxyAlive,
         Runs

\* A witness is kept, or is the holder a process finds when it is started.
LEMMA WatchKeeps ==
  ASSUME ProxyTypeOK, Watch, NEW p \in Procs, NEW q \in Procs, witness'[p] = q
  PROVE  \/ pc[p] # "off" /\ witness[p] = q /\ Holds(q)'
         \/ pc[p] = "off" /\ pc'[p] # "off" /\ Holds(q)
         \/ pc[p] = "off" /\ pc'[p] = "off" /\ witness[p] = q
  BY MarksAssumption DEF Watch, ProxyTypeOK, Holds, Holding

\* What a process knows of the one it has seen outlives every step.
LEMMA SeenStep ==
  ASSUME ProxyInv, NEW p \in Procs, Step(p)
  PROVE  SeenHasRun' /\ RetryAfterKill' /\ WedgedIsKilled'
<1> DEFINE Late == {"checking", "removing", "opening", "writing", "primary", "beating"}
           Knows(r, q) == pc[r] # "off" /\ pc[q] # "off" /\ (pc[r] \in Late => Finished(q))
<1> USE DEF ProxyInv
<1>1. ASSUME NEW r \in Procs, NEW q \in Procs, seen[r] = q
      PROVE  Knows(r, q)
  BY <1>1 DEF SeenHasRun, RetryAfterKill, WedgedIsKilled, Finished
<1>2. ASSUME NEW r \in Procs, NEW q \in Procs, seen'[r] = q
      PROVE  Knows(r, q)'
  <2>1. CASE Check(p) /\ r = p /\ pc'[p] = "probing"
    BY <2>1, <1>2 DEF Check, Enter, PidAlive, ProxyAlive, ProxyTypeOK
  <2>2. CASE ~(Check(p) /\ r = p /\ pc'[p] = "probing")
    <3>1. seen[r] = q
      BY <2>2, <1>2 DEF Step, Start, Check, ProbeSettles, KillWedged, Remove, Truncate, Write,
            Beat, Leave, ProxyCrash, Freeze, Thaw, Recycle, Enter, ProxyTypeOK
    <3>2. pc'[r] # "off" /\ pc'[q] # "off" /\ (Finished(q) => Finished(q)')
      BY <3>1, <1>1, FinishedStays
    <3>3. CASE pc[r] \in Late
      BY <3>1, <3>2, <3>3, <1>1
    <3>4. CASE pc[r] \notin Late
      <4>1. SUFFICES ASSUME pc'[r] \in Late PROVE Finished(q)'
        BY <3>2
      <4>2. CASE ProbeSettles(p)
        BY <4>1, <4>2, <3>1, <3>4 DEF ProbeSettles, Enter, Finished, ProxyAlive, ProxyTypeOK
      <4>3. CASE KillWedged(p)
        BY <4>1, <4>3, <3>1, <3>4 DEF KillWedged, Enter, Finished, ProxyAlive, ProxyTypeOK
      <4>4. CASE Start(p)
        BY <4>1, <4>4, <3>1, <3>4, <1>1 DEF Start, Enter, ProxyTypeOK
      <4>5. CASE ~ProbeSettles(p) /\ ~KillWedged(p) /\ ~Start(p)
        BY <4>1, <4>5, <3>4 DEF Step, Check, Remove, Truncate, Write, Beat, Leave, ProxyCrash,
              Freeze, Thaw, Recycle, Enter, ProxyTypeOK
      <4>6. QED BY <4>2, <4>3, <4>4, <4>5
    <3>5. QED BY <3>3, <3>4
  <2>3. QED BY <2>1, <2>2
<1>3. ASSUME NEW r \in Procs
      PROVE  pc'[r] \in {"probing", "killing"} => seen'[r] \in Procs
  BY <1>3 DEF SeenHasRun, Step, Start, Check, ProbeSettles, KillWedged, Remove, Truncate, Write,
        Beat, Leave, ProxyCrash, Freeze, Thaw, Recycle, Enter, ProxyTypeOK
<1>4. QED
  BY <1>2, <1>3 DEF SeenHasRun, RetryAfterKill, WedgedIsKilled, Finished

\* A watched holder stays at work, and its watcher gets no further than probing it.
LEMMA WitnessStep ==
  ASSUME ProxyInv, NEW p \in Procs, Step(p), Watch
  PROVE  WitnessHolds' /\ HeldLockDenies'
<1> DEFINE Decided == {"removing", "killing", "opening", "writing", "primary", "beating"}
<1> USE DEF ProxyInv
<1>1. SUFFICES ASSUME NEW r \in Procs, NEW q \in Procs, witness'[r] = q
      PROVE  /\ Holds(q)' /\ pc'[r] # "off" /\ pc'[r] \notin Decided
             /\ pc'[r] = "probing" => seen'[r] = q
  <2>1. witness' \in [Procs -> Procs \cup {Nobody}]
    BY DEF Watch, ProxyTypeOK
  <2>2. QED
    BY <1>1, <2>1 DEF WitnessHolds, HeldLockDenies
<1>2. CASE pc[r] = "off"
  <2>1. witness[r] # q
    BY <1>1, <1>2 DEF WitnessHolds
  <2>2. Holds(q) /\ pc'[r] # "off"
    BY <1>1, <1>2, <2>1, WatchKeeps
  <2>3. r = p /\ Start(p)
    BY <1>2, <2>2 DEF Step, Start, Check, ProbeSettles, KillWedged, Remove, Truncate, Write,
          Beat, Leave, ProxyCrash, Freeze, Thaw, Recycle, Enter, ProxyTypeOK, ProxyAlive, Runs,
          SeenHasRun
  <2>4. QED
    BY <1>2, <2>2, <2>3 DEF Start, Enter, ProxyTypeOK, Holds, Holding
<1>3. CASE pc[r] # "off"
  <2>1. witness[r] = q /\ Holds(q)' /\ Holds(q)
    BY <1>1, <1>3, WatchKeeps DEF WitnessHolds
  <2>2. pc[r] \notin Decided /\ (pc[r] = "probing" => seen[r] = q)
    BY <2>1, MarksAssumption DEF WitnessHolds, HeldLockDenies
  <2>3. CASE Check(p) /\ r = p
    <3>1. file = q /\ PidAlive(q)
      BY <2>1 DEF Holds, Holding, PidAlive, ProxyAlive
    <3>2. pc'[p] = "probing" /\ seen'[p] = q
      BY <2>3, <3>1, MarksAssumption DEF Check, Enter, ProxyTypeOK
    <3>3. QED BY <2>1, <2>3, <3>2
  <2>4. CASE ProbeSettles(p) /\ r = p
    BY <2>1, <2>2, <2>4 DEF ProbeSettles, Enter, ProxyTypeOK, Holds, Holding, Deny, Healthy, Runs,
          ProxyAlive
  <2>5. CASE ~(Check(p) /\ r = p) /\ ~(ProbeSettles(p) /\ r = p)
    <3>1. CASE KillWedged(p)
      <4>1. pc'[r] \in {"gone", "checking", pc[r]} /\ seen'[r] = seen[r]
        BY <3>1 DEF KillWedged, Enter, ProxyTypeOK
      <4>2. QED BY <4>1, <2>1, <2>2, <1>3
    <3>2. CASE ~KillWedged(p) /\ r # p
      <4>1. pc'[r] = pc[r] /\ seen'[r] = seen[r]
        BY <3>2 DEF Step, Start, Check, ProbeSettles, Remove, Truncate, Write, Beat, Leave, ProxyCrash,
              Freeze, Thaw, Recycle, Enter, ProxyTypeOK
      <4>2. QED BY <4>1, <2>1, <2>2, <1>3
    <3>3. CASE ~KillWedged(p) /\ r = p
      <4>1. pc'[r] = "gone" \/ (pc'[r] = pc[r] /\ seen'[r] = seen[r])
        BY <3>3, <2>2, <2>5, <1>3 DEF Step, Start, Remove, Truncate, Write, Beat, Leave, ProxyCrash,
              Freeze, Thaw, Recycle, Enter, ProxyTypeOK
      <4>2. QED BY <4>1, <2>1, <2>2, <1>3
    <3>4. QED BY <3>1, <3>2, <3>3
  <2>6. QED BY <2>3, <2>4, <2>5
<1>4. QED BY <1>2, <1>3

LEMMA ProxyInductive == ProxyInv /\ [ProxyNext]_proxyVars => ProxyInv'
<1>1. SUFFICES ASSUME ProxyInv, ProxyNext PROVE ProxyInv'
  BY DEF ProxyInv, ProxyTypeOK, HeldLockDenies, WedgedIsKilled, SeenHasRun, RetryAfterKill, WitnessHolds,
         Finished, ProxyAlive, Holds, Holding, proxyVars
<1>2. PICK p \in Procs : Step(p) /\ Watch
  BY <1>1 DEF ProxyNext
<1>3. QED
  BY <1>1, <1>2, ProxyTypeStep, SeenStep, WitnessStep DEF ProxyInv

\* The inductive invariant holds in every reachable state.
THEOREM ProxyInvariance == ProxySpec => []ProxyInv
  BY ProxyInitHolds, ProxyInductive, PTL DEF ProxySpec

\* The variables keep their types; only running processes are blocked, and only
\* blocked ones have a SIGKILL pending (pid-lock.ts, proxy.ts).
THEOREM ProxyTypeCorrect == ProxySpec => []ProxyTypeOK
<1>1. ProxyInv => ProxyTypeOK
  BY DEF ProxyInv
<1>2. QED BY ProxyInvariance, <1>1, PTL

\* acquire() never takes the lock from a proxy that is at work and named by
\* proxy.pid since before the newcomer started, whatever the other processes do.
THEOREM HolderIsKept == ProxySpec => []HeldLockDenies
<1>1. ProxyInv => HeldLockDenies
  BY DEF ProxyInv
<1>2. QED BY ProxyInvariance, <1>1, PTL

\* No proxy takes the lock over from a wedged one before that one was killed.
THEOREM WedgedNeverRevives == ProxySpec => []WedgedIsKilled
<1>1. ProxyInv => WedgedIsKilled
  BY DEF ProxyInv
<1>2. QED BY ProxyInvariance, <1>1, PTL

=============================================================================
