----------------------------- MODULE Discovery -----------------------------
(* How the bridges (`unerr --mcp`, one per IDE session) find unerrd, start it
   when it is not there, and replace it after an upgrade.

   The processes share files and nothing else: spawn.lock decides which bridge
   starts unerrd, unerrd.pid which unerrd goes on, unerrd.sock which one is
   reached.  A step is one file operation, or the code from one await to the
   next.  What unerrd does for the bridges it serves is ProcessManager's matter;
   here it answers, or it does not.                                          *)
EXTENDS Naturals

CONSTANTS Bridges,      \* IDE sessions
          Upgraded,     \* those of them that run the version now on disk
          Daemons,      \* unerrd processes that may ever exist, with
          First,        \* the one that may be there from the start
          Scenes,       \* what there is at the start, see Init
          MaxUpsets,    \* bound on deaths, signals, failed ensures, reused pids
                        \* and overrun timeouts
          None

ASSUME ConstantsAssumption ==
  /\ Upgraded \subseteq Bridges /\ First \in Daemons
  /\ None \notin Bridges \cup Daemons /\ Bridges \cap Daemons = {} /\ MaxUpsets \in Nat
  /\ Scenes \subseteq {"cold", "served", "stale", "leftover"}

VARIABLES bridge,   \* the bridges
          lock,     \* spawn.lock
          pidFile,  \* the process unerrd.pid names, or None
          sockFile, \* the process that bound unerrd.sock, or None
          stage,    \* where each unerrd stands
          told,     \* the unerrd processes a shutdown command has reached
          stale,    \* those that run the version from before the upgrade
          crashed,  \* history: the bridges that died without a word
          reused,   \* the dead processes whose pid another program has now
          upsets

vars == <<bridge, lock, pidFile, sockFile, stage, told, stale, crashed, reused,
          upsets>>

(* probing; asking: ensureRepo is in flight to `target`; converging: has decided
   to replace it; draining: waits for it to close; opening, reopening: about to
   create spawn.lock; reading, unlinking: inside reclaimIfStale; writing: has
   created the file; supervising: has started unerrd; waiting: for somebody
   else's; backoff; bridged; gone.                                           *)
Stations == {"probing", "asking", "converging", "draining", "opening", "reopening", "reading",
             "unlinking", "writing", "supervising", "waiting", "backoff", "bridged", "gone"}
Spawning == {"writing", "supervising"}
BridgeRecord == [pc : Stations, spawned : BOOLEAN, converged : BOOLEAN,
                 target : Daemons \cup {None}]
NewPass == [pc |-> "probing", spawned |-> FALSE, converged |-> FALSE, target |-> None]

\* spawn.lock: who created it, whether its body is there, whether it is 10 s old.
LockRecord == [owner : Bridges \cup {None}, full : BOOLEAN, old : BOOLEAN]
NoLock == [owner |-> None, full |-> FALSE, old |-> FALSE]

\* none; checking, claiming: inside acquirePidLock; cleaning, binding; serving;
\* stopping: the socket is closed and the proxies are being stopped; exited; dead:
\* killed.
DaemonStages == {"none", "checking", "claiming", "cleaning", "binding", "serving", "stopping",
                 "exited", "dead"}
Starting == {"checking", "claiming", "cleaning", "binding"}

TypeOK ==
  /\ bridge \in [Bridges -> BridgeRecord] /\ lock \in LockRecord
  /\ pidFile \in Daemons \cup {None} /\ sockFile \in Daemons \cup {None}
  /\ stage \in [Daemons -> DaemonStages]
  /\ told \subseteq Daemons /\ stale \subseteq {First} /\ crashed \subseteq Bridges
  /\ reused \subseteq Bridges \cup Daemons /\ upsets \in 0..MaxUpsets
  /\ lock.owner = None => lock = NoLock
  /\ sockFile # None => stage[sockFile] \in {"serving", "dead"}

Alive(d) == stage[d] \notin {"none", "exited", "dead"}

\* process.kill(pid, 0) for an unerrd and for a bridge: all it says is that some
\* process has the pid.
DaemonPidAlive(d) == Alive(d) \/ d \in reused
BridgePidAlive(b) == bridge[b].pc # "gone" \/ b \in reused

UnderWay == \E d \in Daemons : stage[d] \in Starting
Reachable == sockFile \in Daemons /\ stage[sockFile] = "serving"
AtRisk == upsets < MaxUpsets

Init ==
  \E scene \in Scenes :
    LET up == scene \in {"served", "stale"}
        files == IF scene = "cold" THEN None ELSE First
    IN /\ stage = [d \in Daemons |-> IF d # First \/ scene = "cold" THEN "none"
                                     ELSE IF up THEN "serving" ELSE "dead"]
       /\ stale = IF scene = "stale" THEN {First} ELSE {}
       /\ pidFile = files /\ sockFile = files
       /\ bridge = [b \in Bridges |-> NewPass] /\ lock = NoLock
       /\ told = {} /\ crashed = {} /\ reused = {} /\ upsets = 0

-----------------------------------------------------------------------------
(* The bridge: discoverWithRetry and the loop around it.                     *)

At(b, pc) == bridge[b].pc = pc
Goto(b, pc) == bridge' = [bridge EXCEPT ![b].pc = pc]
KeepDaemons == UNCHANGED <<pidFile, sockFile, stage, stale, reused>>
Quiet == UNCHANGED <<crashed, upsets>>

\* probeDaemon, and where the loop goes from there.
Probe(b) ==
  /\ At(b, "probing")
  /\ \/ /\ Reachable
        /\ bridge' = [bridge EXCEPT ![b].pc = "asking", ![b].target = sockFile]
     \/ /\ ~Reachable /\ ~bridge[b].spawned
        /\ bridge' = [bridge EXCEPT ![b].pc = "opening", ![b].spawned = TRUE]
     \/ ~Reachable /\ bridge[b].spawned /\ Goto(b, "backoff")
  /\ UNCHANGED <<lock, told>> /\ KeepDaemons /\ Quiet

Backoff(b) ==
  /\ At(b, "backoff") /\ Goto(b, "probing")
  /\ UNCHANGED <<lock, told>> /\ KeepDaemons /\ Quiet

\* classifyVersionSkew: the bridge runs a newer version than its unerrd.
Newer(b) == b \in Upgraded /\ bridge[b].target \in stale

\* Mutant of EnsureReply: a connection that closes is not taken for an answer.
EnsureReplyOnly(b) ==
  /\ At(b, "asking") /\ stage[bridge[b].target] \in {"serving", "stopping"}
  /\ IF Newer(b) /\ ~bridge[b].converged THEN Goto(b, "converging") ELSE Goto(b, "bridged")
  /\ UNCHANGED <<lock, told>> /\ KeepDaemons /\ Quiet

\* ensureRepo settles.  An unerrd that is stopping may still answer; one that serves
\* may report a failure, or let the request time out, which is an upset.
EnsureReply(b) ==
  /\ At(b, "asking")
  /\ \/ /\ stage[bridge[b].target] \in {"serving", "stopping"}
        /\ IF Newer(b) /\ ~bridge[b].converged THEN Goto(b, "converging") ELSE Goto(b, "bridged")
        /\ UNCHANGED upsets
     \/ stage[bridge[b].target] # "serving" /\ Goto(b, "backoff") /\ UNCHANGED upsets
     \/ /\ stage[bridge[b].target] = "serving" /\ Goto(b, "backoff")
        /\ AtRisk /\ upsets' = upsets + 1
  /\ UNCHANGED <<lock, told, crashed>> /\ KeepDaemons

\* requestDaemonShutdown, to whichever unerrd has the socket by now.
RequestShutdown(b) ==
  /\ At(b, "converging")
  /\ told' = told \cup (IF Reachable THEN {sockFile} ELSE {})
  /\ bridge' = [bridge EXCEPT ![b].pc = "draining", ![b].converged = TRUE]
  /\ UNCHANGED lock /\ KeepDaemons /\ Quiet

\* The old unerrd is out of reach, or 5 s are over (one that was told to stop takes
\* that long only as an upset).
Drained(b) ==
  /\ At(b, "draining") /\ Goto(b, "probing")
  /\ \/ ~(Reachable /\ sockFile \in told) /\ UNCHANGED upsets
     \/ Reachable /\ sockFile \in told /\ AtRisk /\ upsets' = upsets + 1
  /\ UNCHANGED <<lock, told, crashed>> /\ KeepDaemons

\* tryAcquireSpawnLock: openSync(path, "wx").
Open(b) ==
  /\ \/ At(b, "opening") \/ At(b, "reopening")
  /\ \/ /\ lock = NoLock /\ Goto(b, "writing")
        /\ lock' = [owner |-> b, full |-> FALSE, old |-> FALSE]
     \/ /\ lock # NoLock /\ UNCHANGED lock
        /\ Goto(b, IF At(b, "opening") THEN "reading" ELSE "waiting")
  /\ UNCHANGED told /\ KeepDaemons /\ Quiet

Abandoned == lock.old /\ ~BridgePidAlive(lock.owner)

\* reclaimIfStale: a file that cannot be read or parsed is to go, and so is an
\* old one whose owner is dead.
Reclaim(b) ==
  /\ At(b, "reading")
  /\ \/ ~lock.full /\ Goto(b, "unlinking")
     \/ lock.full /\ Abandoned /\ Goto(b, "unlinking")
     \/ lock.full /\ ~Abandoned /\ Goto(b, "waiting")
  /\ UNCHANGED <<lock, told>> /\ KeepDaemons /\ Quiet

\* ... whatever the file is by now.
Unlink(b) ==
  /\ At(b, "unlinking") /\ lock' = NoLock
  /\ Goto(b, IF lock = NoLock THEN "waiting" ELSE "reopening")
  /\ UNCHANGED told /\ KeepDaemons /\ Quiet

\* Write the body, through the descriptor, and spawn unerrd.
WriteAndSpawn(b) ==
  /\ At(b, "writing") /\ Goto(b, "supervising")
  /\ lock' = IF lock.owner = b THEN [lock EXCEPT !.full = TRUE] ELSE lock
  /\ \E d \in Daemons : stage[d] = "none" /\ stage' = [stage EXCEPT ![d] = "checking"]
  /\ UNCHANGED <<told, pidFile, sockFile, stale, reused>> /\ Quiet

\* The process cannot be spawned (no process is left: the bound on Daemons).
SpawnFails(b) ==
  /\ At(b, "writing") /\ \A d \in Daemons : stage[d] # "none"
  /\ Goto(b, "probing") /\ lock' = NoLock
  /\ UNCHANGED told /\ KeepDaemons /\ Quiet

\* waitForSupervisor returns: unerrd is there, or 30 s are over.  They are over
\* only when no unerrd is on its way, unless a slow machine upsets that.
WaitEnds ==
  \/ Reachable /\ UNCHANGED upsets
  \/ ~Reachable /\ ~UnderWay /\ UNCHANGED upsets
  \/ ~Reachable /\ UnderWay /\ AtRisk /\ upsets' = upsets + 1

\* The spawner's `finally`: unlink spawn.lock, whoever created it.
Supervised(b) ==
  /\ At(b, "supervising") /\ WaitEnds
  /\ Goto(b, "probing") /\ lock' = NoLock
  /\ UNCHANGED <<told, crashed>> /\ KeepDaemons

Waited(b) ==
  /\ At(b, "waiting") /\ WaitEnds
  /\ Goto(b, "probing")
  /\ UNCHANGED <<lock, told, crashed>> /\ KeepDaemons

\* The proxies of an unerrd that stops are stopped with it ...
Doomed(b) == \E d \in Daemons : bridge[b].target = d /\ stage[d] \in {"stopping", "exited"}
\* ... and of one that is killed those it has forked exit, as soon as they see that the
\* IPC channel is closed; those it has adopted stay.
Orphaned(b) == \E d \in Daemons : bridge[b].target = d /\ stage[d] = "dead"

\* The proxy socket is lost: the loop starts a new pass.  A proxy may also die by
\* itself.
Lost(b) ==
  /\ At(b, "bridged") /\ bridge' = [bridge EXCEPT ![b] = NewPass]
  /\ \/ (Doomed(b) \/ Orphaned(b)) /\ UNCHANGED upsets
     \/ ~Doomed(b) /\ ~Orphaned(b) /\ AtRisk /\ upsets' = upsets + 1
  /\ UNCHANGED <<lock, told, crashed>> /\ KeepDaemons

\* Mutant of Killed: the signal ends the bridge as it would by default.
KilledByDefault(b) ==
  /\ ~At(b, "gone") /\ Goto(b, "gone")
  /\ AtRisk /\ upsets' = upsets + 1
  /\ UNCHANGED <<lock, told, crashed>> /\ KeepDaemons

\* onFatalSignal: remove spawn.lock, whoever created it, and exit.
Killed(b) ==
  /\ ~At(b, "gone") /\ Goto(b, "gone") /\ lock' = NoLock
  /\ AtRisk /\ upsets' = upsets + 1
  /\ UNCHANGED <<told, crashed>> /\ KeepDaemons

Crash(b) ==
  /\ ~At(b, "gone") /\ Goto(b, "gone") /\ crashed' = crashed \cup {b}
  /\ AtRisk /\ upsets' = upsets + 1
  /\ UNCHANGED <<lock, told>> /\ KeepDaemons

-----------------------------------------------------------------------------
(* unerrd, from its start to its exit.                                       *)

Move(d, s) == stage' = [stage EXCEPT ![d] = s]
KeepBridges == UNCHANGED <<bridge, lock, stale, crashed, reused>>

\* Mutant of CheckPid: a pid file is believed, whether its process lives or not.
CheckPidBelieving(d) ==
  /\ stage[d] = "checking"
  /\ Move(d, IF pidFile # None THEN "exited" ELSE "claiming")
  /\ UNCHANGED <<pidFile, sockFile, told, upsets>> /\ KeepBridges

\* Mutant of CheckPid: the pid file is taken over from whoever holds it.
CheckPidTakingOver(d) ==
  /\ stage[d] = "checking" /\ Move(d, "claiming")
  /\ UNCHANGED <<pidFile, sockFile, told, upsets>> /\ KeepBridges

\* acquirePidLock: exit if a process has the pid in unerrd.pid ...
CheckPid(d) ==
  /\ stage[d] = "checking"
  /\ Move(d, IF pidFile \in Daemons /\ DaemonPidAlive(pidFile) THEN "exited" ELSE "claiming")
  /\ UNCHANGED <<pidFile, sockFile, told, upsets>> /\ KeepBridges

\* ... else write one's own pid.
ClaimPid(d) ==
  /\ stage[d] = "claiming" /\ Move(d, "cleaning") /\ pidFile' = d
  /\ UNCHANGED <<sockFile, told, upsets>> /\ KeepBridges

\* cleanStaleSocket, and the unlink after it, which spares no socket.
CleanSocket(d) ==
  /\ stage[d] = "cleaning" /\ Move(d, "binding") /\ sockFile' = None
  /\ UNCHANGED <<pidFile, told, upsets>> /\ KeepBridges

\* server.listen.  If the address is in use: release the pid file and fail.
Listen(d) ==
  /\ stage[d] = "binding"
  /\ \/ sockFile = None /\ sockFile' = d /\ Move(d, "serving") /\ UNCHANGED pidFile
     \/ sockFile # None /\ pidFile' = None /\ Move(d, "exited") /\ UNCHANGED sockFile
  /\ UNCHANGED <<told, upsets>> /\ KeepBridges

\* Mutant of Shutdown: the socket file is left to the next unerrd.
ShutdownLeavingSocket(d) ==
  /\ stage[d] = "serving" /\ Move(d, "stopping")
  /\ \/ d \in told /\ UNCHANGED upsets
     \/ d \notin told /\ AtRisk /\ upsets' = upsets + 1
  /\ UNCHANGED <<pidFile, sockFile, told>> /\ KeepBridges

\* shutdown(): for the command, or (an upset) for SIGTERM or the idle exit.  The
\* socket is unlinked by its path.
Shutdown(d) ==
  /\ stage[d] = "serving" /\ Move(d, "stopping") /\ sockFile' = None
  /\ \/ d \in told /\ UNCHANGED upsets
     \/ d \notin told /\ AtRisk /\ upsets' = upsets + 1
  /\ UNCHANGED <<pidFile, told>> /\ KeepBridges

\* shutdownAll is done: releasePidLock, by the path as well, and exit.
Exit(d) ==
  /\ stage[d] = "stopping" /\ Move(d, "exited") /\ pidFile' = None
  /\ UNCHANGED <<sockFile, told, upsets>> /\ KeepBridges

DaemonCrash(d) ==
  /\ Alive(d) /\ Move(d, "dead")
  /\ AtRisk /\ upsets' = upsets + 1
  /\ UNCHANGED <<pidFile, sockFile, told>> /\ KeepBridges

\* Another program gets the pid of a dead unerrd or bridge, and keeps it.
PidReused ==
  /\ \E x \in (Bridges \cup Daemons) \ reused :
       /\ x \in Daemons => stage[x] = "dead"
       /\ x \in Bridges => At(x, "gone")
       /\ reused' = reused \cup {x}
  /\ AtRisk /\ upsets' = upsets + 1
  /\ UNCHANGED <<bridge, lock, pidFile, sockFile, stage, told, stale, crashed>>

\* 10 s pass.
Age ==
  /\ lock.full /\ ~lock.old /\ lock' = [lock EXCEPT !.old = TRUE]
  /\ UNCHANGED <<bridge, told>> /\ KeepDaemons /\ Quiet

-----------------------------------------------------------------------------

BridgeStep(b) ==
  \/ Probe(b) \/ Backoff(b) \/ EnsureReply(b) \/ RequestShutdown(b) \/ Drained(b)
  \/ Open(b) \/ Reclaim(b) \/ Unlink(b) \/ WriteAndSpawn(b) \/ SpawnFails(b)
  \/ Supervised(b) \/ Waited(b) \/ Lost(b) \/ Killed(b) \/ Crash(b)

DaemonStep(d) ==
  \/ CheckPid(d) \/ ClaimPid(d) \/ CleanSocket(d) \/ Listen(d)
  \/ Shutdown(d) \/ Exit(d) \/ DaemonCrash(d)

Next == (\E b \in Bridges : BridgeStep(b)) \/ (\E d \in Daemons : DaemonStep(d)) \/ Age
        \/ PidReused

Spec == Init /\ [][Next]_vars

\* Timers fire, probes and requests settle, and an unerrd that was started, or
\* told to stop, gets on with it.  Whether the proxy of a killed unerrd ends is open.
Fairness ==
  /\ \A b \in Bridges :
       /\ WF_vars(Probe(b)) /\ WF_vars(Backoff(b)) /\ WF_vars(EnsureReply(b))
       /\ WF_vars(RequestShutdown(b)) /\ WF_vars(Drained(b)) /\ WF_vars(Open(b))
       /\ WF_vars(Reclaim(b)) /\ WF_vars(Unlink(b)) /\ WF_vars(WriteAndSpawn(b))
       /\ WF_vars(SpawnFails(b)) /\ WF_vars(Supervised(b)) /\ WF_vars(Waited(b))
       /\ WF_vars(Doomed(b) /\ Lost(b))
  /\ \A d \in Daemons :
       /\ WF_vars(CheckPid(d)) /\ WF_vars(ClaimPid(d)) /\ WF_vars(CleanSocket(d))
       /\ WF_vars(Listen(d)) /\ WF_vars(d \in told /\ Shutdown(d)) /\ WF_vars(Exit(d))
FairSpec == Spec /\ Fairness

-----------------------------------------------------------------------------

\* spawn.lock never outlives the attempt it stands for: there is a bridge still
\* at it, or one that died without a word.  It holds although a bridge may remove
\* another's lock, and is why no live bridge has to wait for it to grow old.
LockHasSpawner ==
  lock.owner # None => bridge[lock.owner].pc \in Spawning \/ lock.owner \in crashed

\* An unerrd that is alone and has both its files.
Alone(d) ==
  /\ stage[d] = "serving" /\ pidFile = d /\ sockFile = d
  /\ \A e \in Daemons \ {d} : stage[e] \in {"none", "checking", "exited", "dead"}

\* Once an unerrd is alone nothing the bridges start takes its pid file or its
\* socket from it, nor comes up next to it, until it stops or dies itself: the
\* races of acquirePidLock are confined to the time before.
AloneStays == [][\A d \in Daemons : Alone(d) => Alone(d)' \/ stage'[d] # "serving"]_vars

\* The session has its proxy, or has ended.
Connected(b) == At(b, "gone") \/ (At(b, "bridged") /\ ~Doomed(b))

\* Every session gets its proxy, from nothing, next to a running unerrd, and on
\* what a dead one left, when nothing dies or fails, no timeout is overrun and no
\* other program gets the pid that was left: some unerrd comes up and the bridge
\* reaches it.
BridgeConnects == stale = {} /\ [](upsets = 0) => \A b \in Bridges : <>Connected(b)

\* The same next to an unerrd of the version before the upgrade, which the bridge
\* shuts down and replaces.
UpgradeConnects == [](upsets = 0) => \A b \in Bridges : <>Connected(b)

\* A bridge finds an unerrd that stays, whatever it went through before: an ensure
\* that failed or timed out, an unerrd that was stopped or killed under it and took
\* its proxy along, a replaced version, a spawn that came to nothing.
ConnectsWhenServed ==
  \A b \in Bridges : (<>[](Reachable /\ sockFile \notin told)) => <>[]Connected(b)

=============================================================================
