------------------------------ MODULE PidLock ------------------------------
(* The lock file .unerr/state/proxy.pid: how the proxies started for one
   repository decide which of them serves it.

   proxy.ts calls acquire(), kills a wedged holder once and calls acquire()
   again.  The steps are the file operations and the awaits: between two of them
   any other process may run.  writeFileSync truncates and then writes, so that
   other processes, and a crash, may find the file empty.  Names that Discovery has
   too begin with Proxy here: LockFiles_proofs extends both.                 *)
EXTENDS Naturals

CONSTANTS Procs,    \* processes that are ever started for the repository
          Torn,     \* contents of proxy.pid: empty or cut short
          Nobody    \* proxy.pid does not exist; no process

ASSUME MarksAssumption == Torn \notin Procs /\ Nobody \notin Procs /\ Torn # Nobody

VARIABLES file,      \* proxy.pid: the process it names, Torn or Nobody
          pc,        \* where each process stands
          seen,      \* the pid acquire() read
          second,    \* the processes in their second acquire()
          frozen,    \* the processes whose event loop is blocked
          doomed,    \* those of them a SIGKILL is pending for
          recycled,  \* dead processes whose pid the system has given away
          witness    \* history: the holder p has had in front of it, see Holds

proxyVars == <<file, pc, seen, second, frozen, doomed, recycled, witness>>

(* off; checking: about to read the file; probing: inside checkHealthWithRetry;
   removing: about to unlink a file taken for stale; killing: about to kill a
   wedged holder; opening: inside startHealthServer; writing: has truncated the
   file for the first time; primary; beating: the same, from the heartbeat;
   gone.                                                                     *)
Stages == {"off", "checking", "probing", "removing", "killing", "opening",
           "writing", "primary", "beating", "gone"}
Primaries == {p \in Procs : pc[p] \in {"primary", "beating"}}

ProxyTypeOK ==
  /\ file \in Procs \cup {Torn, Nobody}
  /\ pc \in [Procs -> Stages]
  /\ seen \in [Procs -> Procs \cup {Nobody}]
  /\ second \subseteq Procs
  /\ frozen \subseteq {p \in Procs : pc[p] \notin {"off", "gone"}} /\ doomed \subseteq frozen
  /\ recycled \subseteq {p \in Procs : pc[p] = "gone"}
  /\ witness \in [Procs -> Procs \cup {Nobody}]

ProxyAlive(p) == pc[p] \notin {"off", "gone"}
PidAlive(p) == ProxyAlive(p) \/ p \in recycled
Runs(p) == ProxyAlive(p) /\ p \notin frozen

\* checkHealthWithRetry(port of q).  The server is up before the file names q.
Healthy(q) == Runs(q)

\* Process q is a primary at work and proxy.pid names it.
Holding(q, f, stage, stuck) == stage[q] \in {"primary", "beating"} /\ q \notin stuck /\ f = q
Holds(q) == Holding(q, file, pc, frozen)

\* History: p has had the same holder in front of it ever since it was started.
Watch ==
  witness' = [p \in Procs |->
    IF pc[p] = "off" /\ pc'[p] # "off"
    THEN IF file \in Procs /\ Holds(file) THEN file ELSE Nobody
    ELSE IF witness[p] \in Procs /\ Holding(witness[p], file', pc', frozen')
    THEN witness[p] ELSE Nobody]

-----------------------------------------------------------------------------

ProxyInit ==
  /\ file \in {Nobody, Torn}
  /\ pc = [p \in Procs |-> "off"] /\ seen = [p \in Procs |-> Nobody]
  /\ second = {} /\ frozen = {} /\ doomed = {} /\ recycled = {}
  /\ witness = [p \in Procs |-> Nobody]

Enter(p, stage) == pc' = [pc EXCEPT ![p] = stage]

Start(p) ==
  /\ pc[p] = "off" /\ Enter(p, "checking")
  /\ UNCHANGED <<file, seen, second, frozen, doomed, recycled>>

\* Mutant of Check: a file that names a process is believed.
CheckBelieving(p) ==
  /\ pc[p] = "checking" /\ p \notin frozen
  /\ IF file = Nobody THEN Enter(p, "opening")
     ELSE IF file \in Procs THEN Enter(p, "gone")
     ELSE Enter(p, "removing")
  /\ UNCHANGED <<file, seen, second, frozen, doomed, recycled>>

\* acquire(): read and parse the file, and look for the process it names.
Check(p) ==
  /\ pc[p] = "checking" /\ p \notin frozen
  /\ \/ /\ file = Nobody /\ Enter(p, "opening")
        /\ UNCHANGED seen
     \/ /\ file \in Procs /\ PidAlive(file) /\ Enter(p, "probing")
        /\ seen' = [seen EXCEPT ![p] = file]
     \/ /\ file # Nobody /\ (file \in Procs => ~PidAlive(file)) /\ Enter(p, "removing")
        /\ UNCHANGED seen
  /\ UNCHANGED <<file, second, frozen, doomed, recycled>>

\* Mutant of Deny: a healthy holder is taken for a recycled pid.
DenyNobody(p) == FALSE /\ p \in Procs

\* The holder answers: this process is a secondary.
Deny(p) == Healthy(seen[p])

\* Mutant of Give: the second acquire() waits for the wedged holder as well.
GiveNever(p) == FALSE /\ p \in second

\* A second acquire() that finds a wedged holder again gives up.
Give(p) == p \in second

\* checkHealthWithRetry settles.  No answer from a process that is a proxy means
\* wedged; from anything else, a recycled pid.
ProbeSettles(p) ==
  /\ pc[p] = "probing" /\ p \notin frozen
  /\ \/ Deny(p) /\ Enter(p, "gone")
     \/ ~Deny(p) /\ ProxyAlive(seen[p]) /\ Give(p) /\ Enter(p, "gone")
     \/ ~Deny(p) /\ ProxyAlive(seen[p]) /\ ~Give(p) /\ Enter(p, "killing")
     \/ ~Deny(p) /\ ~ProxyAlive(seen[p]) /\ Enter(p, "removing")
  /\ UNCHANGED <<file, seen, second, frozen, doomed, recycled>>

\* Mutant of KillWedged: a wedged holder is taken for a stale one.
KillNobody(p) ==
  /\ pc[p] = "killing" /\ p \notin frozen /\ Enter(p, "removing")
  /\ UNCHANGED <<file, seen, second, frozen, doomed, recycled>>

\* killAndWaitForExit(seen), then acquire() once more.  The wait is bounded: a
\* process blocked in the kernel outlives it and dies later.
KillWedged(p) ==
  /\ pc[p] = "killing" /\ p \notin frozen
  /\ second' = second \cup {p}
  /\ \/ /\ pc' = [pc EXCEPT ![seen[p]] = "gone", ![p] = "checking"]
        /\ frozen' = frozen \ {seen[p]} /\ doomed' = doomed \ {seen[p]}
     \/ /\ seen[p] \in frozen /\ Enter(p, "checking")
        /\ doomed' = doomed \cup {seen[p]} /\ UNCHANGED frozen
  /\ UNCHANGED <<file, seen, recycled>>

\* unlink, whatever the file holds by now, and becomePrimary().
Remove(p) ==
  /\ pc[p] = "removing" /\ p \notin frozen
  /\ file' = Nobody /\ Enter(p, "opening")
  /\ UNCHANGED <<seen, second, frozen, doomed, recycled>>

\* The health server listens: open the file for writing.
Truncate(p) ==
  /\ pc[p] = "opening" /\ p \notin frozen
  /\ file' = Torn /\ Enter(p, "writing")
  /\ UNCHANGED <<seen, second, frozen, doomed, recycled>>

\* ... and write it.
Write(p) ==
  /\ pc[p] \in {"writing", "beating"} /\ p \notin frozen
  /\ file' = p /\ Enter(p, "primary")
  /\ UNCHANGED <<seen, second, frozen, doomed, recycled>>

\* Mutant of Beat: the heartbeat only touches a file that is still there.
BeatIfThere(p) ==
  /\ pc[p] = "primary" /\ p \notin frozen /\ file # Nobody
  /\ file' = Torn /\ Enter(p, "beating")
  /\ UNCHANGED <<seen, second, frozen, doomed, recycled>>

\* The heartbeat rewrites the file every 10 s, whoever it names.
Beat(p) ==
  /\ pc[p] = "primary" /\ p \notin frozen
  /\ file' = Torn /\ Enter(p, "beating")
  /\ UNCHANGED <<seen, second, frozen, doomed, recycled>>

\* release() and the exit handler, which unlinks whatever is there.
Leave(p) ==
  /\ pc[p] = "primary" /\ p \notin frozen
  /\ file' = Nobody /\ Enter(p, "gone")
  /\ UNCHANGED <<seen, second, frozen, doomed, recycled>>

-----------------------------------------------------------------------------
(* Faults.                                                                   *)

ProxyCrash(p) ==
  /\ ProxyAlive(p) /\ Enter(p, "gone")
  /\ frozen' = frozen \ {p} /\ doomed' = doomed \ {p}
  /\ UNCHANGED <<file, seen, second, recycled>>

\* The event loop is busy, or the process is stopped.
Freeze(p) ==
  /\ Runs(p) /\ frozen' = frozen \cup {p}
  /\ UNCHANGED <<file, pc, seen, second, doomed, recycled>>

Thaw(p) ==
  /\ p \in frozen \ doomed /\ frozen' = frozen \ {p}
  /\ UNCHANGED <<file, pc, seen, second, doomed, recycled>>

\* The pid of a dead proxy goes to a program that is none.
Recycle(p) ==
  /\ pc[p] = "gone" /\ p \notin recycled /\ recycled' = recycled \cup {p}
  /\ UNCHANGED <<file, pc, seen, second, frozen, doomed>>

Step(p) ==
  \/ Start(p) \/ Check(p) \/ ProbeSettles(p) \/ KillWedged(p) \/ Remove(p)
  \/ Truncate(p) \/ Write(p) \/ Beat(p) \/ Leave(p)
  \/ ProxyCrash(p) \/ Freeze(p) \/ Thaw(p) \/ Recycle(p)

ProxyNext == (\E p \in Procs : Step(p)) /\ Watch

ProxySpec == ProxyInit /\ [][ProxyNext]_proxyVars

\* A process that is not frozen goes on: its timers fire and its probes settle.
ProxyFairness ==
  \A p \in Procs :
    /\ WF_proxyVars(Check(p) /\ Watch) /\ WF_proxyVars(ProbeSettles(p) /\ Watch)
    /\ WF_proxyVars(KillWedged(p) /\ Watch) /\ WF_proxyVars(Remove(p) /\ Watch)
    /\ WF_proxyVars(Truncate(p) /\ Watch) /\ WF_proxyVars(Write(p) /\ Watch)
    /\ WF_proxyVars(Beat(p) /\ Watch)
ProxyFairSpec == ProxySpec /\ ProxyFairness

-----------------------------------------------------------------------------

\* A holder that is at work and named by proxy.pid from before a newcomer starts
\* until it has decided is never joined by that newcomer: it is not killed for
\* being wedged, nor is its file removed or overwritten.
HeldLockDenies ==
  \A p \in Procs :
    pc[p] \in {"removing", "killing", "opening", "writing", "primary", "beating"}
      => witness[p] = Nobody

\* A process never goes on to take the lock while the holder it found wedged may
\* run again: that one has graph.db open, and two writers are the incident
\* pid-lock.ts tells of.  It is dead, or a SIGKILL is pending for it.
WedgedIsKilled ==
  \A p \in Procs :
    pc[p] \in {"removing", "opening", "writing", "primary", "beating"} /\ seen[p] \in Procs
      => ~ProxyAlive(seen[p]) \/ seen[p] \in doomed

\* acquire() comes to an end whatever holds the file: the process becomes the
\* primary or exits, unless it is blocked itself.
AcquireSettles ==
  \A p \in Procs : pc[p] = "checking" ~> pc[p] \in {"primary", "gone"} \/ p \in frozen

\* While some primary stays at work, a lock file that was removed by somebody
\* else's exit, or left torn, comes back naming a process.
FileComesBack ==
  \A p \in Procs : (<>[](p \in Primaries \ frozen)) => ([]<>(file \in Procs))

\* At most one proxy is the primary of the repository.
SingleInstance == \A p, q \in Primaries : p = q

=============================================================================
