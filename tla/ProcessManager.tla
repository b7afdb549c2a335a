--------------------------- MODULE ProcessManager ---------------------------
(* The process manager of unerrd for ONE repository key: the single ManagedRepo
   slot of ProcessManager.repos, the ensure() calls that share it, the proxy
   children forked for it, and the two files (proxy.pid, proxy.sock) through
   which proxies that this daemon did not fork are found.

   ensure() is cut at each `await`.  What the daemon runs between two awaits is
   one action; between two actions anything else of the event loop may run.
   Every ManagedRepo object the daemon creates is an entry 1, 2, ...; the child
   forked for entry e is process e; process External was started by somebody
   else (a standalone `unerr`).                                              *)
EXTENDS Naturals, FiniteSets

CONSTANTS Callers,      \* who calls ensure() for the repository
          Bridges,      \* the callers that then open a bridge; the others, like
                        \* the warm start, only want the proxy up
          MaxEntries,   \* bound: ManagedRepo objects the daemon may create
          MaxCalls,     \* bound: ensure() calls
          Threshold,    \* STARTUP_FAILURE_THRESHOLD
          MaxUpsets,    \* bound: crashes, freezes, failed forks, stops, idle
                        \* recycles and restarts of unerrd
          Leftovers,    \* what the daemon may find: see Init
          External,     \* a proxy the daemon did not fork
          None          \* null

Entries == 1..MaxEntries
Procs == Entries \cup {External}
Strikes == 2            \* LIVENESS_MAX_STRIKES

ASSUME BoundsAssumption ==
  /\ MaxEntries \in Nat /\ MaxCalls \in Nat /\ MaxUpsets \in Nat
  /\ MaxEntries > 2 * MaxCalls     \* no call is cut short: it forks once, adopts once
ASSUME ThresholdAssumption == Threshold \in Nat \ {0}
ASSUME ConstantsAssumption ==
  /\ IsFiniteSet(Callers) /\ Bridges \subseteq Callers
  /\ Leftovers \subseteq {"none", "ready", "dead", "two", "crashed"}
  /\ External \notin Nat /\ None \notin Nat /\ None # External

VARIABLES
  daemon,    \* "up", "stopping" (inside shutdownAll) or "gone"
  cur,       \* repos.get(key): an entry or None
  made,      \* entries created so far
  ent,       \* entry -> ManagedRepo
  failures,  \* startupFailures.get(key).count, 0 when absent (capped)
  cooling,   \* the last startup failure is less than the cooldown old
  call,      \* caller -> where its ensure() call or its bridge stands
  proc,      \* process -> stage of its life
  flags,     \* process -> signals, timers and IPC messages concerning it
  lock,      \* the pid in proxy.pid, or None
  sock,      \* the process that bound the file proxy.sock, or None
  upsets,    \* upsets so far
  calls      \* ensure() calls so far

vars == <<daemon, cur, made, ent, failures, cooling, call, proc, flags, lock,
          sock, upsets, calls>>

files == <<lock, sock>>

(* A proxy goes none -> booting -> locked (holds proxy.pid, health server up,
   graph.db open) -> up (listens on proxy.sock) -> ready ("ready" sent) ->
   leaving (socket removed, graph.db still open) -> dead.                    *)
Stages == {"none", "booting", "locked", "up", "ready", "leaving", "dead"}
Open == {"locked", "up", "ready", "leaving"}

(* ipc: child of the living daemon; frozen: its event loop is blocked;
   sigterm: SIGTERM or the IPC disconnect reached it; shutdown: it was sent
   {type: "shutdown"}; killed: ChildProcess.killed, the daemon's handle has
   delivered a signal; killTimer: shutdownChild's 10 s timer is armed; doomed:
   a killProcessAndWait() loop is after it; awaited: shutdownAll() waits for it;
   swept: the files it leaves are cleared after that; overlooked: shutdownAll() had
   neither a handle on it nor its pid; readyMsg, exitMsg: "ready" or the exit event
   is on its way to the daemon.                                              *)
Flags == {"ipc", "frozen", "sigterm", "shutdown", "killed", "killTimer",
          "doomed", "awaited", "swept", "overlooked", "readyMsg", "exitMsg"}

EntryRecord ==
  [status   : {"unused", "starting", "running", "stopped", "error"},
   child    : BOOLEAN,                  \* child # null
   adopted  : BOOLEAN,
   pid      : Procs \cup {None},
   conns    : Nat,                      \* connections
   strikes  : 0..Strikes,               \* livenessFailures
   waiters  : SUBSET Callers]           \* readyWaiters

Stations == {"idle", "probe", "connectProbe", "healthProbe", "killing",
             "waiting", "served", "bridged", "closing"}

CallRecord ==
  [pc      : Stations,
   on      : Entries \cup {None},       \* the entry it waits on
   pid     : Procs \cup {None},         \* the pid tryAdopt or the bridge holds
   port    : Procs \cup {None},         \* whose healthPort tryAdopt has read
   spawned : BOOLEAN]                   \* it is inside `await this.spawn(key)`

Unused == [status |-> "unused", child |-> FALSE, adopted |-> FALSE,
           pid |-> None, conns |-> 0, strikes |-> 0, waiters |-> {}]
Forked(e, w) == [Unused EXCEPT !.status = "starting", !.child = TRUE, !.pid = e,
                               !.waiters = w]
Running(e) == [Forked(e, {}) EXCEPT !.status = "running"]
Adopted(p) == [Unused EXCEPT !.status = "running", !.adopted = TRUE, !.pid = p]

Idle == [pc |-> "idle", on |-> None, pid |-> None, port |-> None, spawned |-> FALSE]
Served(c) == IF c \in Bridges THEN [Idle EXCEPT !.pc = "served"] ELSE Idle
Waiting(e, spawner) == [Idle EXCEPT !.pc = "waiting", !.on = e, !.spawned = spawner]
At(station, c, p) == [call[c] EXCEPT !.pc = station, !.pid = p, !.on = None]

TypeOK ==
  /\ daemon \in {"up", "stopping", "gone"}
  /\ cur \in Entries \cup {None}
  /\ made \in 0..MaxEntries
  /\ ent \in [Entries -> EntryRecord]
  /\ failures \in 0..Threshold
  /\ cooling \in BOOLEAN
  /\ call \in [Callers -> CallRecord]
  /\ proc \in [Procs -> Stages]
  /\ flags \in [Procs -> SUBSET Flags]
  /\ lock \in Procs \cup {None}
  /\ sock \in Procs \cup {None}
  /\ upsets \in 0..MaxUpsets
  /\ calls \in 0..MaxCalls

-----------------------------------------------------------------------------
(* What the daemon can observe.                                              *)

Alive(p) == p \in Procs /\ proc[p] \notin {"none", "dead"}
Awake(p) == Alive(p) /\ "frozen" \notin flags[p]

\* isSockConnectable: the kernel accepts as soon as the owner listens, even
\* when its event loop is blocked.
Connectable == sock # None /\ Alive(sock)

\* pingHealth on the port of p; on the port named by proxy.pid.
Answers(p) == p # None /\ Awake(p) /\ proc[p] # "booting"
Healthy == Answers(lock)

\* Processes with graph.db open, as pidsHoldingRepoGraphDb finds them.
Holders == {p \in Procs : proc[p] \in Open}

Status(e) == IF e = None THEN "absent" ELSE ent[e].status
BreakerOpen == failures >= Threshold /\ cooling
Serving == daemon # "gone"
Upset == daemon = "up" /\ upsets < MaxUpsets /\ upsets' = upsets + 1 /\ UNCHANGED calls

Raise(f, P, new) == [p \in Procs |-> IF p \in P THEN f[p] \cup new ELSE f[p]]
Lower(f, P, old) == [p \in Procs |-> IF p \in P THEN f[p] \ old ELSE f[p]]

\* The flags after process p has died: its exit event is on its way to the
\* daemon that forked it.
Buried(f, p) ==
  [f EXCEPT ![p] = (f[p] \cap {"ipc", "readyMsg", "awaited", "swept"})
                     \cup (IF "ipc" \in f[p] THEN {"exitMsg"} ELSE {})]

-----------------------------------------------------------------------------
(* ensure() and tryAdopt().                                                  *)

\* The daemon has just started and finds nothing, the files of a dead proxy, one proxy
\* at work, or two: External and one that an earlier unerrd forked.  Or ("crashed") its
\* own child has served and died this moment.
Init ==
  /\ daemon = "up"
  /\ \E s \in Leftovers :
       LET found == CASE s = "none" -> {} [] s = "crashed" -> {1} [] s = "two" -> {1, External}
                      [] OTHER -> {External}
       IN
       /\ made = IF 1 \in found THEN 1 ELSE 0
       /\ cur = IF s = "crashed" THEN 1 ELSE None
       /\ ent = [e \in Entries |-> IF e = cur THEN Running(e) ELSE Unused]
       /\ proc = [p \in Procs |-> IF p \notin found THEN "none"
                                  ELSE IF s \in {"dead", "crashed"} THEN "dead" ELSE "ready"]
       /\ flags = [p \in Procs |-> IF p = cur THEN {"ipc", "exitMsg"} ELSE {}]
       /\ IF s = "none" THEN lock = None /\ sock = None
                        ELSE lock \in found /\ sock \in found
       /\ upsets = IF s = "crashed" /\ MaxUpsets > 0 THEN 1 ELSE 0
  /\ failures = 0 /\ cooling = FALSE
  /\ call = [c \in Callers |-> Idle]
  /\ calls = 0

\* Mutant of Wait: a single slot, the last waiter overwrites the others.
WaitInOneSlot(c, e) ==
  /\ call' = [call EXCEPT ![c] = Waiting(e, FALSE)]
  /\ ent' = [ent EXCEPT ![e].waiters = {c}]

\* waitForReady(e): register one more waiter.
Wait(c, e) ==
  /\ call' = [call EXCEPT ![c] = Waiting(e, FALSE)]
  /\ ent' = [ent EXCEPT ![e].waiters = @ \cup {c}]

\* spawn(): a new starting entry replaces whatever the key maps to.
Spawn(c) ==
  LET e == made + 1 IN
  /\ e \in Entries
  /\ made' = e /\ cur' = e
  /\ ent' = [ent EXCEPT ![e] = Forked(e, {c})]
  /\ proc' = [proc EXCEPT ![e] = "booting"]
  /\ flags' = [flags EXCEPT ![e] = {"ipc"}]
  /\ call' = [call EXCEPT ![c] = Waiting(e, TRUE)]

\* What ensure() does once tryAdopt() has answered null and the key maps to m:
\* rethrow (second attempt), join, use, refuse or fork.
Miss(c, m) ==
  \/ /\ call[c].spawned
     /\ call' = [call EXCEPT ![c] = Idle] /\ cur' = m
     /\ UNCHANGED <<made, ent, proc, flags>>
  \/ /\ ~call[c].spawned /\ Status(m) = "starting"
     /\ Wait(c, m) /\ cur' = m
     /\ UNCHANGED <<made, proc, flags>>
  \/ /\ ~call[c].spawned /\ Status(m) = "running"
     /\ call' = [call EXCEPT ![c] = Served(c)] /\ cur' = m
     /\ UNCHANGED <<made, ent, proc, flags>>
  \/ /\ ~call[c].spawned /\ Status(m) \notin {"starting", "running"} /\ BreakerOpen
     /\ call' = [call EXCEPT ![c] = Idle] /\ cur' = m
     /\ UNCHANGED <<made, ent, proc, flags>>
  \/ /\ ~call[c].spawned /\ Status(m) \notin {"starting", "running"} /\ ~BreakerOpen
     /\ Spawn(c)

\* tryAdopt() up to its first await.
BeginAdopt(c, m) ==
  \/ /\ sock = None
     /\ Miss(c, m) /\ UNCHANGED files
  \/ /\ sock # None /\ ~Alive(lock)
     /\ lock' = None /\ sock' = None
     /\ Miss(c, m)
  \/ /\ sock # None /\ Alive(lock)
     /\ call' = [call EXCEPT ![c] = At("connectProbe", c, lock)] /\ cur' = m
     /\ UNCHANGED <<made, ent, proc, flags, files>>

\* ensure(): the part before the first await.
EnsureStart(c) ==
  /\ daemon = "up" /\ call[c].pc = "idle"
  /\ calls < MaxCalls /\ calls' = calls + 1
  /\ \/ /\ Status(cur) = "running"
        /\ ent[cur].adopted => Alive(ent[cur].pid)
        /\ call' = [call EXCEPT ![c] = At("probe", c, None)]
        /\ UNCHANGED <<cur, made, ent, proc, flags, files>>
     \/ /\ Status(cur) = "running"
        /\ ent[cur].adopted /\ ~Alive(ent[cur].pid)
        /\ BeginAdopt(c, None)
     \/ /\ Status(cur) = "starting"
        /\ Wait(c, cur)
        /\ UNCHANGED <<cur, made, proc, flags, files>>
     \/ /\ Status(cur) \notin {"running", "starting"}
        /\ BeginAdopt(c, cur)
  /\ UNCHANGED <<daemon, failures, cooling, upsets>>

\* `await isSockConnectable(existing.sock)` settles.  On failure the key is
\* deleted whatever it maps to by now.
ProbeSettles(c) ==
  /\ Serving /\ call[c].pc = "probe"
  /\ \/ /\ Connectable
        /\ call' = [call EXCEPT ![c] = Served(c)]
        /\ UNCHANGED <<cur, made, ent, proc, flags, files>>
     \/ /\ ~Connectable
        /\ BeginAdopt(c, None)
  /\ UNCHANGED <<daemon, failures, cooling, upsets, calls>>

\* A failed probe in tryAdopt: SIGTERM the pid when it is still a proxy and wait
\* for it, otherwise clear the lock files at once and give up adopting.
ProbeFails(c) ==
  \/ /\ Alive(call[c].pid)
     /\ flags' = Raise(flags, {call[c].pid}, {"sigterm", "doomed"})
     /\ call' = [call EXCEPT ![c].pc = "killing"]
     /\ UNCHANGED <<cur, made, ent, proc, files>>
  \/ /\ ~Alive(call[c].pid)
     /\ lock' = None /\ sock' = None
     /\ Miss(c, cur)

\* tryAdopt: `await isSockConnectable(sockPath)` settles; on success proxy.pid is
\* read again, for the port.
ConnectProbeSettles(c) ==
  /\ Serving /\ call[c].pc = "connectProbe"
  /\ \/ /\ Connectable
        /\ call' = [call EXCEPT ![c].pc = "healthProbe", ![c].port = lock]
        /\ UNCHANGED <<cur, made, ent, proc, flags, files>>
     \/ ~Connectable /\ ProbeFails(c)
  /\ UNCHANGED <<daemon, failures, cooling, upsets, calls>>

\* tryAdopt: `await pingHealth(lockData.healthPort)` settles.  On success a new
\* entry without a child replaces whatever the key maps to by now.
HealthProbeSettles(c) ==
  /\ Serving /\ call[c].pc = "healthProbe"
  /\ \/ /\ call[c].port = None \/ Answers(call[c].port)      \* no lock file: no ping
        /\ made + 1 \in Entries
        /\ made' = made + 1 /\ cur' = made + 1
        /\ ent' = [ent EXCEPT ![made + 1] = Adopted(call[c].pid)]
        /\ failures' = 0
        /\ call' = [call EXCEPT ![c] = Served(c)]
        /\ UNCHANGED <<proc, flags, files>>
     \/ /\ call[c].port # None /\ ~Answers(call[c].port)
        /\ ProbeFails(c)
        /\ UNCHANGED failures
  /\ UNCHANGED <<daemon, cooling, upsets, calls>>

\* killProcessAndWait() returns to tryAdopt: the pid is gone.
KillDone(c) ==
  /\ Serving /\ call[c].pc = "killing" /\ ~Alive(call[c].pid)
  /\ lock' = None /\ sock' = None
  /\ Miss(c, cur)
  /\ UNCHANGED <<daemon, failures, cooling, upsets, calls>>

-----------------------------------------------------------------------------
(* Waiters, IPC messages and exits.                                          *)

\* A waiter of entry e is rejected.  A joiner's ensure() throws; the caller that
\* forked catches and enters tryAdopt() again in the same turn.
Rejected(c) ==
  IF call[c].spawned /\ sock # None /\ Alive(lock)
  THEN At("connectProbe", c, lock)
  ELSE Idle

\* That second tryAdopt() finds a dead pid behind the socket: it clears the files.
ClearsStale(W) == sock # None /\ ~Alive(lock) /\ \E c \in W : call[c].spawned

RejectWaiters(W) ==
  /\ call' = [c \in Callers |-> IF c \in W THEN Rejected(c) ELSE call[c]]
  /\ lock' = IF ClearsStale(W) THEN None ELSE lock
  /\ sock' = IF ClearsStale(W) THEN None ELSE sock

\* Mutant of LastToGiveUp: whoever times out takes the child down.
AnyGivesUp(c, e) == ent[e].status = "starting"

LastToGiveUp(c, e) == ent[e].waiters \ {c} = {} /\ ent[e].status = "starting"

\* The waiter's own 360 s timer.  The last one to give up takes the child down.
Timeout(c) ==
  LET e == call[c].on
      last == LastToGiveUp(c, e)
  IN
  /\ Serving /\ call[c].pc = "waiting"
  /\ ent' = [ent EXCEPT ![e].waiters = @ \ {c},
                        ![e].status = IF last THEN "error" ELSE @]
  /\ flags' = IF last /\ ent[e].child /\ Alive(e)
              THEN Raise(flags, {e}, {"sigterm", "killed"}) ELSE flags
  /\ RejectWaiters({c})
  /\ UNCHANGED <<daemon, cur, made, failures, cooling, proc, upsets, calls>>

\* handleChildMessage, "ready" from process p: it is applied to the entry the
\* key maps to.
HandleReady(p) ==
  /\ Serving /\ "readyMsg" \in flags[p]
  /\ flags' = Lower(flags, {p}, {"readyMsg"})
  /\ \/ /\ cur = None
        /\ UNCHANGED <<ent, failures, call>>
     \/ /\ cur # None
        /\ ent' = [ent EXCEPT ![cur].status = "running", ![cur].waiters = {}]
        /\ failures' = 0
        /\ call' = [c \in Callers |-> IF c \in ent[cur].waiters THEN Served(c)
                                      ELSE call[c]]
  /\ UNCHANGED <<daemon, cur, made, cooling, proc, files, upsets, calls>>

\* Mutants of Exited: the waiters are not woken; the dead child's handle is kept.
ExitedSilently(r) ==
  [r EXCEPT !.status = "stopped", !.child = FALSE, !.pid = None, !.conns = 0]
ExitedKeepingHandle(r) ==
  [r EXCEPT !.status = "stopped", !.conns = 0,
            !.waiters = IF r.status = "starting" THEN {} ELSE @]

\* What handleChildExit leaves of the entry.
Exited(r) ==
  [r EXCEPT !.status = "stopped", !.child = FALSE, !.pid = None, !.conns = 0,
            !.waiters = IF r.status = "starting" THEN {} ELSE @]

\* handleChildExit, for process p: applied to the entry the key maps to.  The
\* IPC pipe is drained before the exit event is delivered.
HandleExit(p) ==
  LET startup == Status(cur) = "starting" IN
  /\ Serving /\ "exitMsg" \in flags[p] /\ "readyMsg" \notin flags[p]
  /\ flags' = Lower(flags, {p}, {"exitMsg", "ipc"})
  /\ ent' = IF cur = None THEN ent ELSE [ent EXCEPT ![cur] = Exited(@)]
  /\ failures' = IF startup /\ failures < Threshold THEN failures + 1 ELSE failures
  /\ cooling' = (startup \/ cooling)
  /\ RejectWaiters(IF startup THEN ent[cur].waiters ELSE {})
  /\ UNCHANGED <<daemon, cur, made, proc, upsets, calls>>

\* The child's "error" event: fork failed.  The closure names its own entry.
ForkFails(e) ==
  /\ Serving /\ proc[e] = "booting" /\ "ipc" \in flags[e] /\ ent[e].pid = e
  /\ Upset
  /\ proc' = [proc EXCEPT ![e] = "dead"]
  /\ flags' = [flags EXCEPT ![e] = {}]
  /\ ent' = [ent EXCEPT ![e].status = "error", ![e].waiters = {}, ![e].pid = None]
  /\ RejectWaiters(ent[e].waiters)
  /\ UNCHANGED <<daemon, cur, made, failures, cooling>>

\* STARTUP_BREAKER_COOLDOWN_MS have passed since the last startup failure.
CoolDown ==
  /\ cooling /\ cooling' = FALSE
  /\ UNCHANGED <<daemon, cur, made, ent, failures, call, proc, flags, files, upsets, calls>>

-----------------------------------------------------------------------------
(* Bridges: connect, disconnect.                                             *)

\* The bridge reports `connect`, then opens the socket it was handed; when
\* nobody listens it is back to `disconnect` at once.
Connect(c) ==
  /\ Serving /\ call[c].pc = "served"
  /\ ent' = IF cur = None THEN ent ELSE [ent EXCEPT ![cur].conns = @ + 1]
  /\ call' = [call EXCEPT ![c] = IF Connectable THEN At("bridged", c, sock)
                                 ELSE At("closing", c, None)]
  /\ UNCHANGED <<daemon, cur, made, failures, cooling, proc, flags, files, upsets, calls>>

\* The proxy's socket closes, or the IDE detaches.
BridgeEnds(c) ==
  /\ call[c].pc = "bridged"
  /\ call' = [call EXCEPT ![c] = At("closing", c, None)]
  /\ UNCHANGED <<daemon, cur, made, ent, failures, cooling, proc, flags, files, upsets, calls>>

\* The counter of the entry the key maps to never goes below zero.
Counted(e) == e # None /\ ent[e].conns > 0

\* The bridge reports `disconnect`.
Disconnect(c) ==
  /\ call[c].pc = "closing"
  /\ ent' = IF Counted(cur)
            THEN [ent EXCEPT ![cur].conns = @ - 1] ELSE ent
  /\ call' = [call EXCEPT ![c] = Idle]
  /\ UNCHANGED <<daemon, cur, made, failures, cooling, proc, flags, files, upsets, calls>>

-----------------------------------------------------------------------------
(* Stopping children.                                                        *)

\* shutdownChild(e): ask, and arm the 10 s timer.
AskShutdown(f, e) ==
  IF ent[e].child /\ proc[e] # "dead"
  THEN Raise(f, {e}, {"shutdown", "killTimer"}) ELSE f

\* stop(repo): `unerr pm stop <repo>` and the removal of a repository.
Stop ==
  /\ daemon = "up" /\ Status(cur) \notin {"absent", "stopped"} /\ Upset
  /\ \/ /\ ~ent[cur].child
        /\ flags' = IF ent[cur].adopted /\ Alive(ent[cur].pid)
                    THEN Raise(flags, {ent[cur].pid}, {"sigterm"}) ELSE flags
        /\ ent' = [ent EXCEPT ![cur].status = "stopped", ![cur].pid = None,
                              ![cur].conns = 0]
     \/ /\ ent[cur].child
        /\ flags' = AskShutdown(flags, cur)
        /\ UNCHANGED ent
  /\ UNCHANGED <<daemon, cur, made, failures, cooling, call, proc, files>>

\* The 10 s timer of shutdownChild fires.
KillTimer(p) ==
  /\ Serving /\ "killTimer" \in flags[p]
  /\ \/ /\ "killed" \in flags[p] \/ ~Alive(p)
        /\ flags' = Lower(flags, {p}, {"killTimer"})
        /\ UNCHANGED proc
     \/ /\ "killed" \notin flags[p] /\ Alive(p)
        /\ proc' = [proc EXCEPT ![p] = "dead"]
        /\ flags' = Buried(flags, p)
  /\ UNCHANGED <<daemon, cur, made, ent, failures, cooling, call, files, upsets, calls>>

\* runIdleSweep: a running child of ours without connections has been idle long
\* enough (or an upgrade is pending).
IdleSweep ==
  /\ daemon = "up" /\ Status(cur) = "running" /\ Upset
  /\ ~ent[cur].adopted /\ ent[cur].conns = 0
  /\ flags' = AskShutdown(flags, cur)
  /\ UNCHANGED <<daemon, cur, made, ent, failures, cooling, call, proc, files>>

\* probeLiveness: ping the port in proxy.pid; two failures in a row recycle.
ProbeLiveness ==
  LET strikes == IF Healthy THEN 0 ELSE ent[cur].strikes + 1
      recycle == strikes >= Strikes
  IN
  /\ daemon = "up" /\ Status(cur) = "running" /\ lock # None
  /\ ~ent[cur].adopted /\ ent[cur].child
  /\ ent' = [ent EXCEPT ![cur].strikes = IF recycle THEN 0 ELSE strikes]
  /\ flags' = IF recycle THEN AskShutdown(flags, cur) ELSE flags
  /\ UNCHANGED <<daemon, cur, made, failures, cooling, call, proc, files, upsets, calls>>

\* selectDuplicateChildrenToKill: keep the lock holder, else the newest; the
\* external proxy counts as the oldest.
Survivor ==
  IF lock \in Holders THEN lock
  ELSE IF Holders \cap Entries = {} THEN External
  ELSE CHOOSE p \in Holders \cap Entries : \A q \in Holders \cap Entries : q <= p

\* Mutant of Duplicates: off by one.
TooManyDuplicates == Cardinality(Holders) > 2

Duplicates == Cardinality(Holders) >= 2

\* reapDuplicateChildren: kill every holder of graph.db but one.
Reap ==
  /\ daemon = "up" /\ Duplicates
  /\ flags' = Raise(flags, Holders \ {Survivor}, {"sigterm", "doomed"})
  /\ UNCHANGED <<daemon, cur, made, ent, failures, cooling, call, proc, files, upsets, calls>>

TrackedPid == IF cur # None /\ ent[cur].status # "stopped" THEN ent[cur].pid ELSE None
TrackedChild == cur # None /\ ent[cur].status # "stopped" /\ ent[cur].child

\* Mutant of KilledByPid: proxies without an IPC handle are left alone.
NoneKilledByPid == {}

\* The pids shutdownAll terminates itself: an adopted proxy, and the one named by
\* proxy.pid unless it is the child that was asked.
KilledByPid ==
  {p \in {TrackedPid, lock} : Alive(p)} \ (IF TrackedChild THEN {TrackedPid} ELSE {})

\* What shutdownAll() does to every proxy before its first await.
Told ==
  LET asked == IF TrackedChild
               THEN Raise(AskShutdown(flags, cur), {cur}, {"awaited"}) ELSE flags
      killed == Raise(asked, KilledByPid, {"sigterm", "doomed", "awaited"})
      swept == Raise(killed, KilledByPid \ {TrackedPid}, {"swept"})
  IN Raise(swept, {p \in Procs \ {TrackedPid, lock} : Alive(p) /\ "ipc" \notin flags[p]},
           {"overlooked"})

\* shutdownAll(), synchronous part.
ShutdownAll ==
  /\ daemon = "up" /\ daemon' = "stopping" /\ Upset
  /\ flags' = Told
  /\ UNCHANGED <<cur, made, ent, failures, cooling, call, proc, files>>

\* The proxy that only proxy.pid named is gone: shutdownAll() clears its files.
SweepClears(p) ==
  /\ daemon = "stopping" /\ "swept" \in flags[p] /\ ~Alive(p)
  /\ flags' = Lower(flags, {p}, {"swept"})
  /\ lock' = None /\ sock' = None
  /\ UNCHANGED <<daemon, cur, made, ent, failures, cooling, call, proc, upsets, calls>>

\* The calls that die with the daemon: a bridge keeps its own socket.
Orphaned == [c \in Callers |-> IF call[c].pc \in {"bridged", "closing", "idle"}
                                THEN call[c] ELSE Idle]
\* The end of the daemon closes every child's IPC channel.  What is known
\* of the stop is kept for StopLeavesNone.
Cut == [p \in Procs |-> IF ~Alive(p) THEN {} ELSE
                         (flags[p] \cap {"frozen", "sigterm", "awaited", "killed", "overlooked"})
                           \cup (IF "ipc" \in flags[p] THEN {"sigterm"} ELSE {})]

\* A promise of shutdownAll() about p has not settled yet.
Pending(p) ==
  IF Alive(p) THEN "awaited" \in flags[p] /\ flags[p] \cap {"killTimer", "doomed"} # {}
              ELSE "swept" \in flags[p]

\* Every promise of shutdownAll has settled: process.exit(0).
DaemonExit ==
  /\ daemon = "stopping" /\ daemon' = "gone"
  /\ \A p \in Procs : ~Pending(p)
  /\ flags' = Cut /\ call' = Orphaned
  /\ ent' = [e \in Entries |-> Unused] /\ cur' = None
  /\ failures' = 0 /\ cooling' = FALSE
  /\ UNCHANGED <<made, proc, files, upsets, calls>>

\* unerrd crashes and a bridge starts the next one, with an empty map.
Restart ==
  /\ daemon = "up" /\ Upset
  /\ flags' = Cut /\ call' = Orphaned
  /\ ent' = [e \in Entries |-> Unused] /\ cur' = None
  /\ failures' = 0 /\ cooling' = FALSE
  /\ UNCHANGED <<daemon, made, proc, files>>

-----------------------------------------------------------------------------
(* The proxies: boot, heartbeat, exit, faults.                               *)

daemonVars == <<daemon, cur, made, ent, failures, cooling, call>>

\* PidLock.acquire at boot (module PidLock has its steps): a healthy holder makes
\* the newcomer exit(0), a wedged one is killed, a dead one is replaced.
Lock(p) ==
  /\ proc[p] = "booting" /\ "frozen" \notin flags[p]
  /\ \/ /\ ~Alive(lock)
        /\ proc' = [proc EXCEPT ![p] = "locked"] /\ lock' = p
        /\ UNCHANGED flags
     \/ /\ Alive(lock) /\ ~Healthy
        /\ proc' = [proc EXCEPT ![p] = "locked", ![lock] = "dead"] /\ lock' = p
        /\ flags' = Buried(flags, lock)
     \/ /\ Healthy
        /\ proc' = [proc EXCEPT ![p] = "dead"]
        /\ flags' = Buried(flags, p)
        /\ UNCHANGED lock
  /\ UNCHANGED <<daemonVars, sock, upsets, calls>>

\* UdsTransport.start: unlink whatever is at the path, then listen.
Listen(p) ==
  /\ proc[p] = "locked" /\ Awake(p)
  /\ proc' = [proc EXCEPT ![p] = "up"] /\ sock' = p
  /\ UNCHANGED <<daemonVars, flags, lock, upsets, calls>>

\* onDaemonReady: "ready" goes out once.
SendReady(p) ==
  /\ proc[p] = "up" /\ Awake(p)
  /\ proc' = [proc EXCEPT ![p] = "ready"]
  /\ flags' = IF "ipc" \in flags[p] THEN Raise(flags, {p}, {"readyMsg"}) ELSE flags
  /\ UNCHANGED <<daemonVars, files, upsets, calls>>

\* The 10 s heartbeat rewrites proxy.pid, whoever it names.
Heartbeat(p) ==
  /\ proc[p] \in Open /\ Awake(p) /\ lock # p
  /\ lock' = p
  /\ UNCHANGED <<daemonVars, proc, flags, sock, upsets, calls>>

\* A proxy that is ready flushes before it exits; the socket goes first.
Leave(p) ==
  /\ proc[p] = "ready" /\ Awake(p) /\ flags[p] \cap {"sigterm", "shutdown"} # {}
  /\ proc' = [proc EXCEPT ![p] = "leaving"] /\ sock' = None
  /\ UNCHANGED <<daemonVars, flags, lock, upsets, calls>>

\* process.exit: the exit handler of a proxy that had the lock removes proxy.pid,
\* whoever it names.  A proxy still booting knows SIGTERM only.
Exit(p) ==
  /\ Awake(p)
  /\ proc[p] = "leaving" \/ (proc[p] # "ready" /\ "sigterm" \in flags[p])
  /\ proc' = [proc EXCEPT ![p] = "dead"]
  /\ flags' = Buried(flags, p)
  /\ lock' = IF proc[p] \in Open THEN None ELSE lock
  /\ UNCHANGED <<daemonVars, sock, upsets, calls>>

\* Mutant of SigKill: SIGTERM is never escalated.
SigKillNever(p) == FALSE /\ p \in Procs /\ UNCHANGED vars

\* killProcessAndWait runs out of patience: SIGKILL.
SigKill(p) ==
  /\ Serving /\ Alive(p) /\ "doomed" \in flags[p]
  /\ proc' = [proc EXCEPT ![p] = "dead"]
  /\ flags' = Buried(flags, p)
  /\ UNCHANGED <<daemonVars, files, upsets, calls>>

\* A proxy dies on its own (kill -9, out of memory): both files stay.
Crash(p) ==
  /\ Alive(p) /\ Upset
  /\ proc' = [proc EXCEPT ![p] = "dead"]
  /\ flags' = Buried(flags, p)
  /\ UNCHANGED <<daemonVars, files>>

\* The event loop of a proxy blocks, for a while or for good.
Freeze(p) ==
  /\ proc[p] \in Open /\ Awake(p) /\ Upset
  /\ flags' = Raise(flags, {p}, {"frozen"})
  /\ UNCHANGED <<daemonVars, proc, files>>

Thaw(p) ==
  /\ Alive(p) /\ "frozen" \in flags[p]
  /\ flags' = Lower(flags, {p}, {"frozen"})
  /\ UNCHANGED <<daemonVars, proc, files, upsets, calls>>

\* The bounds are spent and nothing is left to do.
Rest == daemon = "gone" /\ UNCHANGED vars

-----------------------------------------------------------------------------

EnsureStep(c) ==
  \/ EnsureStart(c) \/ ProbeSettles(c) \/ ConnectProbeSettles(c)
  \/ HealthProbeSettles(c) \/ KillDone(c) \/ Timeout(c)

BridgeStep(c) == Connect(c) \/ BridgeEnds(c) \/ Disconnect(c)

ProxyStep(p) ==
  \/ Lock(p) \/ Listen(p) \/ SendReady(p) \/ Heartbeat(p) \/ Leave(p)
  \/ Exit(p) \/ SigKill(p) \/ Crash(p) \/ Freeze(p) \/ Thaw(p)

DaemonStep ==
  \/ \E p \in Procs : HandleReady(p) \/ HandleExit(p) \/ KillTimer(p) \/ SweepClears(p)
  \/ \E e \in Entries : ForkFails(e)
  \/ CoolDown \/ Stop \/ IdleSweep \/ ProbeLiveness \/ Reap
  \/ ShutdownAll \/ DaemonExit \/ Restart

Next ==
  \/ \E c \in Callers : EnsureStep(c) \/ BridgeStep(c)
  \/ \E p \in Procs : ProxyStep(p)
  \/ DaemonStep
  \/ Rest

Spec == Init /\ [][Next]_vars

\* The call of c goes on: what it awaits settles, or its timer fires.
CallGoesOn(c) ==
  \/ ProbeSettles(c) \/ ConnectProbeSettles(c) \/ HealthProbeSettles(c)
  \/ KillDone(c) \/ Timeout(c)

\* A proxy takes its next step of boot or exit.
ProxyGoesOn(p) == Lock(p) \/ Listen(p) \/ SendReady(p) \/ Leave(p) \/ Exit(p)

\* What the event loop, the timers and a proxy that is not frozen must do; no
\* fairness for calls, faults, thawing, operators or the idle sweep.  That some
\* proxy goes on, some message arrives and some kill loop ends asks less than that
\* each does, and is enough, for each has a bounded number of them before it.
Fairness ==
  /\ \A c \in Callers : WF_vars(CallGoesOn(c))
  /\ WF_vars(\E p \in Procs : ProxyGoesOn(p))
  /\ WF_vars(\E p \in Procs : HandleReady(p) \/ HandleExit(p))
  /\ WF_vars(\E p \in Procs : KillTimer(p))
  /\ WF_vars(\E p \in Procs : SigKill(p) \/ SweepClears(p))
  /\ WF_vars(ProbeLiveness) /\ WF_vars(Reap) /\ WF_vars(DaemonExit)

FairSpec == Spec /\ Fairness

-----------------------------------------------------------------------------
(* Properties.                                                               *)

\* An entry that has left "starting" owes nobody an answer: whatever ended its
\* startup (ready, exit, error, the last timeout) woke every waiter.
SettledOwesNobody ==
  \A e \in Entries : ent[e].status # "starting" => ent[e].waiters = {}

\* A caller blocked in waitForReady is registered on exactly the entry it waits
\* on, and nobody else is registered anywhere.
WaitersAreRegistered ==
  \A c \in Callers, e \in Entries :
    c \in ent[e].waiters <=> (call[c].pc = "waiting" /\ call[c].on = e)

\* A startup the key maps to can still be settled by its own child, and a child handle
\* with a pid is not dangling, whatever was displaced meanwhile: the child lives, or its
\* exit is on the way.
EntryIsBacked ==
  Status(cur) = "starting" \/ (cur # None /\ ent[cur].child /\ ent[cur].pid # None)
    => Alive(cur) \/ "exitMsg" \in flags[cur]

\* readyWaiters are only given up on one by one: a starting child is sent SIGTERM
\* by the ready timeout when no session waits on its entry any more.
OnlyLastWaiterKills ==
  [][\A e \in Entries :
       "killed" \notin flags[e] /\ "killed" \in flags'[e]
         => \A c \in Callers : call'[c].pc = "waiting" => call'[c].on # e]_vars

\* Every ensure() call is answered, whatever fails meanwhile: none stays open for ever.
EnsureAnswered ==
  \A c \in Callers :
    []<>(call[c].pc \notin {"probe", "connectProbe", "healthProbe", "killing", "waiting"})

\* Two writers of one graph.db do not last while the daemon is up.
DuplicatesReaped == []<>(Cardinality(Holders) <= 1 \/ daemon # "up")

\* The proxies that unerr pm stop cannot end: those it knows nothing of, and those with
\* a blocked event loop that are no entry's any more, or whose handle has delivered a
\* signal before.
Spared == {p \in Procs : \/ "overlooked" \in flags[p]
                         \/ "frozen" \in flags[p]
                            /\ ("awaited" \notin flags[p] \/ "killed" \in flags[p])}

\* unerr pm stop leaves no repository proxy behind but those, whatever crashed, blocked
\* or failed to start before or meanwhile.
StopLeavesNone ==
  []<>(daemon = "gone" => \A p \in Procs : Alive(p) => p \in Spared)

=============================================================================
