----------------------- MODULE ProcessManager_proofs -----------------------
(* No ensure() call is forgotten: proofs about ProcessManager for any number of
   callers and entries.                                                      *)
EXTENDS ProcessManager, TLAPS

\* An entry that is still starting has its child handle: spawn() sets both in one
\* turn and only an exit takes the handle away.
StartingHasChild ==
  \A e \in Entries : ent[e].status = "starting" => ent[e].child

\* An entry the daemon has not created yet is blank.
FreshIsUnused ==
  \A e \in Entries : e > made => ent[e] = Unused

\* The key maps to an entry that exists.
CurrentIsMade == cur = None \/ cur \in 1..made

\* The inductive invariant.
IInv ==
  /\ TypeOK
  /\ WaitersAreRegistered
  /\ SettledOwesNobody
  /\ StartingHasChild
  /\ FreshIsUnused
  /\ CurrentIsMade

-----------------------------------------------------------------------------

LEMMA UnusedType == Unused \in EntryRecord
  BY DEF Unused, EntryRecord, Strikes

LEMMA IdleType == Idle \in CallRecord
  BY DEF Idle, CallRecord, Stations

LEMMA ServedType == ASSUME NEW c \in Callers PROVE Served(c) \in CallRecord /\ Served(c).pc # "waiting"
  BY DEF Served, Idle, CallRecord, Stations

LEMMA RaiseType ==
  ASSUME NEW f \in [Procs -> SUBSET Flags], NEW P, NEW new \in SUBSET Flags
  PROVE  Raise(f, P, new) \in [Procs -> SUBSET Flags]
  BY DEF Raise

LEMMA LowerType ==
  ASSUME NEW f \in [Procs -> SUBSET Flags], NEW P, NEW old
  PROVE  Lower(f, P, old) \in [Procs -> SUBSET Flags]
  BY DEF Lower

LEMMA BuriedType ==
  ASSUME NEW f \in [Procs -> SUBSET Flags], NEW p \in Procs
  PROVE  Buried(f, p) \in [Procs -> SUBSET Flags]
  BY DEF Buried, Flags

LEMMA AskShutdownType ==
  ASSUME NEW f \in [Procs -> SUBSET Flags], NEW e
  PROVE  AskShutdown(f, e) \in [Procs -> SUBSET Flags]
  BY RaiseType DEF AskShutdown, Flags

LEMMA CutType ==
  ASSUME flags \in [Procs -> SUBSET Flags]
  PROVE  Cut \in [Procs -> SUBSET Flags]
  BY DEF Cut, Flags

\* What shutdownAll() raises before its first await.
LEMMA ToldGrows ==
  ASSUME TypeOK
  PROVE  /\ Told \in [Procs -> SUBSET Flags]
         /\ \A q \in Procs : /\ flags[q] \subseteq Told[q]
                             /\ "killed" \in Told[q] => "killed" \in flags[q]
<1> DEFINE asked == IF TrackedChild
                    THEN Raise(AskShutdown(flags, cur), {cur}, {"awaited"}) ELSE flags
           killed == Raise(asked, KilledByPid, {"sigterm", "doomed", "awaited"})
           swept == Raise(killed, KilledByPid \ {TrackedPid}, {"swept"})
           rest == {p \in Procs \ {TrackedPid, lock} : Alive(p) /\ "ipc" \notin flags[p]}
           Grown(f) == /\ f \in [Procs -> SUBSET Flags]
                       /\ \A q \in Procs : /\ flags[q] \subseteq f[q]
                                           /\ "killed" \in f[q] => "killed" \in flags[q]
<1>1. ASSUME NEW f, Grown(f), NEW P, NEW new \in SUBSET Flags, "killed" \notin new
      PROVE  Grown(Raise(f, P, new))
  <2>1. Raise(f, P, new) \in [Procs -> SUBSET Flags]
    BY <1>1, RaiseType
  <2>2. \A q \in Procs : Raise(f, P, new)[q] = f[q] \/ Raise(f, P, new)[q] = f[q] \cup new
    BY DEF Raise
  <2> QED
    BY <1>1, <2>1, <2>2
<1>2. Grown(flags)
  BY DEF TypeOK
<1>3. /\ {"shutdown", "killTimer"} \in SUBSET Flags /\ {"awaited"} \in SUBSET Flags
      /\ {"sigterm", "doomed", "awaited"} \in SUBSET Flags
      /\ {"swept"} \in SUBSET Flags /\ {"overlooked"} \in SUBSET Flags
  BY DEF Flags
<1> HIDE DEF Grown
<1>4. Grown(AskShutdown(flags, cur))
  BY <1>1, <1>2, <1>3 DEF AskShutdown
<1>5. Grown(asked)
  BY <1>1, <1>2, <1>3, <1>4
<1> HIDE DEF asked
<1>6. Grown(killed)
  BY <1>1, <1>3, <1>5
<1> HIDE DEF killed
<1>7. Grown(swept)
  BY <1>1, <1>3, <1>6
<1> HIDE DEF swept
<1>8. Grown(Raise(swept, rest, {"overlooked"}))
  BY <1>1, <1>3, <1>7
<1>9. Told = Raise(swept, rest, {"overlooked"})
  BY DEF Told, swept, killed, asked
<1> QED
  BY <1>8, <1>9 DEF Grown

\* The processes are the entries' children and one more.
LEMMA ProcsType == Entries \subseteq Procs /\ None \notin Procs /\ External \in Procs
  BY ConstantsAssumption DEF Procs, Entries

\* The entries made so far are within the bound.
LEMMA MadeIsEntry ==
  ASSUME TypeOK, NEW m, m = None \/ m \in 1..made
  PROVE  m \in Entries \cup {None}
  BY BoundsAssumption DEF TypeOK, Entries

-----------------------------------------------------------------------------

LEMMA InitEstablishes == Init => IInv
<1> SUFFICES ASSUME Init PROVE IInv
  OBVIOUS
<1>1. PICK s \in Leftovers :
        LET found == CASE s = "none" -> {} [] s = "crashed" -> {1} [] s = "two" -> {1, External}
                       [] OTHER -> {External}
        IN
        /\ made = IF 1 \in found THEN 1 ELSE 0
        /\ cur = IF s = "crashed" THEN 1 ELSE None
        /\ ent = [e \in Entries |-> IF e = cur THEN Running(e) ELSE Unused]
        /\ proc = [p \in Procs |-> IF p \notin found THEN "none"
                                   ELSE IF s \in {"dead", "crashed"} THEN "dead" ELSE "ready"]
        /\ flags = [p \in Procs |-> IF p = cur THEN {"ipc", "exitMsg"} ELSE {}]
        /\ IF s = "none" THEN lock = None /\ sock = None
                         ELSE lock \in found /\ sock \in found
        /\ upsets = IF s = "crashed" /\ MaxUpsets > 0 THEN 1 ELSE 0
  BY Zenon DEF Init
<1> DEFINE found == CASE s = "none" -> {} [] s = "crashed" -> {1} [] s = "two" -> {1, External}
                      [] OTHER -> {External}
<1>2. found \subseteq Procs /\ 1 \in Entries /\ External # 1
  BY BoundsAssumption, ConstantsAssumption, ProcsType DEF Entries
<1>3. /\ made = IF 1 \in found THEN 1 ELSE 0
      /\ proc = [p \in Procs |-> IF p \notin found THEN "none"
                                 ELSE IF s \in {"dead", "crashed"} THEN "dead" ELSE "ready"]
      /\ IF s = "none" THEN lock = None /\ sock = None
                       ELSE lock \in found /\ sock \in found
  BY <1>1
<1>4. s = "crashed" => found = {1}
  OBVIOUS
<1> HIDE DEF found
<1>5. TypeOK
  <2>1. \A e \in Entries : Running(e) \in EntryRecord /\ Unused \in EntryRecord
    BY UnusedType, ProcsType DEF Running, Forked, Unused, EntryRecord
  <2>2. ent \in [Entries -> EntryRecord] /\ call \in [Callers -> CallRecord]
    BY <1>1, <2>1, IdleType DEF Init
  <2>3. cur \in Entries \cup {None} /\ made \in 0..MaxEntries
    BY <1>1, <1>2, <1>3, BoundsAssumption
  <2>4. failures \in 0..Threshold /\ upsets \in 0..MaxUpsets /\ calls \in 0..MaxCalls
    BY <1>1, BoundsAssumption, ThresholdAssumption DEF Init
  <2>5. lock \in Procs \cup {None} /\ sock \in Procs \cup {None}
    BY <1>2, <1>3
  <2>6. proc \in [Procs -> Stages]
    BY <1>3 DEF Stages
  <2>7. flags \in [Procs -> SUBSET Flags]
    BY <1>1 DEF Flags
  <2> QED
    BY <2>2, <2>3, <2>4, <2>5, <2>6, <2>7 DEF Init, TypeOK
<1>6. \A e \in Entries : /\ ent[e].waiters = {} /\ ent[e].status # "starting"
                         /\ e > made => ent[e] = Unused
  <2>1. CASE s = "crashed"
    <3>1. cur = 1 /\ made = 1
      BY <1>1, <1>3, <1>4, <2>1
    <3>2. Running(1).waiters = {} /\ Running(1).status = "running"
      BY DEF Running, Forked, Unused
    <3>3. \A e \in Entries : ent[e] = IF e = 1 THEN Running(1) ELSE Unused
      BY <1>1, <3>1
    <3>4. \A e \in Entries : e > made => e # 1
      BY <3>1 DEF Entries
    <3>5. Unused.waiters = {} /\ Unused.status = "unused"
      BY DEF Unused
    <3> QED
      BY <3>2, <3>3, <3>4, <3>5
  <2>2. CASE s # "crashed"
    <3>1. cur = None /\ None \notin Entries
      BY <1>1, <2>2, ProcsType
    <3> QED
      BY <1>1, <3>1 DEF Unused
  <2> QED
    BY <2>1, <2>2
<1>7. /\ WaitersAreRegistered /\ SettledOwesNobody /\ StartingHasChild
      /\ FreshIsUnused
  BY <1>6 DEF Init, WaitersAreRegistered, SettledOwesNobody, StartingHasChild,
         FreshIsUnused, Idle
<1>8. CurrentIsMade
  BY <1>1, <1>3, <1>4 DEF CurrentIsMade
<1> QED
  BY <1>5, <1>7, <1>8 DEF IInv

\* A step that leaves the entries and the calls alone only has types to keep.
LEMMA FrameKeeps ==
  ASSUME IInv, TypeOK', UNCHANGED <<cur, made, ent, call>>
  PROVE  IInv'
  BY DEF IInv, WaitersAreRegistered, SettledOwesNobody, StartingHasChild,
         FreshIsUnused, CurrentIsMade, Unused

-----------------------------------------------------------------------------
(* The sub-actions of ensure().                                              *)

\* A caller that waits nowhere becomes a waiter of a starting entry.
LEMMA WaitKeeps ==
  ASSUME IInv, NEW c \in Callers, call[c].pc # "waiting",
         NEW e \in Entries, ent[e].status = "starting",
         Wait(c, e), UNCHANGED <<daemon, made, failures, cooling, upsets, proc, flags>>,
         calls' \in 0..MaxCalls,
         cur' = None \/ cur' \in 1..made, lock' \in Procs \cup {None},
         sock' \in Procs \cup {None}
  PROVE  IInv'
<1> USE DEF IInv
<1>1. TypeOK'
  <2>1. ent' \in [Entries -> EntryRecord]
    BY DEF TypeOK, Wait, EntryRecord
  <2>2. call' \in [Callers -> CallRecord]
    BY DEF TypeOK, Wait, Waiting, Idle, CallRecord, Stations
  <2>3. cur' \in Entries \cup {None}
    BY MadeIsEntry
  <2> QED
    BY <2>1, <2>2, <2>3 DEF TypeOK
<1>2. WaitersAreRegistered'
  BY DEF TypeOK, Wait, Waiting, EntryRecord, WaitersAreRegistered
<1>3. SettledOwesNobody' /\ StartingHasChild'
  BY DEF TypeOK, Wait, EntryRecord, SettledOwesNobody, StartingHasChild
<1>4. FreshIsUnused'
  <2>1. e <= made
    BY DEF TypeOK, FreshIsUnused, Unused, Entries
  <2> QED
    BY <2>1 DEF TypeOK, Wait, FreshIsUnused, Entries
<1> QED
  BY <1>1, <1>2, <1>3, <1>4 DEF CurrentIsMade

\* A caller that waits nowhere goes on to a place where it does not wait either.
LEMMA MoveKeeps ==
  ASSUME IInv, NEW c \in Callers, call[c].pc # "waiting",
         NEW r \in CallRecord, r.pc # "waiting",
         call' = [call EXCEPT ![c] = r],
         UNCHANGED <<made, ent>>, cur' = None \/ cur' \in 1..made, TypeOK'
  PROVE  IInv'
<1> USE DEF IInv
<1>2. WaitersAreRegistered'
  BY DEF TypeOK, EntryRecord, CallRecord, WaitersAreRegistered
<1>3. SettledOwesNobody' /\ StartingHasChild' /\ FreshIsUnused'
  BY DEF SettledOwesNobody, StartingHasChild, FreshIsUnused, Unused
<1> QED
  BY <1>2, <1>3 DEF CurrentIsMade

\* A fresh entry with no waiter but c, and c waiting on it (or on nothing).
LEMMA SpawnKeeps ==
  ASSUME IInv, NEW c \in Callers, call[c].pc # "waiting", Spawn(c),
         UNCHANGED <<daemon, failures, cooling, upsets>>, calls' \in 0..MaxCalls,
         lock' \in Procs \cup {None}, sock' \in Procs \cup {None}
  PROVE  IInv'
<1> USE DEF IInv
<1> DEFINE e == made + 1
<1>0. e \in Entries /\ ent[e] = Unused /\ made \in 0..MaxEntries /\ e > made
  BY BoundsAssumption DEF Spawn, TypeOK, FreshIsUnused, Entries
<1>a. Forked(e, {c}) \in EntryRecord
  BY <1>0, ProcsType, UnusedType DEF Forked, Unused, EntryRecord
<1>b. /\ made' = e /\ cur' = e
      /\ ent' = [ent EXCEPT ![e] = Forked(e, {c})]
      /\ proc' = [proc EXCEPT ![e] = "booting"]
      /\ flags' = [flags EXCEPT ![e] = {"ipc"}]
      /\ call' = [call EXCEPT ![c] = Waiting(e, TRUE)]
  BY DEF Spawn
<1> HIDE DEF e
<1>1. TypeOK'
  <2>1. made' \in 0..MaxEntries /\ cur' \in Entries \cup {None}
    BY <1>0, <1>b DEF Entries
  <2>2. ent' \in [Entries -> EntryRecord]
    BY <1>0, <1>a, <1>b DEF TypeOK
  <2>3. call' \in [Callers -> CallRecord]
    BY <1>0, <1>b, ProcsType DEF TypeOK, Waiting, Idle, CallRecord, Stations
  <2>4. proc' \in [Procs -> Stages] /\ flags' \in [Procs -> SUBSET Flags]
    BY <1>0, <1>b, ProcsType DEF TypeOK, Stages, Flags
  <2> QED
    BY <2>1, <2>2, <2>3, <2>4 DEF TypeOK
<1>2. WaitersAreRegistered'
  <2> SUFFICES ASSUME NEW d \in Callers, NEW g \in Entries
               PROVE  d \in ent'[g].waiters <=> (call'[d].pc = "waiting" /\ call'[d].on = g)
    BY DEF WaitersAreRegistered
  <2>1. CASE g = e
    BY <1>0, <1>b, <2>1 DEF TypeOK, WaitersAreRegistered, Forked, Waiting, Unused, EntryRecord
  <2>2. CASE g # e
    BY <1>0, <1>b, <2>2 DEF TypeOK, WaitersAreRegistered, Waiting, EntryRecord
  <2> QED
    BY <2>1, <2>2
<1>3. SettledOwesNobody' /\ StartingHasChild'
  BY <1>0, <1>b DEF TypeOK, Forked, Unused, EntryRecord, SettledOwesNobody, StartingHasChild
<1>4. FreshIsUnused' /\ CurrentIsMade'
  BY <1>0, <1>b DEF TypeOK, FreshIsUnused, CurrentIsMade, Entries
<1> QED
  BY <1>1, <1>2, <1>3, <1>4

\* All the ways on from an answer null of tryAdopt().
LEMMA MissKeeps ==
  ASSUME IInv, NEW c \in Callers, call[c].pc # "waiting",
         NEW m, m = None \/ m \in 1..made, Miss(c, m),
         UNCHANGED <<daemon, failures, cooling, upsets>>, calls' \in 0..MaxCalls,
         lock' \in Procs \cup {None}, sock' \in Procs \cup {None}
  PROVE  IInv'
<1> DEFINE Move(r) == /\ r \in CallRecord /\ r.pc # "waiting"
                      /\ call' = [call EXCEPT ![c] = r] /\ cur' = m
                      /\ UNCHANGED <<made, ent, proc, flags>>
<1>1. ASSUME NEW r, Move(r) PROVE IInv'
  <2>0. m \in Entries \cup {None}
    BY MadeIsEntry DEF IInv
  <2>1. TypeOK'
    BY <1>1, <2>0 DEF IInv, TypeOK
  <2> QED
    BY <1>1, <2>1, MoveKeeps
<1> DEFINE Join == /\ Status(m) = "starting" /\ Wait(c, m) /\ cur' = m
                   /\ UNCHANGED <<made, proc, flags>>
<1>2. CASE Join
  <2>1. m \in Entries /\ ent[m].status = "starting"
    BY <1>2, MadeIsEntry DEF Status, IInv
  <2> QED
    BY <1>2, <2>1, WaitKeeps
<1>3. CASE Spawn(c)
  BY <1>3, SpawnKeeps
<1>4. Idle.pc # "waiting" /\ Idle \in CallRecord
  BY IdleType DEF Idle
<1>5. Move(Idle) \/ Move(Served(c)) \/ Join \/ Spawn(c)
  BY <1>4, ServedType DEF Miss
<1> QED
  BY <1>1, <1>2, <1>3, <1>5

\* tryAdopt() up to its first await.
LEMMA BeginAdoptKeeps ==
  ASSUME IInv, NEW c \in Callers, call[c].pc # "waiting",
         NEW m, m = None \/ m \in 1..made, BeginAdopt(c, m),
         UNCHANGED <<daemon, failures, cooling, upsets>>, calls' \in 0..MaxCalls
  PROVE  IInv'
<1>1. CASE Miss(c, m) /\ UNCHANGED files
  BY <1>1, MissKeeps DEF files, IInv, TypeOK
<1>2. CASE Miss(c, m) /\ lock' = None /\ sock' = None
  BY <1>2, MissKeeps
<1>3. CASE /\ Alive(lock)
           /\ call' = [call EXCEPT ![c] = At("connectProbe", c, lock)] /\ cur' = m
           /\ UNCHANGED <<made, ent, proc, flags, files>>
  <2>1. /\ At("connectProbe", c, lock) \in CallRecord
        /\ At("connectProbe", c, lock).pc # "waiting"
    BY DEF At, IInv, TypeOK, CallRecord, Stations
  <2>0. m \in Entries \cup {None}
    BY MadeIsEntry DEF IInv
  <2>2. TypeOK'
    BY <1>3, <2>0, <2>1 DEF IInv, TypeOK, files
  <2> QED
    BY <1>3, <2>1, <2>2, MoveKeeps
<1> QED
  BY <1>1, <1>2, <1>3 DEF BeginAdopt

LEMMA ProbeFailsKeeps ==
  ASSUME IInv, NEW c \in Callers, call[c].pc # "waiting", ProbeFails(c),
         UNCHANGED <<daemon, failures, cooling, upsets>>, calls' \in 0..MaxCalls
  PROVE  IInv'
<1>1. CASE /\ flags' = Raise(flags, {call[c].pid}, {"sigterm", "doomed"})
           /\ call' = [call EXCEPT ![c].pc = "killing"]
           /\ UNCHANGED <<cur, made, ent, proc, files>>
  <2> DEFINE r == [call[c] EXCEPT !.pc = "killing"]
  <2>1. r \in CallRecord /\ r.pc # "waiting" /\ call' = [call EXCEPT ![c] = r]
    BY <1>1 DEF IInv, TypeOK, CallRecord, Stations
  <2>2. flags' \in [Procs -> SUBSET Flags]
    BY <1>1, RaiseType DEF IInv, TypeOK, Flags
  <2>3. TypeOK'
    BY <1>1, <2>1, <2>2 DEF IInv, TypeOK, files
  <2> QED
    BY <1>1, <2>1, <2>3, MoveKeeps DEF IInv, CurrentIsMade
<1>2. CASE Miss(c, cur) /\ lock' = None /\ sock' = None
  BY <1>2, MissKeeps DEF IInv, CurrentIsMade
<1> QED
  BY <1>1, <1>2 DEF ProbeFails

-----------------------------------------------------------------------------
(* One lemma per kind of step.                                               *)

\* The steps of ensure() and tryAdopt().
LEMMA EnsureKeeps ==
  ASSUME IInv, NEW c \in Callers,
         EnsureStart(c) \/ ProbeSettles(c) \/ ConnectProbeSettles(c)
           \/ HealthProbeSettles(c) \/ KillDone(c)
  PROVE  IInv'
<1> USE DEF IInv
<1>0. cur = None \/ cur \in 1..made
  BY DEF CurrentIsMade
<1> DEFINE Move(r) == /\ r \in CallRecord /\ r.pc # "waiting"
                      /\ call' = [call EXCEPT ![c] = r]
                      /\ UNCHANGED <<daemon, cur, made, ent, failures, cooling,
                                     proc, flags, files, upsets>>
                      /\ calls' \in 0..MaxCalls
<1>m. ASSUME NEW r, Move(r), call[c].pc # "waiting" PROVE IInv'
  <2>1. TypeOK'
    BY <1>m DEF TypeOK, files
  <2> QED
    BY <1>m, <1>0, <2>1, MoveKeeps
<1>t. /\ \A st \in {"probe", "connectProbe", "healthProbe"} :
           \A p \in Procs \cup {None} : /\ At(st, c, p) \in CallRecord
                                      /\ At(st, c, p).pc # "waiting"
      /\ Served(c) \in CallRecord /\ Served(c).pc # "waiting"
  BY ServedType DEF At, TypeOK, CallRecord, Stations
<1>k. calls \in 0..MaxCalls /\ MaxCalls \in Nat
  BY BoundsAssumption DEF TypeOK
<1>1. CASE EnsureStart(c)
  <2>0. calls' \in 0..MaxCalls
    BY <1>1, <1>k DEF EnsureStart
  <2>1. CASE call' = [call EXCEPT ![c] = At("probe", c, None)]
             /\ UNCHANGED <<cur, made, ent, proc, flags, files>>
    <3>1. Move(At("probe", c, None))
      BY <1>1, <2>0, <2>1, <1>t DEF EnsureStart
    <3> QED
      BY <3>1, <1>m, <1>1 DEF EnsureStart
  <2>2. CASE BeginAdopt(c, None)
    BY <2>0, <1>1, <2>2, BeginAdoptKeeps DEF EnsureStart
  <2>3. CASE Status(cur) = "starting" /\ Wait(c, cur)
             /\ UNCHANGED <<cur, made, proc, flags, files>>
    <3>1. cur \in Entries /\ ent[cur].status = "starting"
      BY <2>3, <1>0 DEF Status, TypeOK, Entries
    <3> QED
      BY <2>0, <1>0, <1>1, <2>3, <3>1, WaitKeeps DEF EnsureStart, TypeOK, files
  <2>4. CASE BeginAdopt(c, cur)
    BY <2>0, <1>1, <2>4, <1>0, BeginAdoptKeeps DEF EnsureStart
  <2> QED
    BY <1>1, <2>1, <2>2, <2>3, <2>4 DEF EnsureStart
<1>2. CASE ProbeSettles(c)
  <2>1. CASE call' = [call EXCEPT ![c] = Served(c)]
             /\ UNCHANGED <<cur, made, ent, proc, flags, files>>
    <3>1. Move(Served(c))
      BY <1>k, <1>2, <2>1, <1>t DEF ProbeSettles
    <3> QED
      BY <3>1, <1>m, <1>2 DEF ProbeSettles
  <2>2. CASE BeginAdopt(c, None)
    BY <1>k, <1>2, <2>2, BeginAdoptKeeps DEF ProbeSettles
  <2> QED
    BY <1>2, <2>1, <2>2 DEF ProbeSettles
<1>3. CASE ConnectProbeSettles(c)
  <2>1. CASE call' = [call EXCEPT ![c].pc = "healthProbe", ![c].port = lock]
             /\ UNCHANGED <<cur, made, ent, proc, flags, files>>
    <3> DEFINE r == [call[c] EXCEPT !.pc = "healthProbe", !.port = lock]
    <3>1. Move(r)
      BY <1>3, <1>k, <2>1 DEF ConnectProbeSettles, TypeOK, CallRecord, Stations
    <3> QED
      BY <3>1, <1>m, <1>3 DEF ConnectProbeSettles
  <2>2. CASE ProbeFails(c)
    BY <1>k, <1>3, <2>2, ProbeFailsKeeps DEF ConnectProbeSettles
  <2> QED
    BY <1>3, <2>1, <2>2 DEF ConnectProbeSettles
<1>4. CASE HealthProbeSettles(c)
  <2>1. CASE ProbeFails(c) /\ UNCHANGED failures
    BY <1>k, <1>4, <2>1, ProbeFailsKeeps DEF HealthProbeSettles
  <2>2. CASE /\ made + 1 \in Entries
             /\ made' = made + 1 /\ cur' = made + 1
             /\ ent' = [ent EXCEPT ![made + 1] = Adopted(call[c].pid)]
             /\ failures' = 0
             /\ call' = [call EXCEPT ![c] = Served(c)]
             /\ UNCHANGED <<proc, flags, files>>
    <3> DEFINE e == made + 1
    <3>0. e \in Entries /\ ent[e] = Unused /\ e > made
      BY <2>2 DEF TypeOK, FreshIsUnused, Entries
    <3>a. Adopted(call[c].pid) \in EntryRecord
      BY UnusedType DEF TypeOK, CallRecord, Adopted, Unused, EntryRecord
    <3>b. /\ made' = e /\ cur' = e /\ failures' = 0
          /\ ent' = [ent EXCEPT ![e] = Adopted(call[c].pid)]
          /\ call' = [call EXCEPT ![c] = Served(c)]
          /\ UNCHANGED <<daemon, cooling, proc, flags, files, upsets, calls>>
      BY <1>4, <2>2 DEF HealthProbeSettles
    <3>c. call[c].pc # "waiting"
      BY <1>4 DEF HealthProbeSettles
    <3> HIDE DEF e
    <3>1. TypeOK'
      <4>1. made' \in 0..MaxEntries /\ cur' \in Entries \cup {None} /\ failures' \in 0..Threshold
        BY <3>0, <3>b, ThresholdAssumption DEF Entries
      <4>2. ent' \in [Entries -> EntryRecord] /\ call' \in [Callers -> CallRecord]
        BY <3>0, <3>a, <3>b, <1>t DEF TypeOK
      <4> QED
        BY <3>b, <4>1, <4>2 DEF TypeOK, files
    <3>2. WaitersAreRegistered'
      <4> SUFFICES ASSUME NEW d \in Callers, NEW g \in Entries
                   PROVE  d \in ent'[g].waiters <=> (call'[d].pc = "waiting" /\ call'[d].on = g)
        BY DEF WaitersAreRegistered
      <4>1. ent'[g].waiters = ent[g].waiters
        BY <3>0, <3>b DEF TypeOK, Adopted, Unused
      <4>2. d # c => call'[d] = call[d]
        BY <3>b DEF TypeOK
      <4>3. call'[c].pc # "waiting"
        BY <3>b, <1>t DEF TypeOK
      <4> QED
        BY <4>1, <4>2, <4>3, <3>c DEF WaitersAreRegistered
    <3>3. SettledOwesNobody' /\ StartingHasChild'
      BY <3>0, <3>b DEF TypeOK, Adopted, Unused, SettledOwesNobody, StartingHasChild
    <3>4. FreshIsUnused' /\ CurrentIsMade'
      BY <3>0, <3>b DEF TypeOK, FreshIsUnused, CurrentIsMade, Entries
    <3> QED
      BY <3>1, <3>2, <3>3, <3>4
  <2> QED
    BY <1>4, <2>1, <2>2 DEF HealthProbeSettles
<1>5. CASE KillDone(c)
  BY <1>k, <1>5, <1>0, MissKeeps DEF KillDone
<1> QED
  BY <1>1, <1>2, <1>3, <1>4, <1>5

LEMMA RejectedType ==
  ASSUME TypeOK, NEW c \in Callers
  PROVE  Rejected(c) \in CallRecord /\ Rejected(c).pc # "waiting"
  BY IdleType DEF Rejected, At, Idle, TypeOK, CallRecord, Stations

LEMMA RejectType ==
  ASSUME TypeOK, NEW W \in SUBSET Callers, RejectWaiters(W)
  PROVE  /\ call' \in [Callers -> CallRecord]
         /\ lock' \in Procs \cup {None} /\ sock' \in Procs \cup {None}
         /\ \A c \in Callers : /\ c \in W => call'[c].pc # "waiting"
                               /\ c \notin W => call'[c] = call[c]
  BY RejectedType DEF RejectWaiters, TypeOK

\* Exactly the waiters W of entry e leave, and e is settled unless somebody stays.
LEMMA WakeKeeps ==
  ASSUME IInv, TypeOK', NEW e \in Entries, NEW W \in SUBSET ent[e].waiters, 
         NEW r \in EntryRecord,
         r.waiters = ent[e].waiters \ W,
         r.status # "starting" => r.waiters = {},
         r.status = "starting" => r.child,
         e <= made, UNCHANGED <<cur, made>>,
         ent' = [ent EXCEPT ![e] = r],
         \A c \in Callers : c \in W => call'[c].pc # "waiting",
         \A c \in Callers : c \notin W => call'[c] = call[c]
  PROVE  IInv'
<1> USE DEF IInv
<1>1. WaitersAreRegistered'
  <2> SUFFICES ASSUME NEW d \in Callers, NEW g \in Entries
               PROVE  d \in ent'[g].waiters <=> (call'[d].pc = "waiting" /\ call'[d].on = g)
    BY DEF WaitersAreRegistered
  <2>1. ent'[g] = IF g = e THEN r ELSE ent[g]
    BY DEF TypeOK
  <2>2. CASE d \in W
    <3>1. d \in ent[e].waiters
      BY <2>2
    <3>2. call'[d].pc # "waiting"
      BY <2>2
    <3>3. call[d].pc = "waiting" /\ call[d].on = e
      BY <3>1 DEF WaitersAreRegistered
    <3> QED
      BY <2>1, <2>2, <3>1, <3>2, <3>3 DEF WaitersAreRegistered
  <2>3. CASE d \notin W
    <3>1. call'[d] = call[d]
      BY <2>3
    <3> QED
      BY <2>1, <2>3, <3>1 DEF WaitersAreRegistered
  <2> QED
    BY <2>2, <2>3
<1>2. SettledOwesNobody' /\ StartingHasChild'
  BY DEF TypeOK, SettledOwesNobody, StartingHasChild
<1>3. FreshIsUnused' /\ CurrentIsMade'
  BY DEF TypeOK, FreshIsUnused, CurrentIsMade, Entries
<1> QED
  BY <1>1, <1>2, <1>3

\* An entry that has waiters, or any status but "unused", has been created.
LEMMA UsedIsMade ==
  ASSUME IInv, NEW e \in Entries, ent[e] # Unused
  PROVE  e <= made
  BY DEF IInv, TypeOK, FreshIsUnused, Entries

LEMMA TimeoutKeeps == ASSUME IInv, NEW c \in Callers, Timeout(c) PROVE IInv'
<1> USE DEF IInv
<1> DEFINE e == call[c].on
           last == LastToGiveUp(c, e)
           r == [ent[e] EXCEPT !.waiters = @ \ {c}, !.status = IF last THEN "error" ELSE @]
<1>1. call[c] \in CallRecord /\ call[c].pc = "waiting"
  BY DEF Timeout, TypeOK
<1>2. e \in Entries \cup {None} /\ \A g \in Entries : c \in ent[g].waiters <=> g = e
  BY <1>1 DEF CallRecord, WaitersAreRegistered
<1>3. CASE e \in Entries
  <2>1. c \in ent[e].waiters /\ ent[e] \in EntryRecord /\ ent[e].status = "starting"
    BY <1>2, <1>3 DEF TypeOK, SettledOwesNobody
  <2>2. e <= made
    BY <2>1, <1>3, UsedIsMade DEF Unused
  <2>3. /\ r \in EntryRecord /\ r.waiters = ent[e].waiters \ {c}
        /\ r.status # "starting" => r.waiters = {}
        /\ r.status = "starting" => r.child
    BY <2>1, <1>3 DEF EntryRecord, LastToGiveUp, StartingHasChild
  <2>4. ent' = [ent EXCEPT ![e] = r] /\ UNCHANGED <<cur, made>> /\ RejectWaiters({c})
    BY <1>3 DEF Timeout, TypeOK
  <2>5. flags' \in [Procs -> SUBSET Flags]
    BY RaiseType DEF Timeout, TypeOK, Flags
  <2>6. /\ call' \in [Callers -> CallRecord]
        /\ lock' \in Procs \cup {None} /\ sock' \in Procs \cup {None}
        /\ \A d \in Callers : /\ d \in {c} => call'[d].pc # "waiting"
                              /\ d \notin {c} => call'[d] = call[d]
    BY <2>4, RejectType
  <2>7. ent' \in [Entries -> EntryRecord]
    BY <2>3, <2>4 DEF TypeOK
  <2>8. TypeOK'
    BY <2>5, <2>6, <2>7 DEF TypeOK, Timeout
  <2>9. {c} \in SUBSET ent[e].waiters
    BY <2>1
  <2> HIDE DEF e, r
  <2> QED
    BY <2>2, <2>3, <2>4, <2>6, <2>8, <2>9, <1>3, WakeKeeps
<1>4. CASE e \notin Entries
  \* Not reachable: the waiter would be registered nowhere.
  <2>1. e = None /\ ent' = ent /\ None \notin Entries
    BY <1>2, <1>4, ConstantsAssumption DEF Timeout, TypeOK, Entries
  <2>2. call' \in [Callers -> CallRecord] /\ call'[c].pc # "waiting"
        /\ \A d \in Callers \ {c} : call'[d] = call[d]
    BY RejectType DEF Timeout
  <2>3. flags' \in [Procs -> SUBSET Flags]
    BY RaiseType DEF Timeout, TypeOK, Flags
  <2>4. TypeOK'
    BY <2>1, <2>2, <2>3, RejectType DEF TypeOK, Timeout
  <2>5. WaitersAreRegistered'
    BY <2>1, <2>2, <1>2, <1>4 DEF WaitersAreRegistered
  <2> QED
    BY <2>1, <2>4, <2>5 DEF Timeout, SettledOwesNobody, StartingHasChild, FreshIsUnused,
                            CurrentIsMade, Unused
<1> QED
  BY <1>3, <1>4

LEMMA HandleReadyKeeps == ASSUME IInv, NEW p \in Procs, HandleReady(p) PROVE IInv'
<1> USE DEF IInv
<1>1. flags' \in [Procs -> SUBSET Flags] /\ failures' \in 0..Threshold
  BY LowerType, ThresholdAssumption DEF HandleReady, TypeOK
<1>2. CASE cur = None
  <2>1. TypeOK'
    BY <1>1, <1>2 DEF HandleReady, TypeOK, files
  <2> QED
    BY <1>2, <2>1, FrameKeeps DEF HandleReady
<1>3. CASE cur # None
  <2> DEFINE r == [ent[cur] EXCEPT !.status = "running", !.waiters = {}]
             W == ent[cur].waiters
  <2>1. cur \in Entries /\ ent[cur] \in EntryRecord
    BY <1>3 DEF TypeOK
  <2>2. W \in SUBSET Callers /\ r \in EntryRecord /\ r.waiters = ent[cur].waiters \ W
        /\ r.status # "starting" /\ r.waiters = {}
    BY <2>1 DEF EntryRecord
  <2>3. ent' = [ent EXCEPT ![cur] = r] /\ made' = made
        /\ call' = [c \in Callers |-> IF c \in W THEN Served(c) ELSE call[c]]
    BY <1>3, <2>1 DEF HandleReady, TypeOK
  <2>4. call' \in [Callers -> CallRecord]
        /\ \A c \in Callers : /\ c \in W => call'[c].pc # "waiting"
                              /\ c \notin W => call'[c] = call[c]
    BY <2>3, ServedType DEF TypeOK
  <2>5. TypeOK'
    BY <1>1, <2>1, <2>2, <2>3, <2>4 DEF HandleReady, TypeOK, files
  <2>6. cur' = cur /\ cur <= made
    BY <1>3 DEF HandleReady, CurrentIsMade, TypeOK
  <2> QED
    BY <2>1, <2>2, <2>3, <2>4, <2>5, <2>6, WakeKeeps
<1> QED
  BY <1>2, <1>3

LEMMA HandleExitKeeps == ASSUME IInv, NEW p \in Procs, HandleExit(p) PROVE IInv'
<1> USE DEF IInv
<1> DEFINE startup == Status(cur) = "starting"
           W == IF startup THEN ent[cur].waiters ELSE {}
<1>0. cur \in Entries \cup {None} /\ (startup => cur \in Entries)
  BY DEF TypeOK, Status
<1>1. flags' \in [Procs -> SUBSET Flags] /\ failures' \in 0..Threshold /\ cooling' \in BOOLEAN
  BY LowerType, ThresholdAssumption DEF HandleExit, TypeOK
<1>2. W \in SUBSET Callers /\ RejectWaiters(W)
  <2>1. RejectWaiters(W)
    BY DEF HandleExit
  <2>2. W \in SUBSET Callers
    BY <1>0 DEF TypeOK, EntryRecord
  <2> QED
    BY <2>1, <2>2
<1>3. /\ call' \in [Callers -> CallRecord]
      /\ lock' \in Procs \cup {None} /\ sock' \in Procs \cup {None}
      /\ \A c \in Callers : /\ c \in W => call'[c].pc # "waiting"
                            /\ c \notin W => call'[c] = call[c]
  BY <1>2, RejectType
<1>4. CASE cur = None
  <2>1. W = {} /\ ent' = ent /\ UNCHANGED <<daemon, cur, made, proc, upsets, calls>>
    BY <1>4 DEF HandleExit, Status
  <2>2. call' = call
    BY <1>3, <2>1 DEF TypeOK
  <2>3. TypeOK'
    BY <1>1, <1>3, <2>1 DEF TypeOK
  <2> QED
    BY <2>1, <2>2, <2>3, FrameKeeps
<1>5. CASE cur # None
  <2> DEFINE r == Exited(ent[cur])
  <2>1. cur \in Entries /\ ent[cur] \in EntryRecord /\ cur <= made
    BY <1>0, <1>5 DEF TypeOK, CurrentIsMade
  <2>2. r \in EntryRecord /\ r.status # "starting"
    BY <2>1 DEF Exited, EntryRecord
  <2>3. r.waiters = {} /\ W = ent[cur].waiters
    BY <2>1, <1>5 DEF Exited, EntryRecord, SettledOwesNobody, Status
  <2>4. ent' = [ent EXCEPT ![cur] = r] /\ UNCHANGED <<daemon, cur, made, proc, upsets, calls>>
    BY <1>5 DEF HandleExit, TypeOK
  <2>5. ent' \in [Entries -> EntryRecord]
    BY <2>1, <2>2, <2>4 DEF TypeOK
  <2>6. TypeOK'
    BY <1>1, <1>3, <2>4, <2>5 DEF TypeOK
  <2> HIDE DEF r, W
  <2> QED
    BY <1>3, <2>1, <2>2, <2>3, <2>4, <2>6, WakeKeeps
<1> QED
  BY <1>4, <1>5

LEMMA ForkFailsKeeps == ASSUME IInv, NEW e \in Entries, ForkFails(e) PROVE IInv'
<1> USE DEF IInv
<1> DEFINE r == [ent[e] EXCEPT !.status = "error", !.waiters = {}, !.pid = None]
           W == ent[e].waiters
<1>1. ent[e] \in EntryRecord /\ W \in SUBSET Callers
  BY DEF TypeOK, EntryRecord
<1>2. r \in EntryRecord /\ r.status # "starting" /\ r.waiters = {}
  BY <1>1 DEF EntryRecord
<1>3. e <= made
  BY UsedIsMade, ProcsType DEF ForkFails, Unused
<1>4. ent' = [ent EXCEPT ![e] = r] /\ RejectWaiters(W)
      /\ UNCHANGED <<daemon, cur, made, failures, cooling>>
  BY DEF ForkFails, TypeOK
<1>5. /\ call' \in [Callers -> CallRecord]
      /\ lock' \in Procs \cup {None} /\ sock' \in Procs \cup {None}
      /\ \A c \in Callers : /\ c \in W => call'[c].pc # "waiting"
                            /\ c \notin W => call'[c] = call[c]
  BY <1>1, <1>4, RejectType
<1>6. TypeOK'
  <2>1. ent' \in [Entries -> EntryRecord]
    BY <1>2, <1>4 DEF TypeOK
  <2>2. proc' \in [Procs -> Stages] /\ flags' \in [Procs -> SUBSET Flags]
    BY ProcsType DEF ForkFails, TypeOK, Stages
  <2>3. upsets' \in 0..MaxUpsets /\ calls' \in 0..MaxCalls
    BY BoundsAssumption DEF ForkFails, Upset, TypeOK
  <2> QED
    BY <1>4, <1>5, <2>1, <2>2, <2>3 DEF TypeOK
<1> HIDE DEF r, W
<1>7. W \in SUBSET ent[e].waiters /\ r.waiters = ent[e].waiters \ W
  BY <1>2 DEF W
<1> QED
  BY <1>2, <1>3, <1>4, <1>5, <1>6, <1>7, WakeKeeps

\* Connections, strikes and the status "stopped" are nobody's startup.
LEMMA EntryKeeps ==
  ASSUME IInv, TypeOK', UNCHANGED <<made, cur>>, cur \in Entries,
         NEW r \in EntryRecord, r.waiters = ent[cur].waiters,
         r.status = ent[cur].status \/ (r.status = "stopped" /\ ~ent[cur].child),
         r.child = ent[cur].child,
         ent' = [ent EXCEPT ![cur] = r],
         \A c \in Callers : (call'[c] = call[c])
                             \/ (call[c].pc # "waiting" /\ call'[c].pc # "waiting")
  PROVE  IInv'
<1> USE DEF IInv
<1>1. \A e \in Entries : ent'[e].waiters = ent[e].waiters
  BY DEF TypeOK
<1>2. WaitersAreRegistered'
  BY <1>1 DEF WaitersAreRegistered
<1>3. SettledOwesNobody' /\ StartingHasChild'
  <2>1. ent[cur].status = "starting" => ent[cur].child
    BY DEF StartingHasChild
  <2> QED
    BY <1>1, <2>1 DEF TypeOK, SettledOwesNobody, StartingHasChild
<1>4. FreshIsUnused' /\ CurrentIsMade'
  BY ConstantsAssumption DEF TypeOK, FreshIsUnused, CurrentIsMade, Entries
<1> QED
  BY <1>2, <1>3, <1>4

LEMMA BridgeKeeps ==
  ASSUME IInv, NEW c \in Callers, Connect(c) \/ BridgeEnds(c) \/ Disconnect(c)
  PROVE  IInv'
<1> USE DEF IInv
<1>1. /\ call[c].pc # "waiting"
      /\ call' \in [Callers -> CallRecord] /\ call'[c].pc # "waiting"
      /\ \A d \in Callers \ {c} : call'[d] = call[d]
  <2>1. \A p \in Procs \cup {None} :
          At("bridged", c, p) \in CallRecord /\ At("bridged", c, p).pc # "waiting"
    BY DEF At, TypeOK, CallRecord, Stations
  <2>2. At("closing", c, None) \in CallRecord /\ At("closing", c, None).pc # "waiting"
    BY DEF At, TypeOK, CallRecord, Stations
  <2>3. Idle \in CallRecord /\ Idle.pc # "waiting"
    BY IdleType DEF Idle
  <2>4. CASE Connect(c)
    BY <2>1, <2>2, <2>4 DEF Connect, TypeOK
  <2>5. CASE BridgeEnds(c)
    BY <2>2, <2>5 DEF BridgeEnds, TypeOK
  <2>6. CASE Disconnect(c)
    BY <2>3, <2>6 DEF Disconnect, TypeOK
  <2> QED
    BY <2>4, <2>5, <2>6
<1>2. UNCHANGED <<daemon, cur, made, failures, cooling, proc, flags, files, upsets, calls>>
  BY DEF Connect, BridgeEnds, Disconnect
<1>3. CASE ent' = ent
  <2>1. TypeOK'
    BY <1>1, <1>2, <1>3 DEF TypeOK, files
  <2>2. WaitersAreRegistered'
    BY <1>1, <1>3 DEF WaitersAreRegistered
  <2> QED
    BY <1>2, <1>3, <2>1, <2>2 DEF SettledOwesNobody, StartingHasChild, FreshIsUnused,
                                  CurrentIsMade, Unused
<1>4. CASE ent' # ent
  <2>1. cur \in Entries /\ ent[cur] \in EntryRecord
    BY <1>4 DEF Connect, BridgeEnds, Disconnect, Counted, TypeOK
  <2> DEFINE r(n) == [ent[cur] EXCEPT !.conns = n]
  <2>2. ASSUME NEW n \in Nat, ent' = [ent EXCEPT ![cur] = r(n)] PROVE IInv'
    <3>1. r(n) \in EntryRecord /\ r(n).waiters = ent[cur].waiters
          /\ r(n).status = ent[cur].status /\ r(n).child = ent[cur].child
      BY <2>1 DEF EntryRecord
    <3>2. TypeOK'
      BY <1>1, <1>2, <2>1, <2>2, <3>1 DEF TypeOK, files
    <3> DEFINE s == r(n)
    <3>3. /\ s \in EntryRecord /\ s.waiters = ent[cur].waiters
          /\ s.status = ent[cur].status /\ s.child = ent[cur].child
          /\ ent' = [ent EXCEPT ![cur] = s]
      BY <2>2, <3>1
    <3> HIDE DEF r, s
    <3> QED
      BY <1>1, <1>2, <2>1, <3>2, <3>3, EntryKeeps
  <2>3. ent[cur].conns \in Nat
    BY <2>1 DEF EntryRecord
  <2>4. CASE Connect(c)
    <3>1. ent' = [ent EXCEPT ![cur] = r(ent[cur].conns + 1)]
      BY <2>1, <2>4, <1>4 DEF Connect, TypeOK
    <3>2. ent[cur].conns + 1 \in Nat
      BY <2>3
    <3> HIDE DEF r
    <3> QED
      BY <2>2, <3>1, <3>2
  <2>5. CASE Disconnect(c)
    <3>1. ent' = [ent EXCEPT ![cur] = r(ent[cur].conns - 1)]
      BY <2>1, <2>5, <1>4 DEF Disconnect, TypeOK
    <3>2. ent[cur].conns - 1 \in Nat
      BY <2>3, <2>5, <1>4 DEF Disconnect, Counted
    <3> HIDE DEF r
    <3> QED
      BY <2>2, <3>1, <3>2
  <2> QED
    BY <2>4, <2>5, <1>4 DEF BridgeEnds
<1> QED
  BY <1>3, <1>4

LEMMA StopKeeps == ASSUME IInv, Stop PROVE IInv'
<1> USE DEF IInv
<1>1. cur \in Entries /\ ent[cur] \in EntryRecord
  BY DEF Stop, Status, TypeOK
<1>2. /\ flags' \in [Procs -> SUBSET Flags] /\ upsets' \in 0..MaxUpsets
      /\ calls' \in 0..MaxCalls
  BY RaiseType, AskShutdownType, BoundsAssumption DEF Stop, Upset, TypeOK, Flags
<1>3. UNCHANGED <<daemon, cur, made, failures, cooling, call, proc, files>>
  BY DEF Stop
<1>4. CASE ent' = ent
  <2>1. TypeOK'
    BY <1>2, <1>3, <1>4 DEF TypeOK, files
  <2> QED
    BY <1>3, <1>4, <2>1, FrameKeeps
<1>5. CASE ent' # ent
  <2> DEFINE r == [ent[cur] EXCEPT !.status = "stopped", !.pid = None, !.conns = 0]
  <2>1. ~ent[cur].child /\ ent' = [ent EXCEPT ![cur] = r]
    BY <1>1, <1>5 DEF Stop, TypeOK
  <2>2. r \in EntryRecord /\ r.waiters = ent[cur].waiters
        /\ r.status = "stopped" /\ r.child = ent[cur].child
    BY <1>1 DEF EntryRecord
  <2>3. TypeOK'
    BY <1>1, <1>2, <1>3, <2>1, <2>2 DEF TypeOK, files
  <2> HIDE DEF r
  <2> QED
    BY <1>1, <1>3, <2>1, <2>2, <2>3, EntryKeeps
<1> QED
  BY <1>4, <1>5

LEMMA ProbeLivenessKeeps == ASSUME IInv, ProbeLiveness PROVE IInv'
<1> USE DEF IInv
<1> DEFINE n == IF Healthy THEN 0 ELSE ent[cur].strikes + 1
           m == IF n >= Strikes THEN 0 ELSE n
           r == [ent[cur] EXCEPT !.strikes = m]
<1>1. cur \in Entries /\ ent[cur] \in EntryRecord
  BY DEF ProbeLiveness, Status, TypeOK
<1>2. flags' \in [Procs -> SUBSET Flags]
  BY AskShutdownType DEF ProbeLiveness, TypeOK
<1>3. m \in 0..Strikes
  BY <1>1 DEF EntryRecord, Strikes
<1>4. r \in EntryRecord /\ r.waiters = ent[cur].waiters
      /\ r.status = ent[cur].status /\ r.child = ent[cur].child
  BY <1>1, <1>3 DEF EntryRecord
<1>5. ent' = [ent EXCEPT ![cur] = r]
      /\ UNCHANGED <<daemon, cur, made, failures, cooling, call, proc, files, upsets, calls>>
  BY <1>1 DEF ProbeLiveness, TypeOK
<1> HIDE DEF r
<1>6. TypeOK'
  BY <1>1, <1>2, <1>4, <1>5 DEF TypeOK, files
<1> QED
  BY <1>1, <1>4, <1>5, <1>6, EntryKeeps

\* The end of one daemon and the start of the next: nobody waits any more.
LEMMA RestartKeeps == ASSUME IInv, DaemonExit \/ Restart PROVE IInv'
<1> USE DEF IInv
<1>1. /\ ent' = [e \in Entries |-> Unused] /\ cur' = None /\ call' = Orphaned
      /\ flags' = Cut /\ failures' = 0 /\ cooling' = FALSE
      /\ daemon' \in {"up", "stopping", "gone"}
      /\ UNCHANGED <<made, proc, files, calls>> /\ upsets' \in 0..MaxUpsets
  BY BoundsAssumption DEF DaemonExit, Restart, Upset, TypeOK
<1>2. \A c \in Callers : Orphaned[c] \in CallRecord /\ Orphaned[c].pc # "waiting"
  BY IdleType DEF Orphaned, Idle, TypeOK
<1>3. call' \in [Callers -> CallRecord] /\ \A c \in Callers : call'[c].pc # "waiting"
  BY <1>1, <1>2 DEF Orphaned
<1>4. TypeOK'
  <2>1. ent' \in [Entries -> EntryRecord]
    BY <1>1, UnusedType
  <2>2. flags' \in [Procs -> SUBSET Flags]
    BY <1>1, CutType DEF TypeOK
  <2>3. failures' \in 0..Threshold
    BY <1>1, ThresholdAssumption
  <2> QED
    BY <1>1, <1>3, <2>1, <2>2, <2>3 DEF TypeOK, files
<1>5. WaitersAreRegistered' /\ SettledOwesNobody' /\ StartingHasChild'
  BY <1>1, <1>3 DEF WaitersAreRegistered, SettledOwesNobody, StartingHasChild, Unused
<1>6. FreshIsUnused' /\ CurrentIsMade'
  BY <1>1 DEF FreshIsUnused, CurrentIsMade, Unused
<1> QED
  BY <1>4, <1>5, <1>6

\* What the daemon does without touching entries or calls.
LEMMA DaemonFrameKeeps ==
  ASSUME IInv, NEW p \in Procs,
         KillTimer(p) \/ SweepClears(p) \/ CoolDown \/ IdleSweep \/ Reap \/ ShutdownAll
  PROVE  IInv'
<1> USE DEF IInv
<1>1. UNCHANGED <<cur, made, ent, call>>
  BY DEF KillTimer, SweepClears, CoolDown, IdleSweep, Reap, ShutdownAll
<1>2. flags' \in [Procs -> SUBSET Flags]
  <2>1. CASE KillTimer(p) \/ SweepClears(p)
    BY <2>1, LowerType, BuriedType DEF KillTimer, SweepClears, TypeOK
  <2>2. CASE CoolDown \/ IdleSweep
    BY <2>2, AskShutdownType DEF CoolDown, IdleSweep, TypeOK
  <2>3. CASE Reap
    BY <2>3, RaiseType DEF Reap, TypeOK, Flags
  <2>4. CASE ShutdownAll
    BY <2>4, ToldGrows DEF ShutdownAll
  <2> QED
    BY <2>1, <2>2, <2>3, <2>4
<1>3. proc' \in [Procs -> Stages]
  BY DEF KillTimer, SweepClears, CoolDown, IdleSweep, Reap, ShutdownAll, TypeOK, Stages
<1>4. upsets' \in 0..MaxUpsets /\ calls' \in 0..MaxCalls
  BY BoundsAssumption DEF KillTimer, SweepClears, CoolDown, IdleSweep, Reap, ShutdownAll, Upset, TypeOK
<1>c. cooling' \in BOOLEAN
  BY Zenon DEF KillTimer, SweepClears, CoolDown, IdleSweep, Reap, ShutdownAll, TypeOK
<1>5. /\ daemon' \in {"up", "stopping", "gone"} /\ UNCHANGED failures
      /\ lock' \in Procs \cup {None} /\ sock' \in Procs \cup {None}
  BY DEF KillTimer, SweepClears, CoolDown, IdleSweep, Reap, ShutdownAll, TypeOK, files
<1>6. TypeOK'
  BY <1>1, <1>2, <1>3, <1>4, <1>c, <1>5 DEF TypeOK
<1> QED
  BY <1>1, <1>6, FrameKeeps

LEMMA ProxyKeeps == ASSUME IInv, NEW p \in Procs, ProxyStep(p) PROVE IInv'
<1> USE DEF IInv
<1>1. UNCHANGED daemonVars
  BY DEF ProxyStep, Lock, Listen, SendReady, Heartbeat, Leave, Exit, SigKill, Crash,
         Freeze, Thaw
<1>2. proc' \in [Procs -> Stages]
  BY DEF ProxyStep, Lock, Listen, SendReady, Heartbeat, Leave, Exit, SigKill, Crash,
         Freeze, Thaw, TypeOK, Stages
<1>3. lock' \in Procs \cup {None} /\ sock' \in Procs \cup {None}
  BY DEF ProxyStep, Lock, Listen, SendReady, Heartbeat, Leave, Exit, SigKill, Crash,
         Freeze, Thaw, TypeOK, files
<1>4. flags' \in [Procs -> SUBSET Flags]
  <2>1. CASE Lock(p) \/ Exit(p) \/ SigKill(p) \/ Crash(p)
    BY <2>1, BuriedType DEF Lock, Exit, SigKill, Crash, Alive, TypeOK
  <2>2. CASE Listen(p) \/ Heartbeat(p) \/ Leave(p)
    BY <2>2 DEF Listen, Heartbeat, Leave, TypeOK
  <2>3. CASE SendReady(p) \/ Freeze(p) \/ Thaw(p)
    BY <2>3, RaiseType, LowerType DEF SendReady, Freeze, Thaw, TypeOK, Flags
  <2> QED
    BY <2>1, <2>2, <2>3 DEF ProxyStep
<1>5. upsets' \in 0..MaxUpsets /\ calls' \in 0..MaxCalls
  BY BoundsAssumption DEF ProxyStep, Lock, Listen, SendReady, Heartbeat, Leave, Exit,
     SigKill, Crash, Freeze, Thaw, Upset, TypeOK
<1>6. TypeOK'
  <2>1. UNCHANGED <<daemon, cur, made, ent, failures, cooling, call>>
    BY <1>1 DEF daemonVars
  <2> QED
    BY <1>2, <1>3, <1>4, <1>5, <2>1 DEF TypeOK
<1> QED
  BY <1>1, <1>6, FrameKeeps DEF daemonVars

LEMMA NextKeeps == IInv /\ [Next]_vars => IInv'
<1> SUFFICES ASSUME IInv, [Next]_vars PROVE IInv'
  OBVIOUS
<1>1. ASSUME NEW c \in Callers, EnsureStep(c) PROVE IInv'
  BY <1>1, EnsureKeeps, TimeoutKeeps DEF EnsureStep
<1>2. ASSUME NEW c \in Callers, BridgeStep(c) PROVE IInv'
  BY <1>2, BridgeKeeps DEF BridgeStep
<1>3. ASSUME NEW p \in Procs, ProxyStep(p) PROVE IInv'
  BY <1>3, ProxyKeeps
<1>4. CASE DaemonStep
  BY <1>4, HandleReadyKeeps, HandleExitKeeps, ForkFailsKeeps, StopKeeps,
     ProbeLivenessKeeps, RestartKeeps, DaemonFrameKeeps, ProcsType DEF DaemonStep
<1>5. CASE Rest \/ UNCHANGED vars
  <2>1. UNCHANGED <<cur, made, ent, call>> /\ TypeOK'
    BY <1>5 DEF Rest, vars, IInv, TypeOK
  <2> QED
    BY <2>1, FrameKeeps
<1> QED
  BY <1>1, <1>2, <1>3, <1>4, <1>5 DEF Next

LEMMA Invariance == Spec => []IInv
  BY InitEstablishes, NextKeeps, PTL DEF Spec

\* The state of the process manager keeps its type, for any number of callers,
\* entries and upsets.
THEOREM TypeCorrect == Spec => []TypeOK
  BY Invariance, PTL DEF IInv

\* readyWaiters and the callers blocked in waitForReady agree: no waiter is lost
\* from an entry it still waits on, and none stays registered after its answer.
THEOREM WaitersRegistered == Spec => []WaitersAreRegistered
  BY Invariance, PTL DEF IInv

\* Ready, exit, fork error and the last timeout wake every waiter of the entry
\* they settle.
THEOREM NobodyForgotten == Spec => []SettledOwesNobody
  BY Invariance, PTL DEF IInv

-----------------------------------------------------------------------------
(* What the daemon believes of its child, and who kills it.                  *)

\* The child of entry e can still report to the daemon: its IPC channel is open
\* and it lives, or its exit event is on the way.
Backed(e) ==
  "ipc" \in flags[e] /\ (proc[e] \notin {"none", "dead"} \/ "exitMsg" \in flags[e])

\* The daemon believes that entry e has a process of its own.
Claims(e) == ent[e].status = "starting" \/ (ent[e].child /\ ent[e].pid # None)

\* The inductive form of EntryIsBacked.  The open channel is what makes it so: a
\* child that dies without one never produces an exit event.
Reports == cur # None /\ Claims(cur) => Backed(cur)

\* Steps that neither kill a child nor cut the news of one off.
NoNewKill == \A p \in Procs : "killed" \in flags'[p] => "killed" \in flags[p]
StayBacked == \A p \in Procs : Backed(p) => Backed(p)'

\* Signals and messages other than "killed" are only added.
LEMMA GrowSteady ==
  ASSUME TypeOK, UNCHANGED proc, NEW new \in SUBSET Flags, "killed" \notin new,
         \A p \in Procs : flags[p] \subseteq flags'[p] /\ flags'[p] \subseteq flags[p] \cup new
  PROVE  NoNewKill /\ StayBacked
  BY DEF NoNewKill, StayBacked, Backed

LEMMA RaiseSteady ==
  ASSUME TypeOK, UNCHANGED proc, NEW P, NEW new \in SUBSET Flags, "killed" \notin new,
         flags' = Raise(flags, P, new)
  PROVE  NoNewKill /\ StayBacked
<1>1. \A p \in Procs : flags[p] \subseteq flags'[p] /\ flags'[p] \subseteq flags[p] \cup new
  BY DEF Raise
<1> QED
  BY <1>1, GrowSteady

\* Timers and "ready" are taken away.
LEMMA LowerSteady ==
  ASSUME TypeOK, UNCHANGED proc, NEW P, NEW old, "ipc" \notin old, "exitMsg" \notin old,
         flags' = Lower(flags, P, old)
  PROVE  NoNewKill /\ StayBacked
  BY DEF NoNewKill, StayBacked, Backed, Lower

LEMMA AskSteady ==
  ASSUME TypeOK, UNCHANGED proc, NEW e, flags' = AskShutdown(flags, e)
  PROVE  NoNewKill /\ StayBacked
<1>1. {"shutdown", "killTimer"} \in SUBSET Flags
  BY DEF Flags
<1>2. CASE flags' = Raise(flags, {e}, {"shutdown", "killTimer"})
  BY <1>1, <1>2, RaiseSteady
<1>3. CASE UNCHANGED flags
  BY <1>3, <1>1, GrowSteady
<1> QED
  BY <1>2, <1>3 DEF AskShutdown

LEMMA SameSteady ==
  ASSUME UNCHANGED <<proc, flags>>
  PROVE  NoNewKill /\ StayBacked
  BY DEF NoNewKill, StayBacked, Backed

\* A process dies: the exit event goes out if its channel was open.
LEMMA BurySteady ==
  ASSUME TypeOK, NEW p \in Procs, flags' = Buried(flags, p),
         \A q \in Procs \ {p} : proc'[q] = proc[q] \/ proc'[q] = "locked"
  PROVE  NoNewKill /\ StayBacked
<1>1. flags'[p] = (flags[p] \cap {"ipc", "readyMsg", "awaited", "swept"})
                    \cup (IF "ipc" \in flags[p] THEN {"exitMsg"} ELSE {})
      /\ \A q \in Procs \ {p} : flags'[q] = flags[q]
  BY DEF Buried, TypeOK
<1> QED
  BY <1>1 DEF NoNewKill, StayBacked, Backed

LEMMA ProxySteady ==
  ASSUME TypeOK, NEW p \in Procs, ProxyStep(p)
  PROVE  NoNewKill /\ StayBacked
<1>1. CASE Lock(p)
  <2>1. CASE proc' = [proc EXCEPT ![p] = "locked"] /\ UNCHANGED flags
    BY <2>1 DEF NoNewKill, StayBacked, Backed, TypeOK
  <2>2. CASE Alive(lock) /\ proc' = [proc EXCEPT ![p] = "locked", ![lock] = "dead"]
             /\ flags' = Buried(flags, lock)
    <3>1. lock \in Procs /\ \A q \in Procs \ {lock} : proc'[q] = proc[q] \/ proc'[q] = "locked"
      BY <2>2 DEF Alive, TypeOK
    <3> QED
      BY <2>2, <3>1, BurySteady
  <2>3. CASE proc' = [proc EXCEPT ![p] = "dead"] /\ flags' = Buried(flags, p)
    BY <2>3, BurySteady DEF TypeOK
  <2> QED
    BY <1>1, <2>1, <2>2, <2>3 DEF Lock
<1>2. CASE Listen(p) \/ Leave(p)
  BY <1>2 DEF Listen, Leave, NoNewKill, StayBacked, Backed, TypeOK
<1>3. CASE SendReady(p)
  <2>1. \A q \in Procs : flags[q] \subseteq flags'[q] /\ flags'[q] \subseteq flags[q] \cup {"readyMsg"}
    BY <1>3 DEF SendReady, Raise, TypeOK
  <2>2. \A q \in Procs : proc'[q] = proc[q] \/ proc'[q] = "ready"
    BY <1>3 DEF SendReady, TypeOK
  <2> QED
    BY <2>1, <2>2 DEF NoNewKill, StayBacked, Backed
<1>4. CASE Heartbeat(p)
  BY <1>4, SameSteady DEF Heartbeat
<1>5. CASE Exit(p) \/ SigKill(p) \/ Crash(p)
  BY <1>5, BurySteady DEF Exit, SigKill, Crash, TypeOK
<1>6. CASE Freeze(p)
  BY <1>6, RaiseSteady DEF Freeze, Flags
<1>7. CASE Thaw(p)
  BY <1>7, LowerSteady DEF Thaw
<1> QED
  BY <1>1, <1>2, <1>3, <1>4, <1>5, <1>6, <1>7 DEF ProxyStep

\* What the daemon does without touching an entry's child.
LEMMA DaemonSteady ==
  ASSUME TypeOK, NEW p \in Procs,
         HandleReady(p) \/ KillTimer(p) \/ SweepClears(p) \/ CoolDown \/ Stop \/ IdleSweep
           \/ ProbeLiveness \/ Reap \/ ShutdownAll
  PROVE  NoNewKill /\ StayBacked
<1>0. {"sigterm"} \in SUBSET Flags /\ {"sigterm", "doomed"} \in SUBSET Flags
  BY DEF Flags
<1>1. CASE HandleReady(p)
  BY <1>1, LowerSteady DEF HandleReady
<1>2. CASE KillTimer(p)
  <2>1. CASE flags' = Lower(flags, {p}, {"killTimer"}) /\ UNCHANGED proc
    BY <2>1, LowerSteady
  <2>2. CASE proc' = [proc EXCEPT ![p] = "dead"] /\ flags' = Buried(flags, p)
    BY <2>2, BurySteady DEF TypeOK
  <2> QED
    BY <1>2, <2>1, <2>2 DEF KillTimer
<1>3. CASE CoolDown
  BY <1>3, SameSteady DEF CoolDown
<1>4. CASE Stop
  <2>1. CASE flags' = Raise(flags, {ent[cur].pid}, {"sigterm"})
    BY <1>4, <2>1, <1>0, RaiseSteady DEF Stop
  <2>2. CASE UNCHANGED flags
    BY <1>4, <2>2, SameSteady DEF Stop
  <2>3. CASE flags' = AskShutdown(flags, cur)
    BY <1>4, <2>3, AskSteady DEF Stop
  <2> QED
    BY <1>4, <2>1, <2>2, <2>3 DEF Stop
<1>5. CASE IdleSweep
  BY <1>5, AskSteady DEF IdleSweep
<1>6. CASE ProbeLiveness
  <2>1. flags' = AskShutdown(flags, cur) \/ UNCHANGED flags
    BY <1>6 DEF ProbeLiveness
  <2> QED
    BY <1>6, <2>1, AskSteady, SameSteady DEF ProbeLiveness
<1>7. CASE Reap
  BY <1>7, <1>0, RaiseSteady DEF Reap
<1>8. CASE ShutdownAll
  <2>1. flags' = Told /\ UNCHANGED proc
    BY <1>8 DEF ShutdownAll
  <2>2. \A q \in Procs : /\ flags[q] \subseteq flags'[q]
                         /\ "killed" \in flags'[q] => "killed" \in flags[q]
    BY <2>1, ToldGrows
  <2> QED
    BY <2>1, <2>2 DEF NoNewKill, StayBacked, Backed
<1>9. CASE SweepClears(p)
  BY <1>9, LowerSteady DEF SweepClears
<1> QED
  BY <1>1, <1>2, <1>3, <1>4, <1>5, <1>6, <1>7, <1>8, <1>9

\* The steps of ensure() and of the bridges: they raise SIGTERM at most, and the
\* one process they start has its channel open.
LEMMA MissSteady ==
  ASSUME IInv, NEW c \in Callers, NEW m, Miss(c, m)
  PROVE  NoNewKill /\ StayBacked
<1>1. CASE UNCHANGED <<proc, flags>>
  BY <1>1, SameSteady
<1>2. CASE Spawn(c)
  BY <1>2, ProcsType DEF Spawn, NoNewKill, StayBacked, Backed, IInv, TypeOK
<1> QED
  BY <1>1, <1>2 DEF Miss

LEMMA BeginAdoptSteady ==
  ASSUME IInv, NEW c \in Callers, NEW m, BeginAdopt(c, m)
  PROVE  NoNewKill /\ StayBacked
  BY MissSteady, SameSteady DEF BeginAdopt

LEMMA ProbeFailsSteady ==
  ASSUME IInv, NEW c \in Callers, ProbeFails(c)
  PROVE  NoNewKill /\ StayBacked
<1>1. CASE flags' = Raise(flags, {call[c].pid}, {"sigterm", "doomed"}) /\ UNCHANGED proc
  BY <1>1, RaiseSteady DEF Flags, IInv
<1>2. CASE Miss(c, cur)
  BY <1>2, MissSteady
<1> QED
  BY <1>1, <1>2 DEF ProbeFails

LEMMA EnsureSteady ==
  ASSUME IInv, NEW c \in Callers,
         EnsureStart(c) \/ ProbeSettles(c) \/ ConnectProbeSettles(c)
           \/ HealthProbeSettles(c) \/ KillDone(c) \/ BridgeStep(c)
  PROVE  NoNewKill /\ StayBacked
<1>1. \/ UNCHANGED <<proc, flags>>
      \/ BeginAdopt(c, None) \/ BeginAdopt(c, cur) \/ ProbeFails(c) \/ Miss(c, cur)
  BY DEF EnsureStart, ProbeSettles, ConnectProbeSettles, HealthProbeSettles, KillDone,
         BridgeStep, Connect, BridgeEnds, Disconnect
<1> QED
  BY <1>1, SameSteady, BeginAdoptSteady, ProbeFailsSteady, MissSteady

\* A waiter's timer kills a child only when it was the last of its entry.
LEMMA TimeoutSteady ==
  ASSUME IInv, NEW c \in Callers, Timeout(c)
  PROVE  /\ StayBacked
         /\ \A e \in Entries :
              "killed" \notin flags[e] /\ "killed" \in flags'[e]
                => \A d \in Callers : call'[d].pc = "waiting" => call'[d].on # e
<1> USE DEF IInv
<1> DEFINE g == call[c].on
<1>0. (g \in Entries /\ c \in ent[g].waiters) \/ g = None
  BY DEF Timeout, TypeOK, CallRecord, WaitersAreRegistered
<1>1. flags' = flags \/ (LastToGiveUp(c, g) /\ Alive(g)
                          /\ flags' = Raise(flags, {g}, {"sigterm", "killed"}))
  BY DEF Timeout
<1>2. UNCHANGED proc /\ RejectWaiters({c}) /\ call[c].pc = "waiting"
  BY DEF Timeout
<1>3. \A p \in Procs : flags[p] \subseteq flags'[p]
  BY <1>1 DEF Raise
<1>4. StayBacked
  BY <1>2, <1>3 DEF StayBacked, Backed
<1>5. ASSUME NEW e \in Entries, "killed" \notin flags[e], "killed" \in flags'[e],
             NEW d \in Callers, call'[d].pc = "waiting", call'[d].on = e
      PROVE  FALSE
  <2>1. e = g /\ LastToGiveUp(c, g)
    BY <1>1, <1>5, ProcsType DEF Raise
  <2>2. ent[g].waiters \subseteq {c}
    BY <2>1 DEF LastToGiveUp
  <2>3. call'[c].pc # "waiting" /\ (d # c => call'[d] = call[d])
    BY <1>2, RejectType
  <2>4. d # c /\ call[d].pc = "waiting" /\ call[d].on = g
    BY <1>5, <2>1, <2>3
  <2>5. d \in ent[g].waiters
    BY <1>5, <2>1, <2>4 DEF WaitersAreRegistered
  <2> QED
    BY <2>2, <2>4, <2>5
<1> QED
  BY <1>4, <1>5

\* No entry comes to claim a process.
NoNewClaim == \A e \in Entries : Claims(e)' => Claims(e)

LEMMA ReportsKeeps ==
  ASSUME IInv, Reports, StayBacked, NoNewClaim, cur' = cur \/ cur' = None
  PROVE  Reports'
<1>1. CASE cur' = None
  BY <1>1 DEF Reports
<1>2. CASE cur' = cur /\ cur # None
  <2>1. cur \in Entries /\ cur \in Procs
    BY <1>2, ProcsType DEF IInv, TypeOK
  <2> QED
    BY <1>2, <2>1 DEF Reports, StayBacked, NoNewClaim, Claims, Backed
<1> QED
  BY <1>1, <1>2

\* What follows on an answer null of tryAdopt(): either entries keep what they claim,
\* or the key maps to a new one whose child has just been forked.
LEMMA MissReports ==
  ASSUME IInv, Reports, NEW c \in Callers, NEW m, m = None \/ m = cur, Miss(c, m)
  PROVE  Reports'
<1>1. CASE Spawn(c)
  <2>1. cur' \in Entries /\ flags'[cur'] = {"ipc"} /\ proc'[cur'] = "booting"
    BY <1>1, ProcsType DEF Spawn, IInv, TypeOK
  <2> QED
    BY <2>1 DEF Reports, Backed
<1>2. CASE cur' = m /\ (UNCHANGED ent \/ Wait(c, m))
  <2>0. \A e \in Entries : /\ ent'[e].status = ent[e].status
                           /\ ent'[e].child = ent[e].child /\ ent'[e].pid = ent[e].pid
    <3>1. ASSUME NEW e \in Entries, NEW W, ent' = [ent EXCEPT ![m].waiters = W]
          PROVE  /\ ent'[e].status = ent[e].status
                 /\ ent'[e].child = ent[e].child /\ ent'[e].pid = ent[e].pid
      <4>1. ent[e] \in EntryRecord
        BY DEF IInv, TypeOK
      <4>2. ent'[e] = ent[e] \/ ent'[e] = [ent[e] EXCEPT !.waiters = W]
        BY <3>1 DEF IInv, TypeOK
      <4> QED
        BY <4>1, <4>2 DEF EntryRecord
    <3> QED
      BY <1>2, <3>1 DEF Wait
  <2>1. NoNewClaim
    BY <2>0 DEF NoNewClaim, Claims
  <2>2. StayBacked
    BY MissSteady
  <2> QED
    BY <1>2, <2>1, <2>2, ReportsKeeps
<1> QED
  BY <1>1, <1>2 DEF Miss

LEMMA BeginAdoptReports ==
  ASSUME IInv, Reports, NEW c \in Callers, NEW m, m = None \/ m = cur, BeginAdopt(c, m)
  PROVE  Reports'
<1>1. CASE Miss(c, m)
  BY <1>1, MissReports
<1>2. CASE cur' = m /\ UNCHANGED <<ent, proc, flags>>
  BY <1>2, SameSteady, ReportsKeeps DEF NoNewClaim, Claims
<1> QED
  BY <1>1, <1>2 DEF BeginAdopt

LEMMA ProbeFailsReports ==
  ASSUME IInv, Reports, NEW c \in Callers, ProbeFails(c)
  PROVE  Reports'
<1>1. CASE UNCHANGED <<cur, ent>>
  BY <1>1, ProbeFailsSteady, ReportsKeeps DEF NoNewClaim, Claims
<1>2. CASE Miss(c, cur)
  BY <1>2, MissReports
<1> QED
  BY <1>1, <1>2 DEF ProbeFails

LEMMA EnsureReports ==
  ASSUME IInv, Reports, NEW c \in Callers, EnsureStep(c)
  PROVE  Reports'
<1>1. CASE EnsureStart(c)
  <2>1. CASE UNCHANGED <<cur, ent, proc, flags>>
    BY <2>1, SameSteady, ReportsKeeps DEF NoNewClaim, Claims
  <2>2. CASE Wait(c, cur) /\ UNCHANGED <<cur, proc, flags>>
    BY <2>2, SameSteady, ReportsKeeps DEF NoNewClaim, Claims, Wait, IInv, TypeOK
  <2> QED
    BY <1>1, <2>1, <2>2, BeginAdoptReports DEF EnsureStart
<1>2. CASE ProbeSettles(c)
  <2>1. CASE UNCHANGED <<cur, ent, proc, flags>>
    BY <2>1, SameSteady, ReportsKeeps DEF NoNewClaim, Claims
  <2> QED
    BY <1>2, <2>1, BeginAdoptReports DEF ProbeSettles
<1>3. CASE ConnectProbeSettles(c)
  <2>1. CASE UNCHANGED <<cur, ent, proc, flags>>
    BY <2>1, SameSteady, ReportsKeeps DEF NoNewClaim, Claims
  <2> QED
    BY <1>3, <2>1, ProbeFailsReports DEF ConnectProbeSettles
<1>4. CASE HealthProbeSettles(c)
  <2>1. CASE /\ made + 1 \in Entries /\ cur' = made + 1
             /\ ent' = [ent EXCEPT ![made + 1] = Adopted(call[c].pid)]
    <3>1. cur' \in Entries /\ ent'[cur'] = Adopted(call[c].pid)
      BY <2>1 DEF IInv, TypeOK
    <3> QED
      BY <3>1 DEF Reports, Claims, Adopted, Unused
  <2> QED
    BY <1>4, <2>1, ProbeFailsReports DEF HealthProbeSettles
<1>5. CASE KillDone(c)
  BY <1>5, MissReports DEF KillDone
<1>6. CASE Timeout(c)
  <2>1. NoNewClaim
    BY <1>6 DEF Timeout, NoNewClaim, Claims, IInv, TypeOK
  <2> QED
    BY <1>6, <2>1, TimeoutSteady, ReportsKeeps DEF Timeout
<1> QED
  BY <1>1, <1>2, <1>3, <1>4, <1>5, <1>6 DEF EnsureStep

\* An exit is applied to the entry the key maps to, whoever died: that entry gives
\* up its claim.
LEMMA HandleExitReports ==
  ASSUME IInv, Reports, NEW p \in Procs, HandleExit(p)
  PROVE  Reports'
<1>1. CASE cur = None
  BY <1>1 DEF HandleExit, Reports
<1>2. CASE cur # None
  <2>1. cur' = cur /\ ent'[cur] = Exited(ent[cur]) /\ ent[cur] \in EntryRecord
    BY <1>2 DEF HandleExit, IInv, TypeOK
  <2>2. ent'[cur].status = "stopped" /\ ent'[cur].child = FALSE
    BY <2>1 DEF Exited, EntryRecord
  <2> QED
    BY <2>1, <2>2 DEF Reports, Claims
<1> QED
  BY <1>1, <1>2

\* A failed fork settles its own entry only.
LEMMA ForkFailsReports ==
  ASSUME IInv, Reports, NEW e \in Entries, ForkFails(e)
  PROVE  Reports'
<1>1. cur' = cur /\ (cur = None \/ (cur \in Entries /\ cur \in Procs))
  BY ProcsType DEF ForkFails, IInv, TypeOK
<1>2. CASE cur = e
  <2>1. ent'[e].status = "error" /\ ent'[e].pid = None
    BY DEF ForkFails, IInv, TypeOK, EntryRecord
  <2> QED
    BY <1>1, <1>2, <2>1 DEF Reports, Claims
<1>3. CASE cur # e /\ cur # None
  <2>1. ent'[cur] = ent[cur] /\ flags'[cur] = flags[cur] /\ proc'[cur] = proc[cur]
    BY <1>1, <1>3 DEF ForkFails, IInv, TypeOK
  <2> QED
    BY <1>1, <2>1 DEF Reports, Claims, Backed
<1> QED
  BY <1>1, <1>2, <1>3 DEF Reports

LEMMA DaemonReports ==
  ASSUME IInv, Reports, DaemonStep
  PROVE  Reports'
<1>1. CASE DaemonExit \/ Restart
  BY <1>1 DEF DaemonExit, Restart, Reports
<1>2. ASSUME NEW p \in Procs,
             HandleReady(p) \/ KillTimer(p) \/ SweepClears(p) \/ CoolDown \/ Stop
               \/ IdleSweep \/ ProbeLiveness \/ Reap \/ ShutdownAll
      PROVE  Reports'
  <2>1. StayBacked
    BY <1>2, DaemonSteady DEF IInv
  <2>2. cur' = cur
    BY <1>2 DEF HandleReady, KillTimer, SweepClears, CoolDown, Stop, IdleSweep,
                ProbeLiveness, Reap, ShutdownAll
  <2>3. CASE UNCHANGED ent
    BY <2>1, <2>2, <2>3, ReportsKeeps DEF NoNewClaim, Claims
  <2>4. CASE HandleReady(p) \/ Stop \/ ProbeLiveness
    <3>1. NoNewClaim
      BY <2>4 DEF HandleReady, Stop, ProbeLiveness, NoNewClaim, Claims, IInv, TypeOK,
                  EntryRecord
    <3> QED
      BY <2>1, <2>2, <3>1, ReportsKeeps
  <2> QED
    BY <1>2, <2>3, <2>4 DEF KillTimer, SweepClears, CoolDown, IdleSweep, Reap, ShutdownAll
<1> QED
  BY <1>1, <1>2, HandleExitReports, ForkFailsReports, ProcsType DEF DaemonStep

LEMMA NextReports ==
  ASSUME IInv, Reports, [Next]_vars
  PROVE  Reports'
<1>1. ASSUME NEW c \in Callers, BridgeStep(c) PROVE Reports'
  <2>1. StayBacked /\ cur' = cur
    BY <1>1, EnsureSteady DEF BridgeStep, Connect, BridgeEnds, Disconnect
  <2>2. ASSUME UNCHANGED ent PROVE NoNewClaim
    BY <2>2 DEF NoNewClaim, Claims
  <2>3. ASSUME NEW n, ent' = [ent EXCEPT ![cur].conns = n] PROVE NoNewClaim
    BY <2>3 DEF NoNewClaim, Claims, IInv, TypeOK, EntryRecord
  <2>4. NoNewClaim
    BY <1>1, <2>2, <2>3 DEF BridgeStep, Connect, BridgeEnds, Disconnect
  <2> QED
    BY <2>1, <2>4, ReportsKeeps
<1>2. ASSUME NEW p \in Procs, ProxyStep(p) PROVE Reports'
  <2>1. UNCHANGED daemonVars
    BY <1>2 DEF ProxyStep, Lock, Listen, SendReady, Heartbeat, Leave, Exit, SigKill, Crash,
                Freeze, Thaw
  <2>2. StayBacked
    BY <1>2, ProxySteady DEF IInv
  <2> QED
    BY <2>1, <2>2, ReportsKeeps DEF daemonVars, NoNewClaim, Claims
<1>3. CASE Rest \/ UNCHANGED vars
  BY <1>3 DEF Rest, vars, Reports, Claims, Backed
<1> QED
  BY <1>1, <1>2, <1>3, EnsureReports, DaemonReports DEF Next

\* A startup the key maps to can be settled by its own child, and a handle with a
\* pid is not dangling: the child lives or its exit event is on the way.
THEOREM EntriesAreBacked == Spec => []EntryIsBacked
<1>1. Init => Reports
  <2> SUFFICES ASSUME Init, cur # None PROVE Backed(cur)
    BY DEF Reports
  <2>1. cur = 1 /\ 1 \in Entries
    BY BoundsAssumption DEF Init, Entries
  <2>2. flags = [p \in Procs |-> IF p = cur THEN {"ipc", "exitMsg"} ELSE {}]
    BY DEF Init
  <2> QED
    BY <2>1, <2>2, ProcsType DEF Backed
<1>2. IInv /\ Reports /\ [Next]_vars => Reports'
  BY NextReports
<1>3. IInv /\ Reports => EntryIsBacked
  <2> SUFFICES ASSUME IInv, Reports, Status(cur) = "starting"
                                      \/ (cur # None /\ ent[cur].child /\ ent[cur].pid # None)
               PROVE  Alive(cur) \/ "exitMsg" \in flags[cur]
    BY DEF EntryIsBacked
  <2>1. cur # None /\ Claims(cur)
    BY DEF Status, Claims
  <2>2. cur \in Procs
    BY <2>1, ProcsType DEF IInv, TypeOK
  <2> QED
    BY <2>1, <2>2 DEF Reports, Backed, Alive
<1> QED
  BY <1>1, <1>2, <1>3, Invariance, PTL DEF Spec

\* Only a ready timeout sends a child SIGTERM through its handle, and no caller
\* waits on that entry any more when it does.
THEOREM LastWaiterKills == Spec => OnlyLastWaiterKills
<1> DEFINE Kill == \A e \in Entries :
                     "killed" \notin flags[e] /\ "killed" \in flags'[e]
                       => \A c \in Callers : call'[c].pc = "waiting" => call'[c].on # e
<1>0. NoNewKill => Kill
  BY ProcsType DEF NoNewKill
<1>1. ASSUME IInv, NEW c \in Callers, EnsureStep(c) \/ BridgeStep(c) PROVE Kill
  <2>1. CASE Timeout(c)
    BY <1>1, <2>1, TimeoutSteady
  <2>2. CASE ~Timeout(c)
    BY <1>0, <1>1, <2>2, EnsureSteady DEF EnsureStep
  <2> QED
    BY <2>1, <2>2
<1>2. ASSUME IInv, NEW p \in Procs, ProxyStep(p) PROVE Kill
  BY <1>0, <1>2, ProxySteady DEF IInv
<1>3. ASSUME IInv, DaemonStep PROVE Kill
  <2>1. ASSUME NEW p \in Procs, HandleExit(p) PROVE NoNewKill
    BY <1>3, <2>1 DEF HandleExit, Lower, NoNewKill, IInv, TypeOK
  <2>2. ASSUME NEW e \in Entries, ForkFails(e) PROVE NoNewKill
    BY <1>3, <2>2 DEF ForkFails, NoNewKill, IInv, TypeOK
  <2>3. CASE DaemonExit \/ Restart
    <3>1. flags' = Cut
      BY <2>3 DEF DaemonExit, Restart
    <3> QED
      BY <1>0, <3>1 DEF NoNewKill, Cut
  <2>4. ASSUME NEW p \in Procs,
               HandleReady(p) \/ KillTimer(p) \/ SweepClears(p) \/ CoolDown \/ Stop
                 \/ IdleSweep \/ ProbeLiveness \/ Reap \/ ShutdownAll
        PROVE  NoNewKill
    BY <1>3, <2>4, DaemonSteady DEF IInv
  <2> HIDE DEF Kill
  <2> QED
    BY <1>0, <1>3, <2>1, <2>2, <2>3, <2>4, ProcsType DEF DaemonStep
<1>4. ASSUME IInv, [Next]_vars PROVE [Kill]_vars
  BY <1>1, <1>2, <1>3, <1>4 DEF Next, Rest, vars
<1> QED
  BY <1>4, Invariance, PTL DEF Spec, OnlyLastWaiterKills

=============================================================================
