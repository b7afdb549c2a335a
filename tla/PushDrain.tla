----------------------------- MODULE PushDrain -----------------------------
(* How unerrd drains one repository's event segments to the cloud: one tick of
   drainOneRepo, which opens the cursor, reads and pushes in rounds, empties the
   segments it has drained, and saves the cursor.

   The producers append while it runs.  A row is <<s, n>>, the n-th ever appended
   to segment s.  The file of s holds the rows after the first base[s]; an offset
   counts rows, one line each, from there.  A step runs from one await to the
   next, but the check of a segment's size and its truncation are two, for
   producers are other processes.                                            *)
EXTENDS Integers, FiniteSets

CONSTANTS Segments,
          PidSegments,  \* mcp-<pid>, hook-<pid>; the others: proxy, transcript, fleet
          Drains,       \* the daemon's loop, and the one drain of a removal
          BatchMax,     \* INGEST_MAX_EVENTS_PER_BATCH
          MaxRounds,    \* maxBatchesPerStream
          Invalid,      \* the rows that drift from the contract
          Poison,       \* the rows the server refuses for good
          MaxRows,      \* bound on the rows of a segment
          MaxHolds,     \* bound on the answers that hold the cursor
          AbortAt,      \* where a tick may be cut short: unerrd dies, or save() throws
          MaxAborts     \* bound on that

ASSUME ConstantsAssumption ==
  /\ PidSegments \subseteq Segments /\ MaxRows \in Nat /\ MaxHolds \in Nat /\ MaxAborts \in Nat
  /\ BatchMax \in Nat \ {0} /\ MaxRounds \in Nat \ {0}

VARIABLES count,    \* rows ever appended, by segment
          base,     \* of them, those before the start of the file
          live,     \* the segments whose producer runs
          disk,     \* push-cursor.json: offset by segment (0: no entry)
          drain,    \* the drains
          got,      \* rows the cloud has stored, or parked
          dead,     \* rows given up: invalid, or refused
          slipped,  \* rows appended between a size check and its truncation
          stranded, \* the segments emptied under a cursor that outlived the file
          holds, aborts

vars == <<count, base, live, disk, drain, got, dead, slipped, stranded, holds, aborts>>

Row == Segments \X (1..MaxRows)
Between(s, a, b) == {<<s, n>> : n \in (a + 1)..b}
Size(s) == count[s] - base[s]
Appended == UNION {Between(s, 0, count[s]) : s \in Segments}
Settled == got \cup dead \cup slipped

\* readSegmentFrom: an offset beyond the end of the file means its start.
Start(s, offset) == IF offset > Size(s) THEN 0 ELSE offset

\* A read ends by its caps or with the file.
Least(a, b) == IF a < b THEN a ELSE b

\* done: segments that are exhausted, or held for the rest of the tick; taken:
\* the rows of the batches read in this round, next: the offsets behind them;
\* post: the segments whose batches are in the request under way.
Stations == {"idle", "reading", "pushing", "posted", "checking", "cleaning", "saving"}
Replies == {"none", "hold", "poison", "ok"}
DrainRecord == [pc : Stations, cur : [Segments -> 0..MaxRows], done : SUBSET Segments,
                taken : [Segments -> SUBSET Row], next : [Segments -> 0..MaxRows],
                post : SUBSET Segments, reply : Replies, retry : SUBSET Row,
                round : 0..MaxRounds, victims : SUBSET Segments]
Nothing == [s \in Segments |-> {}]
Zero == [s \in Segments |-> 0]
Idle == [pc |-> "idle", cur |-> Zero, done |-> {}, taken |-> Nothing, next |-> Zero,
         post |-> {}, reply |-> "none", retry |-> {}, round |-> 0, victims |-> {}]

TypeOK ==
  /\ count \in [Segments -> 0..MaxRows] /\ base \in [Segments -> 0..MaxRows]
  /\ live \subseteq Segments /\ disk \in [Segments -> 0..MaxRows]
  /\ drain \in [Drains -> DrainRecord]
  /\ got \subseteq Row /\ dead \subseteq Row /\ slipped \subseteq Row /\ stranded \subseteq Segments
  /\ holds \in 0..MaxHolds /\ aborts \in 0..MaxAborts
  /\ \A s \in Segments : base[s] <= count[s]

Init ==
  /\ count = Zero /\ base = Zero /\ live = Segments /\ disk = Zero
  /\ drain = [d \in Drains |-> Idle]
  /\ got = {} /\ dead = {} /\ slipped = {} /\ stranded = {} /\ holds = 0 /\ aborts = 0

At(d, pc) == drain[d].pc = pc
Files == <<count, base, live, disk>>

-----------------------------------------------------------------------------
(* The producers.                                                            *)

\* appendEvent.  Between the check of a size and the truncation it goes under.
Append(s) ==
  /\ s \in live /\ count[s] < MaxRows
  /\ count' = [count EXCEPT ![s] = @ + 1]
  /\ slipped' = IF \E d \in Drains : At(d, "cleaning") /\ s \in drain[d].victims
                THEN slipped \cup {<<s, count[s] + 1>>} ELSE slipped
  /\ UNCHANGED <<base, live, disk, drain, got, dead, stranded, holds, aborts>>

\* The process of a per-pid segment ends; its pid is given away again.
ProducerExits(s) ==
  /\ s \in PidSegments \cap live /\ live' = live \ {s}
  /\ UNCHANGED <<count, base, disk, drain, got, dead, slipped, stranded, holds, aborts>>

PidReused(s) ==
  /\ s \in PidSegments \ live /\ live' = live \cup {s}
  /\ UNCHANGED <<count, base, disk, drain, got, dead, slipped, stranded, holds, aborts>>

\* The segments that a drain has emptied, and not yet saved the cursor of.
Unsaved == UNION {drain[d].victims : d \in {e \in Drains : At(e, "saving")}}

-----------------------------------------------------------------------------
(* A tick.                                                                   *)

\* PushCursor.open.
Open(d) ==
  /\ At(d, "idle")
  /\ drain' = [drain EXCEPT ![d] = [Idle EXCEPT !.pc = "reading", !.cur = disk]]
  /\ stranded' = stranded \cup Unsaved
  /\ UNCHANGED <<Files, got, dead, slipped, holds, aborts>>

\* The entitlement is gone since the tick began: no segment is read.
Gated(d) ==
  /\ At(d, "reading") /\ drain[d].round = 0
  /\ drain' = [drain EXCEPT ![d].pc = "checking"]
  /\ holds < MaxHolds /\ holds' = holds + 1
  /\ UNCHANGED <<Files, got, dead, slipped, stranded, aborts>>

\* One round of reads: from each segment not done, the batch behind its cursor.
\* A batch none of whose rows is valid is passed over without a push.
Read(d) ==
  LET r == drain[d]
      begin(s) == Start(s, r.cur[s])
      end(s) == Least(begin(s) + BatchMax, Size(s))
      batch(s) == Between(s, base[s] + begin(s), base[s] + end(s))
      ready == Segments \ r.done
      empty == {s \in ready : batch(s) = {}}
      wrong == {s \in ready \ empty : batch(s) \subseteq Invalid}
      fresh == ready \ (empty \cup wrong)
  IN /\ At(d, "reading")
     /\ drain' = [drain EXCEPT ![d] =
          [r EXCEPT !.pc = IF fresh = {} THEN "checking" ELSE "pushing",
                    !.done = @ \cup empty,
                    !.cur = [s \in Segments |-> IF s \in wrong THEN end(s) ELSE r.cur[s]],
                    !.taken = [s \in Segments |-> IF s \in fresh THEN batch(s) ELSE {}],
                    !.next = [s \in Segments |-> IF s \in fresh THEN end(s) ELSE 0],
                    !.round = @ + 1]]
     /\ dead' = dead \cup UNION {batch(s) : s \in wrong}
     /\ UNCHANGED <<Files, got, slipped, stranded, holds, aborts>>

Pending(d) == {s \in Segments : drain[d].taken[s] # {}}

\* What a request with the batches of `group` carries.
Sent(d, group) == UNION {drain[d].taken[s] \ Invalid : s \in group}

\* Those of the pending batches that one request may carry together.
Fits(d, group) ==
  /\ group \subseteq Pending(d) /\ group # {}
  /\ Cardinality(group) = 1 \/ Cardinality(Sent(d, group)) <= BatchMax

Request(d, group, reply, retry) ==
  drain' = [drain EXCEPT ![d].pc = "posted", ![d].post = group, ![d].reply = reply,
                         ![d].retry = retry]

\* A 2xx with a result for each row: accepted or parked, or rejected for good.
Accepted(d) ==
  /\ At(d, "pushing")
  /\ \E group \in SUBSET Segments :
       Fits(d, group) /\ Request(d, group, "ok", {}) /\ got' = got \cup (Sent(d, group) \ Poison)
  /\ UNCHANGED <<Files, dead, slipped, stranded, holds, aborts>>

\* A 2xx that defers some of the rows.
Deferred(d) ==
  /\ At(d, "pushing") /\ holds < MaxHolds /\ holds' = holds + 1
  /\ \E group \in SUBSET Segments :
       /\ Fits(d, group)
       /\ \E retry \in (SUBSET (Sent(d, group) \ Poison)) \ {{}} :
            /\ Request(d, group, "ok", retry)
            /\ got' = got \cup ((Sent(d, group) \ Poison) \ retry)
  /\ UNCHANGED <<Files, dead, slipped, stranded, aborts>>

\* A 4xx: one refused row, and nothing of the request is stored.
Rejected(d) ==
  /\ At(d, "pushing")
  /\ \E group \in SUBSET Segments :
       /\ Fits(d, group) /\ Sent(d, group) \cap Poison # {}
       /\ Request(d, group, "poison", {})
  /\ UNCHANGED <<Files, got, dead, slipped, stranded, holds, aborts>>

\* No answer, 403, 429, 5xx, or rejections that name no row.  The server may have
\* stored the rows all the same.
Unanswered(d) ==
  /\ At(d, "pushing") /\ holds < MaxHolds /\ holds' = holds + 1
  /\ \E group \in SUBSET Segments :
       /\ Fits(d, group) /\ Request(d, group, "hold", {})
       /\ got' \in {got, got \cup (Sent(d, group) \ Poison)}
  /\ UNCHANGED <<Files, dead, slipped, stranded, aborts>>

\* Mutant of ApplyCombinedAck: a refused request holds its streams as well.
ApplyHolding(d) ==
  LET r == drain[d]
      held == IF r.reply = "ok" THEN {s \in r.post : r.taken[s] \cap r.retry # {}} ELSE r.post
      moved == IF r.reply = "ok" THEN r.post \ held ELSE {}
      left == Pending(d) \ r.post
  IN /\ At(d, "posted")
     /\ drain' = [drain EXCEPT ![d] =
          [r EXCEPT !.pc = IF left # {} THEN "pushing"
                           ELSE IF r.done \cup held = Segments \/ r.round = MaxRounds
                           THEN "checking" ELSE "reading",
                    !.cur = [s \in Segments |-> IF s \in moved THEN r.next[s] ELSE r.cur[s]],
                    !.done = @ \cup held,
                    !.taken = [s \in Segments |-> IF s \in left THEN r.taken[s] ELSE {}],
                    !.post = {}, !.reply = "none", !.retry = {}]]
     /\ dead' = dead \cup UNION {r.taken[s] \cap (Invalid \cup Poison) : s \in moved}
     /\ UNCHANGED <<Files, got, slipped, stranded, holds, aborts>>

\* applyCombinedAck, and where the rounds go from there.
ApplyCombinedAck(d) ==
  LET r == drain[d]
      held == IF r.reply = "ok" THEN {s \in r.post : r.taken[s] \cap r.retry # {}} ELSE r.post
      moved == IF r.reply = "hold" THEN {} ELSE IF r.reply = "ok" THEN r.post \ held ELSE r.post
      given(s) == IF r.reply = "poison" THEN r.taken[s]
                  ELSE r.taken[s] \cap (Invalid \cup Poison)
      left == Pending(d) \ r.post
  IN /\ At(d, "posted")
     /\ drain' = [drain EXCEPT ![d] =
          [r EXCEPT !.pc = IF left # {} THEN "pushing"
                           ELSE IF r.done \cup held = Segments \/ r.round = MaxRounds
                           THEN "checking" ELSE "reading",
                    !.cur = [s \in Segments |-> IF s \in moved THEN r.next[s] ELSE r.cur[s]],
                    !.done = @ \cup held,
                    !.taken = [s \in Segments |-> IF s \in left THEN r.taken[s] ELSE {}],
                    !.post = {}, !.reply = "none", !.retry = {}]]
     /\ dead' = dead \cup UNION {given(s) : s \in moved}
     /\ UNCHANGED <<Files, got, slipped, stranded, holds, aborts>>

\* reapDrainedDeadSegments and truncateDrainedLongLivedSegments: the segments
\* with nothing behind the cursor, whose producer is gone if they have a pid ...
CheckSegments(d) ==
  /\ At(d, "checking")
  /\ drain' = [drain EXCEPT
       ![d].pc = "cleaning",
       ![d].victims = {s \in Segments :
                         /\ drain[d].cur[s] >= Size(s)
                         /\ IF s \in PidSegments THEN s \notin live ELSE Size(s) > 0}]
  /\ UNCHANGED <<Files, got, dead, slipped, stranded, holds, aborts>>

\* Mutant of Clean: the cursors stay.
CleanKeepingCursor(d) ==
  LET v == drain[d].victims
  IN /\ At(d, "cleaning")
     /\ base' = [s \in Segments |-> IF s \in v THEN count[s] ELSE base[s]]
     /\ drain' = [drain EXCEPT ![d].pc = "saving"]
     /\ stranded' = IF \E e \in Drains \ {d} : ~At(e, "idle") THEN stranded \cup v ELSE stranded
     /\ UNCHANGED <<count, live, disk, got, dead, slipped, holds, aborts>>

\* ... are unlinked or truncated, and their cursors dropped.  Another drain at work
\* keeps its own.
Clean(d) ==
  LET v == drain[d].victims
  IN /\ At(d, "cleaning")
     /\ base' = [s \in Segments |-> IF s \in v THEN count[s] ELSE base[s]]
     /\ drain' = [drain EXCEPT
          ![d].pc = "saving", ![d].cur = [s \in Segments |-> IF s \in v THEN 0 ELSE @[s]]]
     /\ stranded' = IF \E e \in Drains \ {d} : ~At(e, "idle") THEN stranded \cup v ELSE stranded
     /\ UNCHANGED <<count, live, disk, got, dead, slipped, holds, aborts>>

\* PushCursor.save: the temporary file is renamed over the old one.
Save(d) ==
  /\ At(d, "saving") /\ disk' = drain[d].cur
  /\ drain' = [drain EXCEPT ![d] = Idle]
  /\ UNCHANGED <<count, base, live, got, dead, slipped, stranded, holds, aborts>>

\* The tick ends without a save: the cursor on disk is that of the files before.
Abort(d) ==
  /\ drain[d].pc \in AbortAt \ {"idle"} /\ drain' = [drain EXCEPT ![d] = Idle]
  /\ aborts < MaxAborts /\ aborts' = aborts + 1
  /\ stranded' = IF At(d, "saving") THEN stranded \cup drain[d].victims ELSE stranded
  /\ UNCHANGED <<Files, got, dead, slipped, holds>>

-----------------------------------------------------------------------------

Post(d) == Accepted(d) \/ Deferred(d) \/ Rejected(d) \/ Unanswered(d)

DrainStep(d) ==
  \/ Open(d) \/ Gated(d) \/ Read(d) \/ Accepted(d) \/ Deferred(d) \/ Rejected(d)
  \/ Unanswered(d) \/ ApplyCombinedAck(d) \/ CheckSegments(d) \/ Clean(d) \/ Save(d)
  \/ Abort(d)

Next ==
  \/ \E s \in Segments : Append(s) \/ ProducerExits(s) \/ PidReused(s)
  \/ \E d \in Drains : DrainStep(d)

Spec == Init /\ [][Next]_vars

\* The timer of the loop fires again and again, and requests settle.
Fairness ==
  \A d \in Drains :
    /\ WF_vars(Open(d)) /\ WF_vars(Read(d)) /\ WF_vars(Post(d)) /\ WF_vars(ApplyCombinedAck(d))
    /\ WF_vars(CheckSegments(d)) /\ WF_vars(Clean(d)) /\ WF_vars(Save(d))
FairSpec == Spec /\ Fairness

-----------------------------------------------------------------------------

\* What the next tick can read of segment s.
Readable(s) == Between(s, base[s] + Start(s, disk[s]), count[s])

\* No unsettled row of s is before the saved cursor, or gone with a file.
Kept(s) == Between(s, 0, count[s]) \subseteq Settled \cup Readable(s)

\* Between ticks, a row that is not settled can still be read: the saved cursor is
\* never beyond a row that was neither stored nor given up, and no such row was
\* truncated.  Two exceptions, each by the steps that lead to it: the rows of the
\* window the code documents (`slipped`), and the segments emptied while the tick
\* was cut short before the save, or beside another drain (`stranded`).
NothingLost ==
  (\A d \in Drains : At(d, "idle")) => \A s \in Segments \ stranded : Kept(s)

\* push-cursor.ts:7-9: "effectively exactly-once with zero loss".
ZeroLoss == (\A d \in Drains : At(d, "idle")) => \A s \in Segments : Kept(s)

\* Everything appended is settled some day, but in a stranded segment: a held batch
\* is sent again, and a refused one does not stop those behind it.
Contract == INSTANCE Outbox WITH Rows <- Row, produced <- Appended, settled <- Settled
EverythingSettles ==
  Contract!Spec /\ \A x \in Row : (x \in Appended) ~> (x \in Settled \/ x[1] \in stranded)

=============================================================================
