-------------------------- MODULE PushDrain_proofs --------------------------
(* No row of telemetry is lost, and every step of the drains is one of Outbox: proofs
   about PushDrain for any number of segments, rows, rounds and answers.      *)
EXTENDS PushDrain, TLAPS

\* Batches are read while there are rounds left.
RoundsLeft == \A d \in Drains : At(d, "reading") => drain[d].round < MaxRounds

TypeInv == TypeOK /\ RoundsLeft

-----------------------------------------------------------------------------

LEMMA BetweenType ==
  ASSUME NEW s \in Segments, NEW a \in Nat, NEW b \in Nat, b <= MaxRows
  PROVE  Between(s, a, b) \subseteq Row
  BY ConstantsAssumption DEF Between, Row

\* The batch that a round reads from a segment lies in the file.
LEMMA BatchInFile ==
  ASSUME TypeOK, NEW s \in Segments, NEW c \in 0..MaxRows
  PROVE  /\ Start(s, c) \in Nat /\ Start(s, c) <= Size(s)
         /\ Least(Start(s, c) + BatchMax, Size(s)) \in 0..MaxRows
         /\ Least(Start(s, c) + BatchMax, Size(s)) >= Start(s, c)
         /\ base[s] + Least(Start(s, c) + BatchMax, Size(s)) <= count[s]
<1>1. base[s] \in Nat /\ count[s] \in Nat /\ base[s] <= count[s] /\ count[s] <= MaxRows
  BY ConstantsAssumption DEF TypeOK
<1>2. QED
  BY <1>1, ConstantsAssumption DEF Start, Size, Least

LEMMA IdleType == Idle \in DrainRecord /\ Zero \in [Segments -> 0..MaxRows]
  BY ConstantsAssumption DEF Idle, DrainRecord, Zero, Nothing, Stations, Replies

\* A drain that moves to another well-formed record keeps the types.
LEMMA DrainType ==
  ASSUME TypeOK, NEW d \in Drains, NEW r \in DrainRecord, drain' = [drain EXCEPT ![d] = r]
  PROVE  drain' \in [Drains -> DrainRecord]
  BY DEF TypeOK

LEMMA TypeInit == Init => TypeInv
<1>1. SUFFICES ASSUME Init PROVE TypeInv
  OBVIOUS
<1>2. drain \in [Drains -> DrainRecord]
  BY <1>1, IdleType DEF Init
<1>3. TypeOK
  BY <1>1, <1>2, IdleType, ConstantsAssumption DEF Init, TypeOK, Zero
<1>4. RoundsLeft
  BY <1>1 DEF Init, RoundsLeft, At, Idle
<1>5. QED
  BY <1>3, <1>4 DEF TypeInv

\* What a request carries are rows.
LEMMA SentType ==
  ASSUME TypeOK, NEW d \in Drains, NEW group \in SUBSET Segments
  PROVE  Sent(d, group) \subseteq Row
  BY DEF TypeOK, DrainRecord, Sent

LEMMA RequestType ==
  ASSUME TypeInv, NEW d \in Drains, NEW group \in SUBSET Segments, NEW reply \in Replies,
         NEW retry \in SUBSET Row, Request(d, group, reply, retry)
  PROVE  drain' \in [Drains -> DrainRecord] /\ RoundsLeft'
<1> DEFINE r == [drain[d] EXCEPT !.pc = "posted", !.post = group, !.reply = reply,
                                 !.retry = retry]
<1>1. drain' = [drain EXCEPT ![d] = r]
  BY DEF Request, TypeInv, TypeOK
<1>2. drain[d] \in DrainRecord /\ "posted" \in Stations
  BY DEF TypeInv, TypeOK, Stations
<1>3. r \in DrainRecord /\ r.pc = "posted"
  BY <1>2 DEF DrainRecord
<1> HIDE DEF r
<1>4. QED
  BY <1>1, <1>3, DrainType DEF TypeInv, TypeOK, RoundsLeft, At

LEMMA ReadType ==
  ASSUME TypeInv, NEW d \in Drains, Read(d)
  PROVE  TypeInv'
<1> DEFINE r == drain[d]
           begin(s) == Start(s, r.cur[s])
           end(s) == Least(begin(s) + BatchMax, Size(s))
           batch(s) == Between(s, base[s] + begin(s), base[s] + end(s))
           ready == Segments \ r.done
           empty == {s \in ready : batch(s) = {}}
           wrong == {s \in ready \ empty : batch(s) \subseteq Invalid}
           fresh == ready \ (empty \cup wrong)
           q == [r EXCEPT !.pc = IF fresh = {} THEN "checking" ELSE "pushing",
                    !.done = @ \cup empty,
                    !.cur = [s \in Segments |-> IF s \in wrong THEN end(s) ELSE r.cur[s]],
                    !.taken = [s \in Segments |-> IF s \in fresh THEN batch(s) ELSE {}],
                    !.next = [s \in Segments |-> IF s \in fresh THEN end(s) ELSE 0],
                    !.round = @ + 1]
<1>1. r \in DrainRecord /\ r.cur \in [Segments -> 0..MaxRows] /\ r.round \in 0..MaxRounds
  BY DEF TypeInv, TypeOK, DrainRecord
<1>2. \A s \in Segments : begin(s) \in Nat /\ end(s) \in 0..MaxRows /\ batch(s) \subseteq Row
  <2>1. TAKE s \in Segments
  <2>2. begin(s) \in Nat /\ end(s) \in 0..MaxRows /\ base[s] + end(s) <= count[s]
    BY <1>1, BatchInFile DEF TypeInv
  <2>3. base[s] \in Nat /\ count[s] \in Nat /\ count[s] <= MaxRows
    BY ConstantsAssumption DEF TypeInv, TypeOK
  <2>4. batch(s) \subseteq Row
    <3>1. base[s] + begin(s) \in Nat /\ base[s] + end(s) \in Nat /\ base[s] + end(s) <= MaxRows
      BY <2>2, <2>3, ConstantsAssumption
    <3> HIDE DEF begin, end
    <3>2. QED
      BY <3>1, BetweenType
  <2>5. QED
    BY <2>2, <2>4
<1>3. drain' = [drain EXCEPT ![d] = q] /\ dead' = dead \cup UNION {batch(s) : s \in wrong}
      /\ At(d, "reading") /\ UNCHANGED <<Files, got, slipped, stranded, holds, aborts>>
  BY DEF Read
<1> HIDE DEF begin, end, batch
<1>4. [s \in Segments |-> IF s \in wrong THEN end(s) ELSE r.cur[s]] \in [Segments -> 0..MaxRows]
  BY <1>1, <1>2
<1>5. /\ [s \in Segments |-> IF s \in fresh THEN batch(s) ELSE {}] \in [Segments -> SUBSET Row]
      /\ [s \in Segments |-> IF s \in fresh THEN end(s) ELSE 0] \in [Segments -> 0..MaxRows]
  BY <1>2, ConstantsAssumption
<1>6. r.round + 1 \in 0..MaxRounds
  BY <1>1, <1>3, ConstantsAssumption DEF TypeInv, RoundsLeft
<1>7. empty \subseteq Segments /\ UNION {batch(s) : s \in wrong} \subseteq Row
  BY <1>2
<1> HIDE DEF r, empty, wrong, fresh
<1>8. q \in DrainRecord /\ q.pc # "reading"
  BY <1>1, <1>4, <1>5, <1>6, <1>7 DEF DrainRecord, Stations
<1> HIDE DEF q
<1>9. drain' \in [Drains -> DrainRecord] /\ RoundsLeft'
  BY <1>3, <1>8, DrainType DEF TypeInv, TypeOK, RoundsLeft, At
<1>10. QED
  BY <1>3, <1>7, <1>9 DEF TypeInv, TypeOK, Files

LEMMA AckType ==
  ASSUME TypeInv, NEW d \in Drains, ApplyCombinedAck(d)
  PROVE  TypeInv'
<1> DEFINE r == drain[d]
           held == IF r.reply = "ok" THEN {s \in r.post : r.taken[s] \cap r.retry # {}} ELSE r.post
           moved == IF r.reply = "hold" THEN {} ELSE IF r.reply = "ok" THEN r.post \ held ELSE r.post
           given(s) == IF r.reply = "poison" THEN r.taken[s]
                       ELSE r.taken[s] \cap (Invalid \cup Poison)
           left == Pending(d) \ r.post
           pc == IF left # {} THEN "pushing"
                 ELSE IF r.done \cup held = Segments \/ r.round = MaxRounds
                 THEN "checking" ELSE "reading"
           q == [r EXCEPT !.pc = pc,
                    !.cur = [s \in Segments |-> IF s \in moved THEN r.next[s] ELSE r.cur[s]],
                    !.done = @ \cup held,
                    !.taken = [s \in Segments |-> IF s \in left THEN r.taken[s] ELSE {}],
                    !.post = {}, !.reply = "none", !.retry = {}]
<1>1. /\ r \in DrainRecord /\ r.cur \in [Segments -> 0..MaxRows] /\ r.round \in 0..MaxRounds
      /\ r.next \in [Segments -> 0..MaxRows] /\ r.taken \in [Segments -> SUBSET Row]
      /\ r.post \subseteq Segments /\ r.done \subseteq Segments
  BY DEF TypeInv, TypeOK, DrainRecord
<1>2. drain' = [drain EXCEPT ![d] = q] /\ dead' = dead \cup UNION {given(s) : s \in moved}
      /\ UNCHANGED <<Files, got, slipped, stranded, holds, aborts>>
  BY DEF ApplyCombinedAck
<1>3. held \subseteq Segments /\ moved \subseteq Segments /\ UNION {given(s) : s \in moved} \subseteq Row
  BY <1>1
<1>4. pc \in Stations /\ (pc = "reading" => r.round # MaxRounds)
  BY DEF Stations
<1> HIDE DEF r, held, moved, given, left, pc
<1>5. /\ [s \in Segments |-> IF s \in moved THEN r.next[s] ELSE r.cur[s]] \in [Segments -> 0..MaxRows]
      /\ [s \in Segments |-> IF s \in left THEN r.taken[s] ELSE {}] \in [Segments -> SUBSET Row]
  BY <1>1
<1>6. q \in DrainRecord /\ q.pc = pc /\ q.round = r.round
  BY <1>1, <1>3, <1>4, <1>5 DEF DrainRecord, Replies
<1> HIDE DEF q
<1>7. drain' \in [Drains -> DrainRecord]
  BY <1>2, <1>6, DrainType DEF TypeInv
<1>8. RoundsLeft'
  <2>1. q.pc = "reading" => q.round < MaxRounds
    BY <1>1, <1>4, <1>6, ConstantsAssumption
  <2>2. QED
    BY <1>2, <2>1 DEF TypeInv, TypeOK, RoundsLeft, At
<1>9. QED
  BY <1>2, <1>3, <1>7, <1>8 DEF TypeInv, TypeOK, Files

LEMMA UnsavedType ==
  ASSUME TypeOK
  PROVE  Unsaved \subseteq Segments
  BY DEF TypeOK, DrainRecord, Unsaved

LEMMA TypeStep == TypeInv /\ [Next]_vars => TypeInv'
<1> SUFFICES ASSUME TypeInv, [Next]_vars PROVE TypeInv'
  OBVIOUS
<1> USE ConstantsAssumption
<1>1. ASSUME NEW s \in Segments, Append(s) PROVE TypeInv'
  <2>1. <<s, count[s] + 1>> \in Row /\ count[s] + 1 \in 0..MaxRows
    BY <1>1 DEF Append, TypeInv, TypeOK, Row
  <2>2. count' \in [Segments -> 0..MaxRows] /\ slipped' \subseteq Row
    BY <1>1, <2>1 DEF Append, TypeInv, TypeOK
  <2>3. \A t \in Segments : base'[t] <= count'[t]
    BY <1>1, <2>1 DEF Append, TypeInv, TypeOK
  <2>4. QED
    BY <1>1, <2>2, <2>3 DEF Append, TypeInv, TypeOK, RoundsLeft, At
<1>2. ASSUME NEW s \in Segments, ProducerExits(s) \/ PidReused(s) PROVE TypeInv'
  BY <1>2 DEF ProducerExits, PidReused, TypeInv, TypeOK, RoundsLeft, At
<1>3. ASSUME NEW d \in Drains, Open(d) PROVE TypeInv'
  <2> DEFINE q == [Idle EXCEPT !.pc = "reading", !.cur = disk]
  <2>1. q \in DrainRecord /\ q.round = 0
    BY IdleType DEF Idle, DrainRecord, Stations, TypeInv, TypeOK
  <2>2. drain' = [drain EXCEPT ![d] = q] /\ UNCHANGED <<Files, got, dead, slipped, holds, aborts>>
        /\ stranded' \subseteq Segments
    BY <1>3, UnsavedType DEF Open, TypeInv, TypeOK
  <2> HIDE DEF q
  <2>3. QED
    BY <2>1, <2>2, DrainType DEF TypeInv, TypeOK, RoundsLeft, At, Files
<1>4. ASSUME NEW d \in Drains, Gated(d) PROVE TypeInv'
  <2> DEFINE q == [drain[d] EXCEPT !.pc = "checking"]
  <2>1. drain' = [drain EXCEPT ![d] = q] /\ UNCHANGED <<Files, got, dead, slipped, stranded, aborts>>
        /\ holds' \in 0..MaxHolds
    BY <1>4 DEF Gated, TypeInv, TypeOK
  <2>2. drain[d] \in DrainRecord /\ "checking" \in Stations
    BY DEF TypeInv, TypeOK, Stations
  <2>3. q \in DrainRecord /\ q.pc = "checking"
    BY <2>2 DEF DrainRecord
  <2> HIDE DEF q
  <2>4. QED
    BY <2>1, <2>3, DrainType DEF TypeInv, TypeOK, RoundsLeft, At, Files
<1>5. ASSUME NEW d \in Drains, Read(d) PROVE TypeInv'
  BY <1>5, ReadType
<1>6. ASSUME NEW d \in Drains, Post(d) PROVE TypeInv'
  <2>1. PICK group \in SUBSET Segments, reply \in Replies, retry \in SUBSET Row :
          Request(d, group, reply, retry) /\ got' \subseteq got \cup Sent(d, group)
    <3>1. {"hold", "poison", "ok"} \subseteq Replies /\ {} \in SUBSET Row
      BY DEF Replies
    <3>2. CASE Accepted(d)
      BY <3>1, <3>2 DEF Accepted
    <3>3. CASE Deferred(d)
      <4>1. PICK group \in SUBSET Segments : \E retry \in SUBSET (Sent(d, group) \ Poison) :
              /\ Request(d, group, "ok", retry)
              /\ got' = got \cup ((Sent(d, group) \ Poison) \ retry)
        BY <3>3 DEF Deferred
      <4>2. SUBSET (Sent(d, group) \ Poison) \subseteq SUBSET Row
        BY <4>1, SentType DEF TypeInv
      <4>3. QED
        BY <3>1, <4>1, <4>2
    <3>4. CASE Rejected(d)
      BY <3>1, <3>4 DEF Rejected
    <3>5. CASE Unanswered(d)
      <4>1. PICK group \in SUBSET Segments :
              /\ Request(d, group, "hold", {})
              /\ got' \in {got, got \cup (Sent(d, group) \ Poison)}
        BY <3>5 DEF Unanswered
      <4>2. QED
        BY <3>1, <4>1
    <3>6. QED
      BY <1>6, <3>2, <3>3, <3>4, <3>5 DEF Post
  <2>2. drain' \in [Drains -> DrainRecord] /\ RoundsLeft' /\ got' \subseteq Row
    BY <2>1, RequestType, SentType DEF TypeInv, TypeOK
  <2>3. UNCHANGED <<Files, dead, slipped, stranded, aborts>> /\ holds' \in 0..MaxHolds
    BY <1>6 DEF Post, Accepted, Deferred, Rejected, Unanswered, TypeInv, TypeOK
  <2>4. QED
    BY <2>2, <2>3 DEF TypeInv, TypeOK, Files
<1>7. ASSUME NEW d \in Drains, ApplyCombinedAck(d) PROVE TypeInv'
  BY <1>7, AckType
<1>8. ASSUME NEW d \in Drains, CheckSegments(d) PROVE TypeInv'
  <2> DEFINE v == {s \in Segments :
                     /\ drain[d].cur[s] >= Size(s)
                     /\ IF s \in PidSegments THEN s \notin live ELSE Size(s) > 0}
             q == [drain[d] EXCEPT !.pc = "cleaning", !.victims = v]
  <2>1. drain' = [drain EXCEPT ![d] = q]
        /\ UNCHANGED <<Files, got, dead, slipped, stranded, holds, aborts>>
    BY <1>8 DEF CheckSegments, TypeInv, TypeOK
  <2>2. v \subseteq Segments /\ drain[d] \in DrainRecord /\ "cleaning" \in Stations
    BY DEF TypeInv, TypeOK, Stations
  <2> HIDE DEF v
  <2>3. q \in DrainRecord /\ q.pc = "cleaning"
    BY <2>2 DEF DrainRecord
  <2> HIDE DEF q
  <2>4. QED
    BY <2>1, <2>3, DrainType DEF TypeInv, TypeOK, RoundsLeft, At, Files
<1>9. ASSUME NEW d \in Drains, Clean(d) PROVE TypeInv'
  <2> DEFINE v == drain[d].victims
             q == [drain[d] EXCEPT !.pc = "saving",
                     !.cur = [s \in Segments |-> IF s \in v THEN 0 ELSE drain[d].cur[s]]]
  <2>1. drain' = [drain EXCEPT ![d] = q]
    BY <1>9 DEF Clean, TypeInv, TypeOK
  <2>2. q \in DrainRecord /\ q.pc = "saving"
    <3>1. drain[d] \in DrainRecord /\ "saving" \in Stations
      BY DEF TypeInv, TypeOK, Stations
    <3>2. [s \in Segments |-> IF s \in v THEN 0 ELSE drain[d].cur[s]] \in [Segments -> 0..MaxRows]
      BY <3>1 DEF DrainRecord
    <3> HIDE DEF v
    <3>3. QED
      BY <3>1, <3>2 DEF DrainRecord
  <2>3. base' \in [Segments -> 0..MaxRows] /\ \A s \in Segments : base'[s] <= count[s]
    BY <1>9 DEF Clean, TypeInv, TypeOK
  <2>3a. stranded' \subseteq Segments
    BY <1>9 DEF Clean, TypeInv, TypeOK, DrainRecord
  <2> HIDE DEF q
  <2>4. drain' \in [Drains -> DrainRecord] /\ RoundsLeft'
    BY <2>1, <2>2, DrainType DEF TypeInv, TypeOK, RoundsLeft, At
  <2>5. QED
    BY <1>9, <2>3, <2>3a, <2>4 DEF Clean, TypeInv, TypeOK
<1>10. ASSUME NEW d \in Drains, Save(d) \/ Abort(d) PROVE TypeInv'
  <2>1. drain' = [drain EXCEPT ![d] = Idle]
    BY <1>10 DEF Save, Abort
  <2>2. drain' \in [Drains -> DrainRecord] /\ RoundsLeft'
    BY <2>1, IdleType, DrainType DEF TypeInv, TypeOK, RoundsLeft, At, Idle
  <2>3. disk' \in [Segments -> 0..MaxRows] /\ aborts' \in 0..MaxAborts
    BY <1>10 DEF Save, Abort, Files, TypeInv, TypeOK, DrainRecord
  <2>4. stranded' \subseteq Segments
    BY <1>10 DEF Save, Abort, TypeInv, TypeOK, DrainRecord
  <2>5. QED
    BY <1>10, <2>2, <2>3, <2>4 DEF Save, Abort, Files, TypeInv, TypeOK
<1>11. CASE UNCHANGED vars
  BY <1>11 DEF vars, TypeInv, TypeOK, RoundsLeft, At
<1>12. QED
  BY <1>1, <1>2, <1>3, <1>4, <1>5, <1>6, <1>7, <1>8, <1>9, <1>10, <1>11
     DEF Next, DrainStep, Post

\* Offsets, batches and rows stay in their ranges, whoever drains and whatever the
\* cloud answers.
THEOREM TypeCorrect == Spec => []TypeOK
<1>1. TypeInv => TypeOK
  BY DEF TypeInv
<1>2. QED
  BY <1>1, TypeInit, TypeStep, PTL DEF Spec

-----------------------------------------------------------------------------
(* No row is lost but in a stranded segment, however many drains there are and
   wherever their ticks are cut short.                                       *)

\* Offset c of segment s lies in its file, and all before it is settled.
Sound(s, c) == base[s] + c <= count[s] /\ Between(s, 0, base[s] + c) \subseteq Settled

Steady == Segments \ stranded

\* The saved cursor is sound, except while the file has changed under it ...
SavedSound == \A s \in Steady \ Unsaved : Sound(s, disk[s])
\* ... and those in memory are sound all along.
CursorSound == \A d \in Drains : ~At(d, "idle") => \A s \in Steady : Sound(s, drain[d].cur[s])

\* A batch starts right behind the cursor.
BatchBehindCursor ==
  \A d \in Drains : At(d, "pushing") \/ At(d, "posted") =>
    \A s \in Pending(d) \cap Steady :
      /\ base[s] + drain[d].next[s] <= count[s]
      /\ drain[d].taken[s] = Between(s, base[s] + drain[d].cur[s], base[s] + drain[d].next[s])

\* What a 2xx does not defer is stored, or refused.
AckHonest ==
  \A d \in Drains : At(d, "posted") =>
    /\ drain[d].post \subseteq Pending(d) /\ drain[d].reply # "none"
    /\ drain[d].reply = "ok" =>
         \A s \in drain[d].post :
           drain[d].taken[s] \subseteq got \cup Invalid \cup Poison \cup drain[d].retry

\* What is about to be truncated is settled.
VictimsSettled ==
  \A d \in Drains : At(d, "cleaning") =>
    \A s \in drain[d].victims \cap Steady : Between(s, 0, count[s]) \subseteq Settled

IInv == TypeInv /\ SavedSound /\ CursorSound /\ BatchBehindCursor /\ AckHonest /\ VictimsSettled

LEMMA InitHolds == Init => IInv
<1>1. SUFFICES ASSUME Init PROVE IInv
  OBVIOUS
<1>2. \A d \in Drains : At(d, "idle")
  BY <1>1 DEF Init, At, Idle
<1>3. \A s \in Segments : Sound(s, disk[s])
  BY <1>1 DEF Init, Zero, Sound, Between
<1>4. QED
  BY <1>1, <1>2, <1>3, TypeInit
     DEF IInv, Steady, SavedSound, CursorSound, BatchBehindCursor, AckHonest, VictimsSettled, At

\* The invariant gives what the readers of the file are promised.
LEMMA NothingLostFollows == IInv => NothingLost
<1>1. SUFFICES ASSUME IInv, \A d \in Drains : At(d, "idle"), NEW s \in Segments \ stranded
               PROVE  Between(s, 0, count[s]) \subseteq Settled \cup Readable(s)
  BY DEF NothingLost, Kept
<1>2. Sound(s, disk[s])
  BY <1>1 DEF IInv, SavedSound, At, Steady, Unsaved
<1>3. base[s] \in Nat /\ count[s] \in Nat /\ disk[s] \in Nat /\ base[s] <= count[s]
  BY <1>1, ConstantsAssumption DEF IInv, TypeInv, TypeOK
<1>4. Start(s, disk[s]) = disk[s]
  BY <1>2, <1>3 DEF Sound, Start, Size
<1>5. ASSUME NEW n \in 1..count[s]
      PROVE  <<s, n>> \in Settled \cup Readable(s)
  <2>1. CASE n <= base[s] + disk[s]
    <3>1. <<s, n>> \in Between(s, 0, base[s] + disk[s])
      BY <1>3, <2>1 DEF Between
    <3>2. QED
      BY <1>2, <3>1 DEF Sound
  <2>2. CASE n > base[s] + disk[s]
    BY <1>3, <1>4, <2>2 DEF Readable, Between
  <2>3. QED
    BY <1>3, <2>1, <2>2
<1>6. QED
  BY <1>5 DEF Between

-----------------------------------------------------------------------------

LEMMA Numbers ==
  ASSUME TypeInv, NEW s \in Segments
  PROVE  /\ base[s] \in Nat /\ count[s] \in Nat /\ disk[s] \in Nat /\ base[s] <= count[s]
         /\ \A d \in Drains : drain[d].cur[s] \in Nat /\ drain[d].next[s] \in Nat
  BY ConstantsAssumption DEF TypeInv, TypeOK, DrainRecord

\* The rows up to an offset are those up to a smaller one and those in between.
LEMMA Adjacent ==
  ASSUME NEW s, NEW a \in Nat, NEW b \in Nat, a <= b
  PROVE  Between(s, 0, b) = Between(s, 0, a) \cup Between(s, a, b)
  BY DEF Between

\* A sound offset stays sound as the file grows and more is settled.
LEMMA SoundKept ==
  ASSUME TypeInv, NEW s \in Segments, NEW c \in Nat, Sound(s, c),
         base'[s] = base[s], count'[s] \in Nat, count'[s] >= count[s], Settled \subseteq Settled'
  PROVE  base'[s] + c <= count'[s] /\ Between(s, 0, base'[s] + c) \subseteq Settled'
  BY Numbers DEF Sound

\* A step that leaves the files alone, and strands what it takes out of Unsaved,
\* leaves the saved cursor sound.
LEMMA SavedKept ==
  ASSUME IInv, UNCHANGED Files, Settled \subseteq Settled',
         stranded \cup Unsaved \subseteq stranded' \cup Unsaved'
  PROVE  SavedSound'
<1>1. ASSUME NEW s \in Segments, s \notin stranded' \cup Unsaved' PROVE Sound(s, disk[s])'
  <2>1. s \in Steady \ Unsaved
    BY <1>1 DEF Steady
  <2>2. Sound(s, disk[s]) /\ disk[s] \in Nat /\ count[s] \in Nat
    BY <2>1, Numbers DEF IInv, SavedSound
  <2>3. base'[s] = base[s] /\ count'[s] = count[s] /\ disk'[s] = disk[s]
    BY DEF Files
  <2>4. base'[s] + disk[s] <= count'[s] /\ Between(s, 0, base'[s] + disk[s]) \subseteq Settled'
    BY <2>2, <2>3, SoundKept DEF IInv
  <2>5. QED
    BY <2>3, <2>4 DEF Sound
<1>2. QED
  BY <1>1 DEF SavedSound, Steady

LEMMA AppendKeeps ==
  ASSUME IInv, TypeInv', NEW t \in Segments, Append(t)
  PROVE  IInv'
<1>1. /\ \A s \in Segments : base'[s] = base[s] /\ count'[s] \in Nat /\ count'[s] >= count[s]
      /\ count'[t] = count[t] + 1 /\ \A s \in Segments \ {t} : count'[s] = count[s]
      /\ Settled \subseteq Settled' /\ drain' = drain /\ got' = got /\ disk' = disk
      /\ Steady' = Steady /\ Unsaved' = Unsaved /\ Steady \subseteq Segments
  BY Numbers DEF Append, Settled, IInv, TypeInv, TypeOK, Steady, Unsaved, At
<1>2. \A d \in Drains, pc \in Stations : At(d, pc)' = At(d, pc)
  BY <1>1 DEF At
<1>3. \A s \in Segments, c \in Nat : Sound(s, c) =>
        base'[s] + c <= count'[s] /\ Between(s, 0, base'[s] + c) \subseteq Settled'
  BY <1>1, SoundKept DEF IInv
<1>4. SavedSound'
  BY <1>1, <1>3, Numbers DEF SavedSound, Sound, At, IInv
<1>5. CursorSound'
  BY <1>1, <1>3, Numbers DEF CursorSound, Sound, At, IInv
<1>6. BatchBehindCursor'
  <2>1. ASSUME NEW d \in Drains, At(d, "pushing") \/ At(d, "posted"), NEW s \in Pending(d) \cap Steady
        PROVE  base'[s] + drain[d].next[s] <= count'[s]
    <3>1. s \in Segments /\ base[s] + drain[d].next[s] <= count[s]
      BY <2>1 DEF IInv, BatchBehindCursor, Pending
    <3>2. QED
      BY <1>1, <3>1, Numbers DEF IInv
  <2>2. \A d \in Drains : Pending(d)' = Pending(d) /\ Pending(d) \subseteq Segments
    BY <1>1 DEF Pending
  <2>3. QED
    BY <1>1, <2>1, <2>2 DEF IInv, BatchBehindCursor, At
<1>7. AckHonest'
  BY <1>1 DEF IInv, AckHonest, At, Pending
<1>8. VictimsSettled'
  <2>1. ASSUME NEW d \in Drains, At(d, "cleaning"), NEW s \in drain[d].victims \cap Steady
        PROVE  Between(s, 0, count'[s]) \subseteq Settled'
    <3>1. s \in Segments /\ Between(s, 0, count[s]) \subseteq Settled
      BY <2>1 DEF IInv, VictimsSettled, TypeInv, TypeOK, DrainRecord
    <3>2. CASE s # t
      BY <1>1, <3>1, <3>2
    <3>3. CASE s = t
      <4>1. Between(s, 0, count'[s]) = Between(s, 0, count[s]) \cup {<<s, count[s] + 1>>}
        BY <1>1, <3>1, <3>3, Numbers DEF Between, IInv
      <4>2. <<s, count[s] + 1>> \in Settled'
        BY <2>1, <3>3 DEF Append, Settled
      <4>3. QED
        BY <1>1, <3>1, <4>1, <4>2
    <3>4. QED
      BY <3>2, <3>3
  <2>2. QED
    BY <1>1, <2>1 DEF VictimsSettled, At
<1>9. QED
  BY <1>4, <1>5, <1>6, <1>7, <1>8 DEF IInv

\* What is left to show for a step of drain d that leaves the files alone.
LEMMA OneDrain ==
  ASSUME IInv, NEW d \in Drains, \A e \in Drains \ {d} : drain'[e] = drain[e],
         UNCHANGED Files, Settled \subseteq Settled', got \subseteq got',
         stranded \subseteq stranded', TypeInv', SavedSound',
         (~At(d, "idle") => \A s \in Steady : Sound(s, drain[d].cur[s]))',
         (At(d, "pushing") \/ At(d, "posted") =>
            \A s \in Pending(d) \cap Steady :
              /\ base[s] + drain[d].next[s] <= count[s]
              /\ drain[d].taken[s] =
                   Between(s, base[s] + drain[d].cur[s], base[s] + drain[d].next[s]))',
         (At(d, "posted") =>
            /\ drain[d].post \subseteq Pending(d) /\ drain[d].reply # "none"
            /\ drain[d].reply = "ok" =>
                 \A s \in drain[d].post :
                   drain[d].taken[s] \subseteq got \cup Invalid \cup Poison \cup drain[d].retry)',
         (At(d, "cleaning") =>
            \A s \in drain[d].victims \cap Steady : Between(s, 0, count[s]) \subseteq Settled)'
  PROVE  IInv'
<1>1. Steady' \subseteq Steady /\ base' = base /\ count' = count
  BY DEF Steady, Files
<1>2. CursorSound'
  <2>1. ASSUME NEW e \in Drains \ {d}, ~At(e, "idle")', NEW s \in Steady'
        PROVE  Sound(s, drain[e].cur[s])'
    <3>1. Sound(s, drain[e].cur[s]) /\ drain'[e] = drain[e]
      BY <1>1, <2>1 DEF IInv, CursorSound, At
    <3>2. QED
      BY <1>1, <3>1 DEF Sound
  <2>2. QED
    BY <2>1 DEF CursorSound
<1>3. BatchBehindCursor'
  <2>1. ASSUME NEW e \in Drains \ {d}, (At(e, "pushing") \/ At(e, "posted"))',
               NEW s \in (Pending(e) \cap Steady)'
        PROVE  (/\ base[s] + drain[e].next[s] <= count[s]
                /\ drain[e].taken[s] =
                     Between(s, base[s] + drain[e].cur[s], base[s] + drain[e].next[s]))'
    <3>1. s \in Pending(e) \cap Steady /\ (At(e, "pushing") \/ At(e, "posted"))
          /\ drain'[e] = drain[e]
      BY <1>1, <2>1 DEF At, Pending
    <3>2. QED
      BY <1>1, <3>1 DEF IInv, BatchBehindCursor
  <2>2. QED
    BY <2>1 DEF BatchBehindCursor
<1>4. AckHonest'
  <2>1. ASSUME NEW e \in Drains \ {d}, At(e, "posted")'
        PROVE  (/\ drain[e].post \subseteq Pending(e) /\ drain[e].reply # "none"
                /\ drain[e].reply = "ok" =>
                     \A s \in drain[e].post :
                       drain[e].taken[s] \subseteq
                         got \cup Invalid \cup Poison \cup drain[e].retry)'
    BY <2>1 DEF IInv, AckHonest, At, Pending
  <2>2. QED
    BY <2>1 DEF AckHonest
<1>5. VictimsSettled'
  <2>1. ASSUME NEW e \in Drains \ {d}, At(e, "cleaning")', NEW s \in (drain[e].victims \cap Steady)'
        PROVE  (Between(s, 0, count[s]) \subseteq Settled)'
    BY <1>1, <2>1 DEF IInv, VictimsSettled, At
  <2>2. QED
    BY <2>1 DEF VictimsSettled
<1>6. QED
  BY <1>2, <1>3, <1>4, <1>5 DEF IInv

\* Only a drain that saves takes from Unsaved.
LEMMA UnsavedKept ==
  ASSUME IInv, NEW d \in Drains, \A e \in Drains \ {d} : drain'[e] = drain[e], ~At(d, "saving")
  PROVE  Unsaved \subseteq Unsaved'
  BY DEF Unsaved, At

-----------------------------------------------------------------------------

LEMMA OpenKeeps ==
  ASSUME IInv, TypeInv', NEW d \in Drains, Open(d)
  PROVE  IInv'
<1>1. /\ drain'[d].pc = "reading" /\ drain'[d].cur = disk
      /\ UNCHANGED Files /\ Settled' = Settled /\ got' = got
      /\ \A e \in Drains \ {d} : drain'[e] = drain[e]
      /\ stranded' = stranded \cup Unsaved /\ ~At(d, "saving")
  BY DEF Open, Idle, IInv, TypeInv, TypeOK, Settled, At
<1>2. SavedSound'
  BY <1>1, SavedKept, UnsavedKept
<1>3. \A s \in Steady' : s \in Steady \ Unsaved
  BY <1>1 DEF Steady
<1>4. (\A s \in Steady : Sound(s, drain[d].cur[s]))'
  BY <1>1, <1>3 DEF IInv, SavedSound, Sound, Files
<1>5. QED
  BY <1>1, <1>2, <1>4, OneDrain DEF At

LEMMA GatedKeeps ==
  ASSUME IInv, TypeInv', NEW d \in Drains, Gated(d)
  PROVE  IInv'
<1>1. /\ drain'[d].pc = "checking" /\ drain'[d].cur = drain[d].cur /\ At(d, "reading")
      /\ UNCHANGED Files /\ Settled' = Settled /\ got' = got /\ stranded' = stranded
      /\ \A e \in Drains \ {d} : drain'[e] = drain[e]
  BY DEF Gated, IInv, TypeInv, TypeOK, DrainRecord, Settled
<1>2. SavedSound'
  BY <1>1, SavedKept, UnsavedKept DEF At
<1>3. (\A s \in Steady : Sound(s, drain[d].cur[s]))'
  BY <1>1 DEF IInv, CursorSound, At, Sound, Files, Steady
<1>4. QED
  BY <1>1, <1>2, <1>3, OneDrain DEF At

LEMMA ReadKeeps ==
  ASSUME IInv, TypeInv', NEW d \in Drains, Read(d)
  PROVE  IInv'
<1> DEFINE r == drain[d]
           begin(s) == Start(s, r.cur[s])
           end(s) == Least(begin(s) + BatchMax, Size(s))
           batch(s) == Between(s, base[s] + begin(s), base[s] + end(s))
           ready == Segments \ r.done
           empty == {s \in ready : batch(s) = {}}
           wrong == {s \in ready \ empty : batch(s) \subseteq Invalid}
           fresh == ready \ (empty \cup wrong)
           cur == [s \in Segments |-> IF s \in wrong THEN end(s) ELSE r.cur[s]]
           taken == [s \in Segments |-> IF s \in fresh THEN batch(s) ELSE {}]
           next == [s \in Segments |-> IF s \in fresh THEN end(s) ELSE 0]
           pc == IF fresh = {} THEN "checking" ELSE "pushing"
           q == [r EXCEPT !.pc = pc, !.done = @ \cup empty, !.cur = cur, !.taken = taken,
                          !.next = next, !.round = @ + 1]
<1>1. /\ drain' = [drain EXCEPT ![d] = q] /\ dead' = dead \cup UNION {batch(s) : s \in wrong}
      /\ At(d, "reading") /\ UNCHANGED Files /\ UNCHANGED <<got, slipped, stranded>>
  BY DEF Read
<1>2. /\ q.pc = pc /\ q.cur = cur /\ q.taken = taken /\ q.next = next
      /\ r.cur \in [Segments -> 0..MaxRows]
  <2>1. r \in DrainRecord
    BY DEF IInv, TypeInv, TypeOK
  <2> HIDE DEF r, cur, taken, next, pc
  <2>2. QED
    BY <2>1 DEF DrainRecord
<1>3. /\ \A s \in Steady : Sound(s, r.cur[s])
      /\ Steady \subseteq Segments /\ Steady' = Steady
  BY <1>1 DEF IInv, CursorSound, At, Steady
<1>4. ASSUME NEW s \in Steady
      PROVE  /\ begin(s) = r.cur[s] /\ end(s) \in Nat /\ end(s) >= r.cur[s]
             /\ base[s] + end(s) <= count[s]
  <2>1. Sound(s, r.cur[s]) /\ r.cur[s] \in 0..MaxRows
    BY <1>2, <1>3
  <2>2. begin(s) = r.cur[s]
    BY <1>3, <2>1, Numbers DEF Sound, Start, Size, IInv
  <2>3. QED
    BY <1>3, <2>1, <2>2, BatchInFile, ConstantsAssumption DEF IInv, TypeInv
<1>5. \A s \in Steady : batch(s) = Between(s, base[s] + r.cur[s], base[s] + end(s))
  BY <1>4
<1> HIDE DEF begin, end, batch
<1>6. Settled \subseteq Settled' /\ \A s \in wrong : batch(s) \subseteq Settled'
  BY <1>1 DEF Settled
<1>7. drain'[d] = q /\ pc # "posted" /\ pc # "cleaning" /\ pc # "idle"
      /\ \A s \in Segments : base'[s] = base[s] /\ count'[s] = count[s]
      /\ \A e \in Drains \ {d} : drain'[e] = drain[e]
  BY <1>1 DEF IInv, TypeInv, TypeOK, Files
<1>8a. Unsaved \subseteq Unsaved'
  <2>1. ~At(d, "saving") /\ \A e \in Drains \ {d} : drain'[e] = drain[e]
    BY <1>1, <1>7 DEF At
  <2> HIDE DEF r, ready, empty, wrong, fresh, cur, taken, next, pc, q
  <2>2. QED
    BY <2>1, UnsavedKept
<1>8. SavedSound'
  BY <1>1, <1>6, <1>7, <1>8a, SavedKept
<1>9. ASSUME NEW s \in Steady PROVE Sound(s, drain[d].cur[s])'
  <2>1. CASE s \in wrong
    <3>1. base[s] + r.cur[s] \in Nat /\ base[s] + end(s) \in Nat
          /\ base[s] + r.cur[s] <= base[s] + end(s)
      BY <1>2, <1>3, <1>4, Numbers DEF IInv
    <3>2. Between(s, 0, base[s] + end(s)) = Between(s, 0, base[s] + r.cur[s]) \cup batch(s)
      <4>1. \A a, b \in Nat : a <= b =>
              Between(s, 0, b) = Between(s, 0, a) \cup Between(s, a, b)
        BY Adjacent
      <4>2. batch(s) = Between(s, base[s] + r.cur[s], base[s] + end(s))
        BY <1>5
      <4> HIDE DEF r
      <4>3. QED
        BY <3>1, <4>1, <4>2
    <3>3. Between(s, 0, base[s] + end(s)) \subseteq Settled'
      BY <1>3, <1>6, <2>1, <3>2 DEF Sound
    <3>4. drain'[d].cur[s] = end(s)
      BY <1>2, <1>7, <2>1
    <3>5. QED
      BY <1>3, <1>4, <1>7, <3>3, <3>4 DEF Sound
  <2>2. CASE s \notin wrong
    <3>1. drain'[d].cur[s] = r.cur[s]
      BY <1>2, <1>3, <1>7, <2>2
    <3>2. QED
      BY <1>3, <1>6, <1>7, <3>1 DEF Sound
  <2>3. QED
    BY <2>1, <2>2
<1>10. (\A s \in Pending(d) \cap Steady :
          /\ base[s] + drain[d].next[s] <= count[s]
          /\ drain[d].taken[s] =
               Between(s, base[s] + drain[d].cur[s], base[s] + drain[d].next[s]))'
  <2>1. SUFFICES ASSUME NEW s \in Steady, drain'[d].taken[s] # {}
                 PROVE  /\ base'[s] + drain'[d].next[s] <= count'[s]
                        /\ drain'[d].taken[s] = Between(s, base'[s] + drain'[d].cur[s],
                                                           base'[s] + drain'[d].next[s])
    BY <1>3 DEF Pending
  <2>2. s \in fresh
    <3>1. drain'[d].taken[s] = taken[s] /\ s \in Segments
      BY <1>2, <1>3, <1>7
    <3>2. taken[s] # {}
      BY <2>1, <3>1
    <3> HIDE DEF fresh
    <3>3. QED
      BY <3>1, <3>2
  <2>3. s \notin wrong
    BY <2>2
  <2>4. drain'[d].taken[s] = batch(s) /\ drain'[d].next[s] = end(s) /\ drain'[d].cur[s] = r.cur[s]
    BY <1>2, <1>7, <2>2, <2>3
  <2>5. QED
    BY <1>3, <1>4, <1>5, <1>7, <2>4
<1>11. drain'[d].pc \in {"checking", "pushing"}
  BY <1>2, <1>7
<1> HIDE DEF r, ready, empty, wrong, fresh, cur, taken, next, pc, q
<1>12. /\ ~At(d, "posted")' /\ ~At(d, "cleaning")'
       /\ (\A s \in Steady : Sound(s, drain[d].cur[s]))'
  BY <1>3, <1>9, <1>11 DEF At
<1>13. (\A e \in Drains \ {d} : drain'[e] = drain[e]) /\ got \subseteq got' /\ UNCHANGED Files
  BY <1>1, <1>7
<1>14. QED
  BY <1>1, <1>6, <1>8, <1>10, <1>12, <1>13, OneDrain

LEMMA PostKeeps ==
  ASSUME IInv, TypeInv', NEW d \in Drains, Post(d)
  PROVE  IInv'
<1>1. /\ At(d, "pushing") /\ UNCHANGED <<Files, dead, slipped, stranded>> /\ got \subseteq got'
      /\ \E group \in SUBSET Segments, reply \in Replies \ {"none"} :
         \E retry \in SUBSET Sent(d, group) :
           /\ Fits(d, group) /\ Request(d, group, reply, retry)
           /\ reply = "ok" => Sent(d, group) \subseteq got' \cup Poison \cup retry
  <2>1. {"hold", "poison", "ok"} \subseteq Replies \ {"none"}
    BY DEF Replies
  <2>2. CASE Accepted(d)
    BY <2>1, <2>2 DEF Accepted
  <2>3. CASE Deferred(d)
    BY <2>1, <2>3 DEF Deferred
  <2>4. CASE Rejected(d)
    BY <2>1, <2>4 DEF Rejected
  <2>5. CASE Unanswered(d)
    <3>1. PICK group \in SUBSET Segments : Fits(d, group) /\ Request(d, group, "hold", {})
      BY <2>5 DEF Unanswered
    <3>2. QED
      BY <2>1, <2>5, <3>1 DEF Unanswered
  <2>6. QED
    BY <2>2, <2>3, <2>4, <2>5 DEF Post
<1>1a. PICK group \in SUBSET Segments, reply \in Replies \ {"none"} :
         \E retry \in SUBSET Sent(d, group) :
           /\ Fits(d, group) /\ Request(d, group, reply, retry)
           /\ reply = "ok" => Sent(d, group) \subseteq got' \cup Poison \cup retry
  BY <1>1
<1>2. PICK retry \in SUBSET Sent(d, group) :
        /\ Fits(d, group) /\ Request(d, group, reply, retry)
        /\ reply = "ok" => Sent(d, group) \subseteq got' \cup Poison \cup retry
  BY <1>1a
<1>3. /\ drain'[d].pc = "posted" /\ drain'[d].cur = drain[d].cur
      /\ drain'[d].taken = drain[d].taken /\ drain'[d].next = drain[d].next
      /\ drain'[d].post = group /\ drain'[d].reply = reply /\ drain'[d].retry = retry
      /\ \A e \in Drains \ {d} : drain'[e] = drain[e]
  <2>1. drain[d] \in DrainRecord /\ drain \in [Drains -> DrainRecord]
    BY DEF IInv, TypeInv, TypeOK
  <2>2. QED
    BY <1>2, <2>1 DEF Request, DrainRecord
<1>4. Settled \subseteq Settled' /\ Files' = Files /\ Steady' = Steady
  BY <1>1 DEF Settled, Steady
<1>5. SavedSound'
  BY <1>1, <1>3, <1>4, SavedKept, UnsavedKept DEF At
<1>6. (\A s \in Steady : Sound(s, drain[d].cur[s]))'
  BY <1>1, <1>3, <1>4 DEF IInv, CursorSound, At, Sound, Files
<1>7. Pending(d)' = Pending(d)
  BY <1>3 DEF Pending
<1>8. (\A s \in Pending(d) \cap Steady :
          /\ base[s] + drain[d].next[s] <= count[s]
          /\ drain[d].taken[s] =
               Between(s, base[s] + drain[d].cur[s], base[s] + drain[d].next[s]))'
  BY <1>1, <1>3, <1>4, <1>7 DEF IInv, BatchBehindCursor, Files
<1>9. group \subseteq Pending(d)
  BY <1>2 DEF Fits
<1>10. \A s \in group : drain[d].taken[s] \subseteq Sent(d, group) \cup Invalid
  BY DEF Sent
<1>11. reply = "ok" =>
         \A s \in group : drain[d].taken[s] \subseteq got' \cup Invalid \cup Poison \cup retry
  BY <1>2, <1>10
<1>12. QED
  BY <1>1, <1>3, <1>4, <1>5, <1>6, <1>7, <1>8, <1>9, <1>11, OneDrain DEF At

LEMMA AckKeeps ==
  ASSUME IInv, TypeInv', NEW d \in Drains, ApplyCombinedAck(d)
  PROVE  IInv'
<1> DEFINE r == drain[d]
           held == IF r.reply = "ok" THEN {s \in r.post : r.taken[s] \cap r.retry # {}} ELSE r.post
           moved == IF r.reply = "hold" THEN {} ELSE IF r.reply = "ok" THEN r.post \ held ELSE r.post
           given(s) == IF r.reply = "poison" THEN r.taken[s]
                       ELSE r.taken[s] \cap (Invalid \cup Poison)
           left == Pending(d) \ r.post
           pc == IF left # {} THEN "pushing"
                 ELSE IF r.done \cup held = Segments \/ r.round = MaxRounds
                 THEN "checking" ELSE "reading"
           cur == [s \in Segments |-> IF s \in moved THEN r.next[s] ELSE r.cur[s]]
           taken == [s \in Segments |-> IF s \in left THEN r.taken[s] ELSE {}]
           q == [r EXCEPT !.pc = pc, !.cur = cur, !.done = @ \cup held, !.taken = taken,
                          !.post = {}, !.reply = "none", !.retry = {}]
<1>1. /\ drain' = [drain EXCEPT ![d] = q] /\ dead' = dead \cup UNION {given(s) : s \in moved}
      /\ At(d, "posted") /\ UNCHANGED Files /\ UNCHANGED <<got, slipped, stranded>>
      /\ \A e \in Drains \ {d} : drain'[e] = drain[e]
  BY DEF ApplyCombinedAck, IInv, TypeInv, TypeOK
<1>2. /\ drain'[d].pc = pc /\ drain'[d].cur = cur /\ drain'[d].taken = taken
      /\ drain'[d].next = r.next
  <2>1. r \in DrainRecord /\ drain'[d] = q
    BY <1>1 DEF IInv, TypeInv, TypeOK
  <2> HIDE DEF r, cur, taken, pc
  <2>2. QED
    BY <2>1 DEF DrainRecord
<1>3. /\ \A s \in Steady : Sound(s, r.cur[s])
      /\ \A s \in Pending(d) \cap Steady :
           /\ base[s] + r.next[s] <= count[s]
           /\ r.taken[s] = Between(s, base[s] + r.cur[s], base[s] + r.next[s])
      /\ r.post \subseteq Pending(d) /\ Pending(d) \subseteq Segments
      /\ r.reply \in {"hold", "poison", "ok"}
      /\ r.reply = "ok" => \A s \in r.post : r.taken[s] \subseteq got \cup Invalid \cup Poison \cup r.retry
  <2>1. r.reply \in Replies
    BY DEF IInv, TypeInv, TypeOK, DrainRecord
  <2>2. QED
    BY <1>1, <2>1 DEF IInv, CursorSound, BatchBehindCursor, AckHonest, At, Pending, Replies
<1>4. Settled \subseteq Settled' /\ moved \subseteq r.post
      /\ Steady' = Steady /\ Steady \subseteq Segments
      /\ \A s \in Segments : base'[s] = base[s] /\ count'[s] = count[s]
  BY <1>1 DEF Settled, Files, Steady
<1>5. \A s \in moved : r.taken[s] \subseteq Settled'
  <2>1. TAKE s \in moved
  <2>2. given(s) \subseteq dead'
    BY <1>1
  <2>3. CASE r.reply = "poison"
    BY <2>2, <2>3 DEF Settled
  <2>4. CASE r.reply = "ok"
    <3>1. r.taken[s] \cap r.retry = {} /\ s \in r.post
      BY <2>4
    <3>2. r.taken[s] \subseteq got \cup given(s)
      BY <1>3, <2>4, <3>1
    <3>3. QED
      BY <1>1, <2>2, <3>2 DEF Settled
  <2>5. QED
    BY <1>3, <2>3, <2>4
<1> HIDE DEF r, held, moved, given, left, pc, q
<1>6. SavedSound'
  BY <1>1, <1>4, SavedKept, UnsavedKept DEF At
<1>7. ASSUME NEW s \in Steady PROVE Sound(s, drain[d].cur[s])'
  <2>1. CASE s \in moved
    <3>1. base[s] + r.cur[s] \in Nat /\ base[s] + r.next[s] \in Nat
      BY <1>4, Numbers DEF IInv, r
    <3>2. /\ s \in Pending(d) /\ base[s] + r.next[s] <= count[s]
          /\ r.taken[s] = Between(s, base[s] + r.cur[s], base[s] + r.next[s])
      BY <1>3, <1>4, <2>1
    <3>3. base[s] + r.cur[s] <= base[s] + r.next[s]
      <4>1. PICK x \in r.taken[s] : TRUE
        BY <3>2 DEF Pending, r
      <4>2. QED
        BY <3>1, <3>2, <4>1 DEF Between
    <3>4. \A a, b \in Nat : a <= b => Between(s, 0, b) = Between(s, 0, a) \cup Between(s, a, b)
      BY Adjacent
    <3>5. Between(s, 0, base[s] + r.next[s]) = Between(s, 0, base[s] + r.cur[s]) \cup r.taken[s]
      BY <3>1, <3>2, <3>3, <3>4
    <3>6. Between(s, 0, base[s] + r.next[s]) \subseteq Settled'
      BY <1>3, <1>4, <1>5, <2>1, <3>5 DEF Sound
    <3>7. drain'[d].cur[s] = r.next[s]
      BY <1>2, <1>4, <2>1
    <3>8. QED
      BY <1>4, <3>2, <3>6, <3>7 DEF Sound
  <2>2. CASE s \notin moved
    <3>1. drain'[d].cur[s] = r.cur[s]
      BY <1>2, <1>4, <2>2
    <3>2. QED
      BY <1>3, <1>4, <3>1 DEF Sound
  <2>3. QED
    BY <2>1, <2>2
<1>8. (\A s \in Pending(d) \cap Steady :
          /\ base[s] + drain[d].next[s] <= count[s]
          /\ drain[d].taken[s] =
               Between(s, base[s] + drain[d].cur[s], base[s] + drain[d].next[s]))'
  <2>1. SUFFICES ASSUME NEW s \in Steady, drain'[d].taken[s] # {}
                 PROVE  /\ base'[s] + drain'[d].next[s] <= count'[s]
                        /\ drain'[d].taken[s] = Between(s, base'[s] + drain'[d].cur[s],
                                                           base'[s] + drain'[d].next[s])
    BY <1>4 DEF Pending
  <2>2. s \in left
    BY <1>2, <1>4, <2>1
  <2>3. s \in Pending(d) /\ s \notin moved
    BY <1>4, <2>2 DEF left
  <2>4. drain'[d].taken[s] = r.taken[s] /\ drain'[d].cur[s] = r.cur[s]
        /\ drain'[d].next[s] = r.next[s]
    BY <1>2, <1>4, <2>2, <2>3
  <2>5. QED
    BY <1>3, <1>4, <2>3, <2>4
<1>9. ~At(d, "posted")' /\ ~At(d, "cleaning")'
  BY <1>2 DEF At, pc
<1>10. (\A s \in Steady : Sound(s, drain[d].cur[s]))'
  BY <1>4, <1>7
<1>11. QED
  BY <1>1, <1>4, <1>6, <1>8, <1>9, <1>10, OneDrain

LEMMA CheckKeeps ==
  ASSUME IInv, TypeInv', NEW d \in Drains, CheckSegments(d)
  PROVE  IInv'
<1>1. /\ drain'[d].pc = "cleaning" /\ drain'[d].cur = drain[d].cur /\ At(d, "checking")
      /\ drain'[d].victims \subseteq {s \in Segments : drain[d].cur[s] >= Size(s)}
      /\ UNCHANGED Files /\ Settled' = Settled /\ got' = got /\ stranded' = stranded
      /\ \A e \in Drains \ {d} : drain'[e] = drain[e]
  <2> DEFINE v == {s \in Segments :
                     /\ drain[d].cur[s] >= Size(s)
                     /\ IF s \in PidSegments THEN s \notin live ELSE Size(s) > 0}
  <2>1. /\ drain' = [drain EXCEPT ![d] = [drain[d] EXCEPT !.pc = "cleaning", !.victims = v]]
        /\ At(d, "checking") /\ UNCHANGED Files /\ UNCHANGED <<got, dead, slipped, stranded>>
    BY DEF CheckSegments, IInv, TypeInv, TypeOK
  <2>2. drain[d] \in DrainRecord /\ drain \in [Drains -> DrainRecord]
    BY DEF IInv, TypeInv, TypeOK
  <2>3. v \subseteq {s \in Segments : drain[d].cur[s] >= Size(s)}
    OBVIOUS
  <2> HIDE DEF v
  <2>4. QED
    BY <2>1, <2>2, <2>3 DEF DrainRecord, Settled
<1>2. SavedSound'
  BY <1>1, SavedKept, UnsavedKept DEF At
<1>3. (\A s \in Steady : Sound(s, drain[d].cur[s])) /\ Steady' = Steady
  BY <1>1 DEF IInv, CursorSound, At, Steady
<1>4. (\A s \in Steady : Sound(s, drain[d].cur[s]))'
  BY <1>1, <1>3 DEF Sound, Files
<1>5. (\A s \in drain[d].victims \cap Steady : Between(s, 0, count[s]) \subseteq Settled)'
  <2>1. SUFFICES ASSUME NEW s \in drain'[d].victims \cap Steady
                 PROVE  Between(s, 0, count'[s]) \subseteq Settled'
    BY <1>3
  <2>2. s \in Segments /\ drain[d].cur[s] >= Size(s) /\ Sound(s, drain[d].cur[s])
    BY <1>1, <1>3
  <2>3. base[s] + drain[d].cur[s] = count[s]
    BY <2>2, Numbers DEF IInv, Sound, Size
  <2>4. QED
    BY <1>1, <2>2, <2>3 DEF Sound, Files
<1>6. QED
  BY <1>1, <1>2, <1>4, <1>5, OneDrain DEF At

\* The victims are emptied.  Whoever else is at work strands them, so the facts
\* about a steady segment are about one that has not changed, or about d alone.
LEMMA CleanKeeps ==
  ASSUME IInv, TypeInv', NEW d \in Drains, Clean(d)
  PROVE  IInv'
<1> DEFINE v == drain[d].victims
<1>1. /\ drain'[d].pc = "saving" /\ At(d, "cleaning") /\ drain'[d].victims = v
      /\ \A s \in Segments : drain'[d].cur[s] = IF s \in v THEN 0 ELSE drain[d].cur[s]
      /\ \A s \in Segments : base'[s] = IF s \in v THEN count[s] ELSE base[s]
      /\ \A e \in Drains \ {d} : drain'[e] = drain[e]
      /\ UNCHANGED <<count, disk, got>> /\ Settled' = Settled
  <2> DEFINE cur == [s \in Segments |-> IF s \in v THEN 0 ELSE drain[d].cur[s]]
             q == [drain[d] EXCEPT !.pc = "saving", !.cur = cur]
  <2>1. drain' = [drain EXCEPT ![d] = q] /\ drain[d] \in DrainRecord
        /\ drain \in [Drains -> DrainRecord]
    BY DEF Clean, IInv, TypeInv, TypeOK
  <2>2. /\ At(d, "cleaning") /\ base' = [s \in Segments |-> IF s \in v THEN count[s] ELSE base[s]]
        /\ UNCHANGED <<count, disk, got>> /\ Settled' = Settled
    BY DEF Clean, Settled
  <2>3. \A s \in Segments : cur[s] = IF s \in v THEN 0 ELSE drain[d].cur[s]
    OBVIOUS
  <2> HIDE DEF cur, v
  <2>4. q.pc = "saving" /\ q.victims = drain[d].victims /\ q.cur = cur
    BY <2>1 DEF DrainRecord
  <2>5. QED
    BY <2>1, <2>2, <2>3, <2>4 DEF v
<1>2. Steady' \subseteq Steady /\ Steady \subseteq Segments
  BY DEF Clean, Steady
<1>3. ASSUME NEW e \in Drains \ {d}, ~At(e, "idle")', NEW s \in Steady'
      PROVE  base'[s] = base[s] /\ drain'[e] = drain[e] /\ ~At(e, "idle") /\ s \in Steady
  <2>1. drain'[e] = drain[e] /\ ~At(e, "idle")
    BY <1>1, <1>3 DEF At
  <2>2. s \notin v
    BY <1>3, <2>1 DEF Clean, Steady
  <2>3. QED
    BY <1>1, <1>2, <1>3, <2>1, <2>2
<1>4. SavedSound'
  <2>1. ASSUME NEW s \in (Steady \ Unsaved)' PROVE Sound(s, disk[s])'
    <3>1. s \notin v
      BY <1>1, <2>1 DEF Unsaved, At
    <3>2. s \notin Unsaved
      BY <1>1, <2>1 DEF Unsaved, At
    <3>3. QED
      BY <1>1, <1>2, <2>1, <3>1, <3>2 DEF IInv, SavedSound, Sound
  <2>2. QED
    BY <2>1 DEF SavedSound
<1>5. CursorSound'
  <2>1. ASSUME NEW s \in Steady' PROVE Sound(s, drain[d].cur[s])'
    <3>1. CASE s \in v
      <4>1. Between(s, 0, count[s]) \subseteq Settled
        BY <1>1, <1>2, <2>1, <3>1 DEF IInv, VictimsSettled
      <4>2. base'[s] + drain'[d].cur[s] = count[s] /\ count[s] \in Nat
        BY <1>1, <1>2, <2>1, <3>1, Numbers DEF IInv
      <4>3. QED
        BY <1>1, <4>1, <4>2 DEF Sound
    <3>2. CASE s \notin v
      BY <1>1, <1>2, <2>1, <3>2 DEF IInv, CursorSound, At, Sound
    <3>3. QED
      BY <3>1, <3>2
  <2>2. ASSUME NEW e \in Drains \ {d}, ~At(e, "idle")', NEW s \in Steady'
        PROVE  Sound(s, drain[e].cur[s])'
    BY <1>1, <1>3, <2>2 DEF IInv, CursorSound, Sound
  <2>3. QED
    BY <2>1, <2>2 DEF CursorSound
<1>6. BatchBehindCursor'
  <2>1. ASSUME NEW e \in Drains, (At(e, "pushing") \/ At(e, "posted"))',
               NEW s \in (Pending(e) \cap Steady)'
        PROVE  (/\ base[s] + drain[e].next[s] <= count[s]
                /\ drain[e].taken[s] =
                     Between(s, base[s] + drain[e].cur[s], base[s] + drain[e].next[s]))'
    <3>1. e # d /\ ~At(e, "idle")'
      BY <1>1, <2>1 DEF At
    <3>2. base'[s] = base[s] /\ drain'[e] = drain[e] /\ s \in Steady
      BY <1>3, <2>1, <3>1
    <3>3. s \in Pending(e) /\ (At(e, "pushing") \/ At(e, "posted"))
      BY <2>1, <3>2 DEF Pending, At
    <3>4. QED
      BY <1>1, <3>2, <3>3 DEF IInv, BatchBehindCursor
  <2>2. QED
    BY <2>1 DEF BatchBehindCursor
<1>7. AckHonest'
  <2>1. ASSUME NEW e \in Drains, At(e, "posted")'
        PROVE  (/\ drain[e].post \subseteq Pending(e) /\ drain[e].reply # "none"
                /\ drain[e].reply = "ok" =>
                     \A s \in drain[e].post :
                       drain[e].taken[s] \subseteq
                         got \cup Invalid \cup Poison \cup drain[e].retry)'
    <3>1. drain'[e] = drain[e] /\ At(e, "posted")
      BY <1>1, <2>1 DEF At
    <3>2. QED
      BY <1>1, <3>1 DEF IInv, AckHonest, Pending
  <2>2. QED
    BY <2>1 DEF AckHonest
<1>8. VictimsSettled'
  <2>1. ASSUME NEW e \in Drains, At(e, "cleaning")', NEW s \in (drain[e].victims \cap Steady)'
        PROVE  (Between(s, 0, count[s]) \subseteq Settled)'
    <3>1. drain'[e] = drain[e] /\ At(e, "cleaning") /\ s \in Steady
      BY <1>1, <1>2, <2>1 DEF At
    <3>2. QED
      BY <1>1, <2>1, <3>1 DEF IInv, VictimsSettled
  <2>2. QED
    BY <2>1 DEF VictimsSettled
<1>9. QED
  BY <1>4, <1>5, <1>6, <1>7, <1>8 DEF IInv

\* What a drain writes is as sound as what it had in memory, older or not.
LEMMA SaveKeeps ==
  ASSUME IInv, TypeInv', NEW d \in Drains, Save(d)
  PROVE  IInv'
<1>1. /\ At(d, "idle")' /\ disk' = drain[d].cur /\ At(d, "saving")
      /\ \A e \in Drains \ {d} : drain'[e] = drain[e]
      /\ UNCHANGED <<count, base, got>> /\ Settled' = Settled /\ Steady' = Steady
  BY DEF Save, Idle, At, IInv, TypeInv, TypeOK, Settled, Steady
<1>2. SavedSound'
  BY <1>1 DEF IInv, CursorSound, SavedSound, At, Sound
<1>3. \A e \in Drains, pc \in Stations : pc # "idle" /\ At(e, pc)' => e # d /\ At(e, pc)
  BY <1>1 DEF At
<1>4. CursorSound'
  BY <1>1 DEF IInv, CursorSound, At, Sound
<1>5. BatchBehindCursor'
  <2>1. ASSUME NEW e \in Drains, (At(e, "pushing") \/ At(e, "posted"))',
               NEW s \in (Pending(e) \cap Steady)'
        PROVE  (/\ base[s] + drain[e].next[s] <= count[s]
                /\ drain[e].taken[s] =
                     Between(s, base[s] + drain[e].cur[s], base[s] + drain[e].next[s]))'
    <3>1. drain'[e] = drain[e] /\ (At(e, "pushing") \/ At(e, "posted"))
          /\ s \in Pending(e) \cap Steady
      BY <1>1, <2>1 DEF At, Pending
    <3>2. QED
      BY <1>1, <3>1 DEF IInv, BatchBehindCursor
  <2>2. QED
    BY <2>1 DEF BatchBehindCursor
<1>6. AckHonest'
  BY <1>1 DEF IInv, AckHonest, At, Pending
<1>7. VictimsSettled'
  BY <1>1 DEF IInv, VictimsSettled, At
<1>8. QED
  BY <1>2, <1>4, <1>5, <1>6, <1>7 DEF IInv

LEMMA AbortKeeps ==
  ASSUME IInv, TypeInv', NEW d \in Drains, Abort(d)
  PROVE  IInv'
<1>1. /\ At(d, "idle")' /\ UNCHANGED Files /\ Settled' = Settled /\ got' = got
      /\ \A e \in Drains \ {d} : drain'[e] = drain[e]
      /\ stranded' = IF At(d, "saving") THEN stranded \cup drain[d].victims ELSE stranded
  BY DEF Abort, Idle, At, IInv, TypeInv, TypeOK, Settled
<1>2. stranded \cup Unsaved \subseteq stranded' \cup Unsaved'
  BY <1>1 DEF Unsaved, At
<1>3. SavedSound'
  BY <1>1, <1>2, SavedKept
<1>4. QED
  BY <1>1, <1>3, OneDrain DEF At

LEMMA StepHolds == IInv /\ [Next]_vars => IInv'
<1> SUFFICES ASSUME IInv, [Next]_vars PROVE IInv'
  OBVIOUS
<1>1. TypeInv'
  BY TypeStep DEF IInv
<1>2. ASSUME NEW s \in Segments, Append(s) PROVE IInv'
  BY <1>1, <1>2, AppendKeeps
<1>3. ASSUME UNCHANGED <<count, base, disk, drain, got, dead, slipped, stranded>> PROVE IInv'
  <2>1. Steady' = Steady /\ Unsaved' = Unsaved /\ Settled' = Settled
    BY <1>3 DEF Steady, Unsaved, At, Settled
  <2>2. QED
    BY <1>1, <1>3, <2>1 DEF IInv, SavedSound, CursorSound, BatchBehindCursor, AckHonest,
                            VictimsSettled, At, Sound, Pending
<1>4. ASSUME NEW d \in Drains, DrainStep(d) PROVE IInv'
  <2>1. CASE Post(d)
    BY <1>1, <2>1, PostKeeps
  <2>2. CASE Open(d) \/ Gated(d) \/ Read(d)
    BY <1>1, <2>2, OpenKeeps, GatedKeeps, ReadKeeps
  <2>3. CASE ApplyCombinedAck(d) \/ CheckSegments(d) \/ Clean(d)
    BY <1>1, <2>3, AckKeeps, CheckKeeps, CleanKeeps
  <2>4. CASE Save(d) \/ Abort(d)
    BY <1>1, <2>4, SaveKeeps, AbortKeeps
  <2>5. QED
    BY <1>4, <2>1, <2>2, <2>3, <2>4 DEF DrainStep, Post
<1>5. QED
  BY <1>2, <1>3, <1>4 DEF Next, vars, ProducerExits, PidReused

\* However many drains there are and wherever their ticks are cut short, every row
\* ever appended to a segment that was not stranded is stored, given up for a
\* reason, slipped through the window the code documents, or still to be read.
THEOREM NoRowLost == Spec => []NothingLost
  BY InitHolds, StepHolds, NothingLostFollows, PTL DEF Spec

-----------------------------------------------------------------------------
(* PushDrain implements Outbox: a row is settled only once it is in the store,
   and stays so, whatever the number of drains and wherever a tick is cut short. *)

\* What is settled, and what a drain has in its hands, has been appended.
Accounted == Settled \subseteq Appended
Carried == \A d \in Drains : \A s \in Segments : drain[d].taken[s] \subseteq Appended

OutboxInv == TypeInv /\ Accounted /\ Carried

LEMMA InAppended ==
  ASSUME NEW s \in Segments, NEW a \in Nat, NEW b \in Nat, b <= count[s], count[s] \in Nat
  PROVE  Between(s, a, b) \subseteq Appended
<1>1. Between(s, a, b) \subseteq Between(s, 0, count[s])
  BY DEF Between
<1>2. QED
  BY <1>1 DEF Appended

\* A drain that moves to a record with nothing but appended rows in it.
LEMMA CarriedKept ==
  ASSUME OutboxInv, count' = count, NEW d \in Drains, NEW q, drain' = [drain EXCEPT ![d] = q],
         \A s \in Segments : q.taken[s] \subseteq Appended
  PROVE  Carried'
<1>1. Appended' = Appended
  BY DEF Appended, Between
<1>2. ASSUME NEW e \in Drains, NEW s \in Segments PROVE drain'[e].taken[s] \subseteq Appended
  <2>1. drain'[e] = IF e = d THEN q ELSE drain[e]
    BY DEF OutboxInv, TypeInv, TypeOK
  <2>2. QED
    BY <2>1 DEF OutboxInv, Carried
<1>3. QED
  BY <1>1, <1>2 DEF Carried

\* What a drain does to the store is to settle rows that are in it.
Settles == count' = count /\ Carried' /\ Settled \subseteq Settled' /\ Settled' \subseteq Appended

LEMMA ReadSettles ==
  ASSUME OutboxInv, NEW d \in Drains, Read(d)
  PROVE  Settles
<1> DEFINE r == drain[d]
           begin(s) == Start(s, r.cur[s])
           end(s) == Least(begin(s) + BatchMax, Size(s))
           batch(s) == Between(s, base[s] + begin(s), base[s] + end(s))
           ready == Segments \ r.done
           empty == {s \in ready : batch(s) = {}}
           wrong == {s \in ready \ empty : batch(s) \subseteq Invalid}
           fresh == ready \ (empty \cup wrong)
           pc == IF fresh = {} THEN "checking" ELSE "pushing"
           cur == [s \in Segments |-> IF s \in wrong THEN end(s) ELSE r.cur[s]]
           taken == [s \in Segments |-> IF s \in fresh THEN batch(s) ELSE {}]
           next == [s \in Segments |-> IF s \in fresh THEN end(s) ELSE 0]
           q == [r EXCEPT !.pc = pc, !.done = @ \cup empty, !.cur = cur, !.taken = taken,
                          !.next = next, !.round = @ + 1]
<1>1. /\ drain' = [drain EXCEPT ![d] = q] /\ dead' = dead \cup UNION {batch(s) : s \in wrong}
      /\ UNCHANGED <<Files, got, slipped>>
  BY DEF Read
<1>2. r \in DrainRecord /\ r.cur \in [Segments -> 0..MaxRows]
  BY DEF OutboxInv, TypeInv, TypeOK, DrainRecord
<1>3. ASSUME NEW s \in Segments PROVE batch(s) \subseteq Appended
  <2>1. /\ begin(s) \in Nat /\ end(s) \in Nat /\ base[s] + end(s) <= count[s]
        /\ base[s] \in Nat /\ count[s] \in Nat
    BY <1>2, BatchInFile, Numbers, ConstantsAssumption DEF OutboxInv, TypeInv
  <2>2. base[s] + begin(s) \in Nat /\ base[s] + end(s) \in Nat
    BY <2>1
  <2> HIDE DEF begin, end
  <2>3. QED
    BY <2>1, <2>2, InAppended
<1> HIDE DEF begin, end, batch
<1>4. UNION {batch(s) : s \in wrong} \subseteq Appended
  BY <1>3
<1>5. \A s \in Segments : taken[s] \subseteq Appended
  BY <1>3
<1> HIDE DEF r, ready, empty, wrong, fresh, pc, cur, taken, next
<1>6. q.taken = taken
  BY <1>2 DEF DrainRecord
<1> HIDE DEF q
<1>7. Carried' /\ count' = count
  BY <1>1, <1>5, <1>6, CarriedKept DEF Files
<1>8. QED
  BY <1>1, <1>4, <1>7 DEF Settles, Settled, OutboxInv, Accounted

LEMMA PostSettles ==
  ASSUME OutboxInv, NEW d \in Drains, Post(d)
  PROVE  Settles
<1>1. PICK group, reply, retry :
        /\ group \subseteq Segments /\ Request(d, group, reply, retry)
        /\ got \subseteq got' /\ got' \subseteq got \cup Sent(d, group)
  <2>1. CASE Accepted(d)
    BY <2>1 DEF Accepted
  <2>2. CASE Deferred(d)
    BY <2>2 DEF Deferred
  <2>3. CASE Rejected(d)
    BY <2>3 DEF Rejected
  <2>4. CASE Unanswered(d)
    <3>1. PICK group \in SUBSET Segments :
            Request(d, group, "hold", {}) /\ got' \in {got, got \cup (Sent(d, group) \ Poison)}
      BY <2>4 DEF Unanswered
    <3>2. QED
      BY <3>1
  <2>5. QED
    BY <2>1, <2>2, <2>3, <2>4 DEF Post
<1> DEFINE q == [drain[d] EXCEPT !.pc = "posted", !.post = group, !.reply = reply,
                                 !.retry = retry]
<1>2. drain' = [drain EXCEPT ![d] = q] /\ UNCHANGED <<Files, dead, slipped>>
  BY <1>1 DEF Request, Post, Accepted, Deferred, Rejected, Unanswered, OutboxInv, TypeInv, TypeOK
<1>3. q.taken = drain[d].taken
  BY DEF OutboxInv, TypeInv, TypeOK, DrainRecord
<1> HIDE DEF q
<1>4. Carried' /\ count' = count
  BY <1>2, <1>3, CarriedKept DEF Files, OutboxInv, Carried
<1>5. Sent(d, group) \subseteq Appended
  BY <1>1 DEF Sent, OutboxInv, Carried
<1>6. QED
  BY <1>1, <1>2, <1>4, <1>5 DEF Settles, Settled, OutboxInv, Accounted

LEMMA AckSettles ==
  ASSUME OutboxInv, NEW d \in Drains, ApplyCombinedAck(d)
  PROVE  Settles
<1> DEFINE r == drain[d]
           held == IF r.reply = "ok" THEN {s \in r.post : r.taken[s] \cap r.retry # {}} ELSE r.post
           moved == IF r.reply = "hold" THEN {} ELSE IF r.reply = "ok" THEN r.post \ held ELSE r.post
           given(s) == IF r.reply = "poison" THEN r.taken[s]
                       ELSE r.taken[s] \cap (Invalid \cup Poison)
           left == Pending(d) \ r.post
           pc == IF left # {} THEN "pushing"
                 ELSE IF r.done \cup held = Segments \/ r.round = MaxRounds
                 THEN "checking" ELSE "reading"
           cur == [s \in Segments |-> IF s \in moved THEN r.next[s] ELSE r.cur[s]]
           taken == [s \in Segments |-> IF s \in left THEN r.taken[s] ELSE {}]
           q == [r EXCEPT !.pc = pc, !.cur = cur, !.done = @ \cup held, !.taken = taken,
                          !.post = {}, !.reply = "none", !.retry = {}]
<1>1. /\ drain' = [drain EXCEPT ![d] = q] /\ dead' = dead \cup UNION {given(s) : s \in moved}
      /\ UNCHANGED <<Files, got, slipped>>
  BY DEF ApplyCombinedAck
<1>2. r \in DrainRecord /\ moved \subseteq Segments
  BY DEF OutboxInv, TypeInv, TypeOK, DrainRecord
<1>3. \A s \in Segments : taken[s] \subseteq Appended /\ given(s) \subseteq Appended
  BY DEF OutboxInv, Carried
<1> HIDE DEF r, held, moved, given, left, pc, cur, taken
<1>4. q.taken = taken
  BY <1>2 DEF DrainRecord
<1> HIDE DEF q
<1>5. Carried' /\ count' = count
  BY <1>1, <1>3, <1>4, CarriedKept DEF Files
<1>6. UNION {given(s) : s \in moved} \subseteq Appended
  BY <1>2, <1>3
<1>7. QED
  BY <1>1, <1>5, <1>6 DEF Settles, Settled, OutboxInv, Accounted

\* The other steps of a drain settle nothing.
LEMMA QuietSettles ==
  ASSUME OutboxInv, NEW d \in Drains,
         Open(d) \/ Gated(d) \/ CheckSegments(d) \/ Clean(d) \/ Save(d) \/ Abort(d)
  PROVE  Settles
<1>1. UNCHANGED <<count, got, dead, slipped>>
  BY DEF Open, Gated, CheckSegments, Clean, Save, Abort, Files
<1>2. PICK q : drain' = [drain EXCEPT ![d] = q] /\ (q.taken = Nothing \/ q.taken = drain[d].taken)
  <2>1. ASSUME Open(d)
        PROVE  \E q : drain' = [drain EXCEPT ![d] = q] /\ q.taken = Nothing
    <3> DEFINE q == [Idle EXCEPT !.pc = "reading", !.cur = disk]
    <3>1. drain' = [drain EXCEPT ![d] = q] /\ q.taken = Nothing
      BY <2>1 DEF Open, Idle
    <3>2. QED
      BY <3>1
  <2>2. ASSUME Gated(d)
        PROVE  \E q : drain' = [drain EXCEPT ![d] = q] /\ q.taken = drain[d].taken
    <3> DEFINE q == [drain[d] EXCEPT !.pc = "checking"]
    <3>1. drain' = [drain EXCEPT ![d] = q] /\ q.taken = drain[d].taken
      BY <2>2 DEF Gated, OutboxInv, TypeInv, TypeOK, DrainRecord
    <3>2. QED
      BY <3>1
  <2>3. ASSUME CheckSegments(d)
        PROVE  \E q : drain' = [drain EXCEPT ![d] = q] /\ q.taken = drain[d].taken
    <3> DEFINE v == {s \in Segments :
                       /\ drain[d].cur[s] >= Size(s)
                       /\ IF s \in PidSegments THEN s \notin live ELSE Size(s) > 0}
               q == [drain[d] EXCEPT !.pc = "cleaning", !.victims = v]
    <3>1. drain' = [drain EXCEPT ![d] = q] /\ drain[d] \in DrainRecord
      BY <2>3 DEF CheckSegments, OutboxInv, TypeInv, TypeOK
    <3> HIDE DEF v
    <3>2. q.taken = drain[d].taken
      BY <3>1 DEF DrainRecord
    <3>3. QED
      BY <3>1, <3>2
  <2>4. ASSUME Clean(d)
        PROVE  \E q : drain' = [drain EXCEPT ![d] = q] /\ q.taken = drain[d].taken
    <3> DEFINE cur == [s \in Segments |-> IF s \in drain[d].victims THEN 0 ELSE drain[d].cur[s]]
               q == [drain[d] EXCEPT !.pc = "saving", !.cur = cur]
    <3>1. drain' = [drain EXCEPT ![d] = q] /\ drain[d] \in DrainRecord
      BY <2>4 DEF Clean, OutboxInv, TypeInv, TypeOK
    <3> HIDE DEF cur
    <3>2. q.taken = drain[d].taken
      BY <3>1 DEF DrainRecord
    <3>3. QED
      BY <3>1, <3>2
  <2>5. ASSUME Save(d) \/ Abort(d)
        PROVE  drain' = [drain EXCEPT ![d] = Idle] /\ Idle.taken = Nothing
    BY <2>5 DEF Save, Abort, Idle
  <2>6. QED
    BY <2>1, <2>2, <2>3, <2>4, <2>5
<1>3. \A s \in Segments : q.taken[s] \subseteq Appended
  BY <1>2 DEF Nothing, OutboxInv, Carried
<1>4. Carried'
  BY <1>1, <1>2, <1>3, CarriedKept
<1>5. QED
  BY <1>1, <1>4 DEF Settles, Settled, OutboxInv, Accounted

LEMMA DrainSettles ==
  ASSUME OutboxInv, NEW d \in Drains, DrainStep(d)
  PROVE  Settles
BY ReadSettles, PostSettles, AckSettles, QuietSettles DEF DrainStep, Post

\* An append adds its row, at once settled if it goes under.
LEMMA AppendProduces ==
  ASSUME OutboxInv, NEW s \in Segments, Append(s)
  PROVE  /\ Contract!Produce(<<s, count[s] + 1>>) \/ Contract!ProduceSettled(<<s, count[s] + 1>>)
         /\ <<s, count[s] + 1>> \in Row /\ Carried'
<1> DEFINE x == <<s, count[s] + 1>>
<1>1. /\ count[s] \in Nat /\ count[s] < MaxRows /\ MaxRows \in Nat
      /\ \A t \in Segments : count'[t] = IF t = s THEN count[s] + 1 ELSE count[t]
      /\ UNCHANGED <<got, dead, drain>>
  BY Numbers, ConstantsAssumption DEF Append, OutboxInv, TypeInv, TypeOK
<1>2. x \notin Appended
  BY <1>1 DEF Appended, Between
<1>3. Appended' = Appended \cup {x}
  <2>1. \A n : n \in 1..(count[s] + 1) <=> n \in 1..count[s] \/ n = count[s] + 1
    BY <1>1
  <2>2. Between(s, 0, count'[s]) = Between(s, 0, count[s]) \cup {x}
    BY <1>1, <2>1 DEF Between
  <2>3. \A t \in Segments \ {s} : Between(t, 0, count'[t]) = Between(t, 0, count[t])
    BY <1>1
  <2>4. Appended' = UNION {Between(t, 0, count'[t]) : t \in Segments}
    BY DEF Appended, Between
  <2>5. QED
    BY <2>2, <2>3, <2>4 DEF Appended
<1>4. x \in Row
  BY <1>1 DEF Row
<1>5. Carried'
  BY <1>1, <1>3 DEF OutboxInv, Carried
<1> HIDE DEF x
<1>6. CASE slipped' = slipped
  BY <1>1, <1>2, <1>3, <1>4, <1>5, <1>6 DEF Contract!Produce, Settled, x
<1>7. CASE slipped' = slipped \cup {x}
  <2>1. Settled' = Settled \cup {x}
    BY <1>1, <1>7 DEF Settled
  <2>2. QED
    BY <1>2, <1>3, <1>4, <1>5, <2>1 DEF Contract!ProduceSettled, x
<1>8. QED
  BY <1>6, <1>7 DEF Append, x

OutboxVars == <<Appended, Settled>>

LEMMA OutboxStep == OutboxInv /\ [Next]_vars => OutboxInv' /\ [Contract!Next]_OutboxVars
<1> SUFFICES ASSUME OutboxInv, [Next]_vars PROVE OutboxInv' /\ [Contract!Next]_OutboxVars
  OBVIOUS
<1>1. TypeInv'
  BY TypeStep DEF OutboxInv
<1>2. ASSUME NEW s \in Segments, Append(s) PROVE Accounted' /\ Carried' /\ Contract!Next
  <2>1. CASE Contract!Produce(<<s, count[s] + 1>>)
    BY <1>2, <2>1, AppendProduces DEF Contract!Next, Contract!Produce, OutboxInv, Accounted
  <2>2. CASE Contract!ProduceSettled(<<s, count[s] + 1>>)
    BY <1>2, <2>2, AppendProduces DEF Contract!Next, Contract!ProduceSettled, OutboxInv, Accounted
  <2>3. QED
    BY <1>2, <2>1, <2>2, AppendProduces
<1>3. ASSUME NEW d \in Drains, DrainStep(d) PROVE Accounted' /\ Carried' /\ Contract!Next
  <2>1. Settles
    BY <1>3, DrainSettles
  <2>2. Appended' = Appended
    BY <2>1 DEF Settles, Appended, Between
  <2>3. Settled' \in SUBSET Row
    BY <1>1 DEF TypeInv, TypeOK, Settled
  <2>4. Contract!Settle(Settled')
    BY <2>1, <2>2 DEF Settles, Contract!Settle
  <2>5. QED
    BY <2>1, <2>2, <2>3, <2>4 DEF Settles, Contract!Next, Accounted
<1>4. ASSUME UNCHANGED <<count, drain, got, dead, slipped>>
      PROVE  Accounted' /\ Carried' /\ UNCHANGED OutboxVars
  <2>1. Appended' = Appended /\ Settled' = Settled
    BY <1>4 DEF Appended, Between, Settled
  <2>2. QED
    BY <1>4, <2>1 DEF OutboxInv, Accounted, Carried, OutboxVars
<1>5. QED
  BY <1>1, <1>2, <1>3, <1>4 DEF Next, vars, ProducerExits, PidReused, OutboxInv

\* Every behaviour of the drains is one of Outbox: a row is settled, that is,
\* stored by the cloud or given up, only once it has been appended, and nothing
\* that is settled or appended is ever taken back.
THEOREM DrainImplementsOutbox == Spec => Contract!Spec
<1>1. Init => OutboxInv /\ Contract!Init
  <2>1. SUFFICES ASSUME Init PROVE OutboxInv /\ Contract!Init
    OBVIOUS
  <2>2. Appended = {} /\ Settled = {}
    BY <2>1 DEF Init, Zero, Appended, Between, Settled
  <2>3. Carried
    BY <2>1 DEF Init, Idle, Nothing, Carried
  <2>4. QED
    BY <2>1, <2>2, <2>3, TypeInit DEF OutboxInv, Accounted, Contract!Init
<1>2. QED
  BY <1>1, OutboxStep, PTL DEF Spec, Contract!Spec, OutboxVars

=============================================================================
