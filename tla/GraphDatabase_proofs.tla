------------------------ MODULE GraphDatabase_proofs ------------------------
(* Theorems about GraphDatabase: its types, the probe of the breaker, the truth
   of "done", what may be in the database, and the order of the chain.       *)
EXTENDS GraphDatabase, SequenceTheorems, TLAPS

USE DatabaseAssumption

In(x, s) == \E i \in DOMAIN s : s[i] = x

-----------------------------------------------------------------------------
(* Sequences.                                                                *)

\* What is appended to a sequence keeps its type and its elements.
LEMMA InConcat ==
  ASSUME NEW T, NEW s \in Seq(T), NEW u \in Seq(T), NEW x
  PROVE  /\ s \o u \in Seq(T)
         /\ In(x, s) => In(x, s \o u)
         /\ In(x, u) => In(x, s \o u)
<1>1. s \o u \in Seq(T)
  OBVIOUS
<1>2. ASSUME In(x, s) PROVE In(x, s \o u)
  <2>1. PICK i \in DOMAIN s : s[i] = x
    BY <1>2 DEF In
  <2>2. i \in DOMAIN (s \o u) /\ (s \o u)[i] = x
    BY <2>1
  <2> QED
    BY <2>2 DEF In
<1>3. ASSUME In(x, u) PROVE In(x, s \o u)
  <2>1. PICK i \in DOMAIN u : u[i] = x
    BY <1>3 DEF In
  <2>2. Len(s) + i \in DOMAIN (s \o u) /\ (s \o u)[Len(s) + i] = x
    BY <2>1
  <2> QED
    BY <2>2 DEF In
<1> QED
  BY <1>1, <1>2, <1>3

\* RemoveAt drops one element and keeps the others.
LEMMA InRemoveAt ==
  ASSUME NEW T, NEW s \in Seq(T), NEW i \in DOMAIN s, NEW x, x # s[i], In(x, s)
  PROVE  In(x, RemoveAt(s, i))
<1>1. PICK j \in DOMAIN s : s[j] = x
  BY DEF In
<1>2. CASE j < i
  <2>1. j \in DOMAIN RemoveAt(s, i) /\ RemoveAt(s, i)[j] = x
    BY <1>1, <1>2 DEF RemoveAt
  <2> QED
    BY <2>1 DEF In
<1>3. CASE j > i
  <2> DEFINE a == SubSeq(s, 1, i - 1)
             b == SubSeq(s, i + 1, Len(s))
  <2>a. a \in Seq(T) /\ Len(a) = i - 1
    OBVIOUS
  <2>c. i \in 1..Len(s) /\ j \in 1..Len(s) /\ Len(s) \in Nat
    OBVIOUS
  <2>d. b \in Seq(T) /\ Len(b) = Len(s) - i
    BY <2>c
  <2>e. j - i \in 1..Len(b)
    BY <2>c, <2>d, <1>3
  <2>f. \A k \in (i + 1)..Len(s) : s[k] \in T
    BY <2>c
  <2>g. \A k \in 1..(Len(s) - (i + 1) + 1) : b[k] = s[i + 1 + k - 1]
    BY <2>c, <2>f, SubSeqProperties
  <2> HIDE DEF a, b
  <2>i. j - i \in 1..(Len(s) - (i + 1) + 1) /\ i + 1 + (j - i) - 1 = j
    BY <2>c, <1>3
  <2>h. ASSUME NEW k \in 1..(Len(s) - (i + 1) + 1), i + 1 + k - 1 = j PROVE b[k] = x
    BY <1>1, <2>g, <2>h
  <2>b. b[j - i] = x
    BY <2>i, <2>h
  <2>1. j - 1 \in DOMAIN (a \o b) /\ (a \o b)[j - 1] = x
    BY <1>3, <2>a, <2>b, <2>c, <2>d, <2>e
  <2> QED
    BY <2>1 DEF In, RemoveAt, a, b
<1> QED
  BY <1>1, <1>2, <1>3

\* RemoveAt keeps the type of a sequence.
LEMMA TypeRemoveAt ==
  ASSUME NEW T, NEW s \in Seq(T), NEW i \in DOMAIN s
  PROVE  RemoveAt(s, i) \in Seq(T)
BY DEF RemoveAt

\* Tail drops the first element and keeps the others.
LEMMA InTail ==
  ASSUME NEW T, NEW s \in Seq(T), s # <<>>, NEW x, x # Head(s), In(x, s)
  PROVE  In(x, Tail(s))
<1>1. PICK j \in DOMAIN s : s[j] = x
  BY DEF In
<1>2. j # 1
  BY <1>1
<1>3. j - 1 \in DOMAIN Tail(s) /\ Tail(s)[j - 1] = x
  BY <1>1, <1>2
<1> QED
  BY <1>3 DEF In

-----------------------------------------------------------------------------
(* Posting.                                                                  *)

\* What Post makes of the client's records, whatever is posted.
LEMMA PostKeeps ==
  ASSUME TypeOK, NEW pend \in Seq(Request), NEW rs \in Seq(Request),
         NEW deg \in BOOLEAN, NEW prb \in Request, Post(rs, pend, deg, prb),
         prb # NoRequest => In(prb, pend)
  PROVE  /\ pending' \in Seq(Request) /\ inbox' \in Seq(Request) /\ probe' \in Request
         /\ probe' # NoRequest => In(probe', pending')
<1> DEFINE sent == IF Admits(deg, prb) THEN rs ELSE <<>>
<1>1. sent \in Seq(Request)
  OBVIOUS
<1>2. Send(sent, pend, deg, prb)
  BY DEF Post
<1> HIDE DEF sent
<1>3. pending' = pend \o sent /\ pending' \in Seq(Request)
  BY <1>1, <1>2, InConcat DEF Send
<1>4. inbox' \in Seq(Request)
  BY <1>1, <1>2 DEF Send, TypeOK
<1>5. CASE deg /\ sent # <<>>
  <2>1. 1 \in DOMAIN sent /\ sent[1] \in Request /\ probe' = sent[1]
    BY <1>1, <1>2, <1>5 DEF Send
  <2>2. In(sent[1], sent)
    BY <2>1 DEF In
  <2> QED
    BY <1>1, <1>3, <1>4, <2>1, <2>2, InConcat
<1>6. CASE ~(deg /\ sent # <<>>)
  <2>1. probe' = prb
    BY <1>2, <1>6 DEF Send
  <2> QED
    BY <1>1, <1>3, <1>4, <2>1, InConcat
<1> QED
  BY <1>5, <1>6

\* What an answer to r leaves of the client's records, before anything is posted.
LEMMA ForgetKeeps ==
  ASSUME TypeOK, ProbeInFlight, NEW r, IsPending(r)
  PROVE  /\ Forget(r) \in Seq(Request) /\ ProbeLeft(r) \in Request
         /\ ProbeLeft(r) # NoRequest => In(ProbeLeft(r), Forget(r))
<1>1. Position(r) \in DOMAIN pending /\ pending[Position(r)] = r
  BY DEF Position, IsPending
<1>2. pending \in Seq(Request) /\ probe \in Request /\ NoRequest \in Request
  BY DEF TypeOK, Request, NoRequest, Ask, TxKinds
<1>3. Forget(r) \in Seq(Request)
  BY <1>1, <1>2, TypeRemoveAt DEF Forget
<1>4. ProbeLeft(r) \in Request
  BY <1>2 DEF ProbeLeft
<1>5. ASSUME ProbeLeft(r) # NoRequest PROVE In(ProbeLeft(r), Forget(r))
  <2>1. ProbeLeft(r) = probe /\ probe # r /\ probe # NoRequest
    BY <1>5 DEF ProbeLeft
  <2>2. In(probe, pending)
    BY <2>1 DEF ProbeInFlight, IsPending, In
  <2> QED
    BY <1>1, <1>2, <2>1, <2>2, InRemoveAt DEF Forget
<1> QED
  BY <1>3, <1>4, <1>5

\* A request is a Request, and what has none pending keeps the probe.
LEMMA AskType == /\ \A o \in Ops : Ask(o, "run") \in Request
                 /\ \A t \in Txs, k \in TxKinds : Ask(t, k) \in Request
BY DEF Ask, Request

Records == /\ pending' \in Seq(Request) /\ inbox' \in Seq(Request) /\ probe' \in Request
           /\ ProbeInFlight'

LEMMA PostedNow ==
  ASSUME TypeOK, ProbeInFlight, NEW rs \in Seq(Request), Post(rs, pending, degraded, probe)
  PROVE  Records
<1>1. pending \in Seq(Request) /\ degraded \in BOOLEAN /\ probe \in Request
  BY DEF TypeOK
<1>2. probe # NoRequest => In(probe, pending)
  BY DEF ProbeInFlight, IsPending, In
<1> QED
  BY <1>1, <1>2, PostKeeps DEF Records, ProbeInFlight, IsPending, In

LEMMA PostedAnswer ==
  ASSUME TypeOK, ProbeInFlight, NEW r, NEW ok, NEW rs \in Seq(Request), Answered(r, ok, rs)
  PROVE  /\ Records
         /\ replies' \in Seq(Reply) /\ timeouts' \in 0..RecycleAfter
         /\ degraded' \in BOOLEAN /\ recycled' \in BOOLEAN
<1>1. IsPending(r) /\ Post(rs, Forget(r), FALSE, ProbeLeft(r)) /\ FALSE \in BOOLEAN
  BY DEF Answered
<1>2. Records
  BY <1>1, ForgetKeeps, PostKeeps DEF Records, ProbeInFlight, IsPending, In
<1>3. replies' \in Seq(Reply)
  BY DEF Answered, TypeOK
<1>4. timeouts' \in 0..RecycleAfter
  BY DEF Answered
<1>5. degraded' \in BOOLEAN
  BY DEF Answered
<1>6. recycled' \in BOOLEAN
  BY DEF Answered, TypeOK
<1> QED
  BY <1>2, <1>3, <1>4, <1>5, <1>6

\* The outcome an operation settles with is one.
LEMMA SettleType ==
  ASSUME TypeOK, NEW o, NEW x \in Outcomes, Settle(o, x)
  PROVE  op' \in [Ops -> {"idle", "queued", "running"} \cup Outcomes]
BY DEF TypeOK, Settle

\* The empty sequence and those of one and two requests.
LEMMA Few ==
  /\ <<>> \in Seq(Request)
  /\ \A r \in Request : <<r>> \in Seq(Request)
  /\ \A r, q \in Request : <<r>> \o <<q>> \in Seq(Request) /\ <<r>> \o <<>> \in Seq(Request)
OBVIOUS

LEMMA StoringStep == TypeOK /\ ProbeInFlight /\ Storing => (TypeOK /\ ProbeInFlight)'
<1> SUFFICES ASSUME TypeOK, ProbeInFlight, Storing PROVE (TypeOK /\ ProbeInFlight)'
  OBVIOUS
<1> USE DEF Chained, Ops
<1>1. ASSUME NEW o \in Chained, Queue(o) PROVE (TypeOK /\ ProbeInFlight)'
  BY <1>1 DEF Queue, TypeOK, ProbeInFlight, IsPending, breaker, worker
<1>2. ASSUME NEW w \in Writes, StartWrite(w) PROVE (TypeOK /\ ProbeInFlight)'
  <2>1. Records
    BY <1>2, PostedNow, AskType, Few DEF StartWrite, TxKinds
  <2> QED
    BY <1>2, <2>1 DEF StartWrite, Begun, TypeOK, Records, Outcomes, breaker, worker
<1>3. ASSUME NEW t \in Txs, StartTx(t) PROVE (TypeOK /\ ProbeInFlight)'
  <2>1. Records
    BY <1>3, PostedNow, AskType, Few DEF StartTx, TxKinds
  <2> QED
    BY <1>3, <2>1 DEF StartTx, Begun, TypeOK, Records, Outcomes, breaker, worker
<1>4. ASSUME NEW t \in Txs, TimeoutTx(t) PROVE (TypeOK /\ ProbeInFlight)'
  <2>1. Records
    BY <1>4, PostedNow, AskType, Few DEF TimeoutTx, TxKinds
  <2> QED
    BY <1>4, <2>1 DEF TimeoutTx, TypeOK, Records, Outcomes, breaker, worker
<1>5. ASSUME NEW o \in Reads \cup Raws, Run(o) PROVE (TypeOK /\ ProbeInFlight)'
  <2>1. Records
    BY <1>5, PostedNow, AskType, Few DEF Run, TxKinds
  <2> QED
    BY <1>5, <2>1 DEF Run, Begun, TypeOK, Records, Outcomes, breaker, worker
<1>6. ASSUME NEW o \in Writes \cup Reads, TimeoutRun(o) PROVE (TypeOK /\ ProbeInFlight)'
  BY <1>6 DEF TimeoutRun, TypeOK, ProbeInFlight, IsPending, Outcomes, breaker, worker
<1> QED
  BY <1>1, <1>2, <1>3, <1>4, <1>5, <1>6 DEF Storing

\* What an answer leaves to be checked: the records of the store.
StoreTyped ==
  /\ op' \in [Ops -> {"idle", "queued", "running"} \cup Outcomes] /\ queue' \in Seq(Chained)
  /\ cb' \in [Txs -> {"idle", "begin", "stmt", "returned", "threw"}]
  /\ stmt' \in [Txs -> Nat] /\ abortDue' \subseteq Txs

LEMMA AnswerTyped ==
  ASSUME TypeOK, ProbeInFlight, NEW r, NEW ok, NEW rs \in Seq(Request), Answered(r, ok, rs),
         Unanswered, StoreTyped
  PROVE  (TypeOK /\ ProbeInFlight)'
<1>1. Records /\ replies' \in Seq(Reply) /\ timeouts' \in 0..RecycleAfter
  BY PostedAnswer
<1>2. degraded' \in BOOLEAN /\ recycled' \in BOOLEAN
  BY PostedAnswer
<1> QED
  BY <1>1, <1>2 DEF TypeOK, Unanswered, StoreTyped, Records

LEMMA ReplyingStep == TypeOK /\ ProbeInFlight /\ Replying => (TypeOK /\ ProbeInFlight)'
<1> SUFFICES ASSUME TypeOK, ProbeInFlight, Replying PROVE (TypeOK /\ ProbeInFlight)'
  OBVIOUS
<1>0. Txs \subseteq Ops /\ Writes \cup Reads \cup Raws \subseteq Ops
  BY DEF Ops, Chained
<1>1. CASE LateReply
  BY <1>1 DEF LateReply, TypeOK, ProbeInFlight, IsPending, store, breaker
<1>2. ASSUME NEW o \in Writes \cup Reads \cup Raws, AnswerRun(o)
      PROVE (TypeOK /\ ProbeInFlight)'
  <2>1. PICK ok \in BOOLEAN : /\ Answered(Ask(o, "run"), ok, <<>>) /\ Unanswered
                              /\ Settle(o, IF ok THEN "done" ELSE "error")
                              /\ UNCHANGED <<queue, cb, stmt, abortDue>>
    BY <1>2 DEF AnswerRun
  <2>2. op' \in [Ops -> {"idle", "queued", "running"} \cup Outcomes]
    BY <2>1, SettleType DEF Outcomes
  <2>3. StoreTyped
    BY <2>1, <2>2 DEF StoreTyped, TypeOK
  <2> QED
    BY <2>1, <2>3, AnswerTyped, Few
<1>3. ASSUME NEW t \in Txs, AnswerBegin(t) PROVE (TypeOK /\ ProbeInFlight)'
  <2> DEFINE rs == <<Ask(t, "stmt")>> \o IF t \in abortDue THEN <<Ask(t, "abort")>> ELSE <<>>
  <2>1. rs \in Seq(Request)
    <3>1. Ask(t, "stmt") \in Request /\ Ask(t, "abort") \in Request
      BY <1>0, AskType DEF TxKinds
    <3> QED
      BY <3>1, Few
  <2>3. op' \in [Ops -> {"idle", "queued", "running"} \cup Outcomes]
    BY <1>3, SettleType DEF AnswerBegin, TypeOK, Outcomes
  <2>2. StoreTyped
    BY <1>3, <2>3 DEF AnswerBegin, StoreTyped, TypeOK
  <2> QED
    BY <1>3, <2>1, <2>2, AnswerTyped DEF AnswerBegin
<1>4. ASSUME NEW t \in Txs, AnswerStmtMore(t) PROVE (TypeOK /\ ProbeInFlight)'
  <2>1. <<Ask(t, "stmt")>> \in Seq(Request)
    BY <1>0, AskType, Few DEF TxKinds
  <2>3. op' \in [Ops -> {"idle", "queued", "running"} \cup Outcomes]
    BY <1>4, SettleType DEF AnswerStmtMore, TypeOK, Outcomes
  <2>2. StoreTyped
    BY <1>4, <2>3 DEF AnswerStmtMore, Counted, StoreTyped, TypeOK
  <2> QED
    BY <1>4, <2>1, <2>2, AnswerTyped DEF AnswerStmtMore
<1>5. ASSUME NEW t \in Txs, AnswerStmtLast(t) PROVE (TypeOK /\ ProbeInFlight)'
  <2>1. CommitOf(t) \in Seq(Request)
    BY <1>0, AskType, Few DEF CommitOf, TxKinds
  <2>3. op' \in [Ops -> {"idle", "queued", "running"} \cup Outcomes]
    BY <1>5, SettleType DEF AnswerStmtLast, TypeOK, Outcomes
  <2>2. StoreTyped
    BY <1>5, <2>3 DEF AnswerStmtLast, Counted, StoreTyped, TypeOK
  <2> QED
    BY <1>5, <2>1, <2>2, AnswerTyped DEF AnswerStmtLast
<1>6. ASSUME NEW t \in Txs, AnswerStmtThrow(t) PROVE (TypeOK /\ ProbeInFlight)'
  <2>1. AbortOf(t) \in Seq(Request)
    BY <1>0, AskType, Few DEF AbortOf, TxKinds
  <2>2. PICK ok \in BOOLEAN : /\ Answered(Ask(t, "stmt"), ok, AbortOf(t)) /\ Unanswered
                              /\ Settle(t, "error")
                              /\ stmt' = [stmt EXCEPT ![t] = IF ok THEN @ + 1 ELSE @]
                              /\ cb' = [cb EXCEPT ![t] = "threw"]
                              /\ UNCHANGED <<queue, abortDue>>
    BY <1>6 DEF AnswerStmtThrow, Counted
  <2>4. op' \in [Ops -> {"idle", "queued", "running"} \cup Outcomes]
    BY <2>2, SettleType DEF Outcomes
  <2>3. StoreTyped
    BY <2>2, <2>4 DEF StoreTyped, TypeOK
  <2> QED
    BY <2>1, <2>2, <2>3, AnswerTyped
<1>7. ASSUME NEW t \in Txs, AnswerCommit(t) PROVE (TypeOK /\ ProbeInFlight)'
  <2>1. PICK ok \in BOOLEAN :
          /\ Answered(Ask(t, "commit"), ok, IF ok THEN <<>> ELSE <<Ask(t, "abort")>>)
          /\ Settle(t, IF ok THEN "done" ELSE "error") /\ Unanswered
          /\ UNCHANGED <<queue, cb, stmt, abortDue>>
    BY <1>7 DEF AnswerCommit
  <2>2. (IF ok THEN <<>> ELSE <<Ask(t, "abort")>>) \in Seq(Request)
    BY <1>0, AskType, Few DEF TxKinds
  <2>3. StoreTyped
    BY <2>1 DEF StoreTyped, TypeOK, Settle, Outcomes
  <2> QED
    BY <2>1, <2>2, <2>3, AnswerTyped
<1>8. ASSUME NEW t \in Txs, AnswerAbort(t) PROVE (TypeOK /\ ProbeInFlight)'
  <2>1. StoreTyped
    BY <1>8 DEF AnswerAbort, StoreTyped, TypeOK, store
  <2> QED
    BY <1>8, <2>1, AnswerTyped, Few DEF AnswerAbort
<1> QED
  BY <1>1, <1>2, <1>3, <1>4, <1>5, <1>6, <1>7, <1>8 DEF Replying

LEMMA EndingStep == TypeOK /\ ProbeInFlight /\ Ending => (TypeOK /\ ProbeInFlight)'
<1> SUFFICES ASSUME TypeOK, ProbeInFlight, Ending PROVE (TypeOK /\ ProbeInFlight)'
  OBVIOUS
<1>u. Up(timeouts) \in 0..RecycleAfter
  BY DEF Up, TypeOK
<1>1. CASE RequestTimeout
  <2> DEFINE r == Head(pending)
             rs == IF r.kind = "commit" THEN <<Ask(r.op, "abort")>> ELSE <<>>
  <2>1. pending # <<>> /\ r \in Request /\ Tail(pending) \in Seq(Request)
    BY <1>1 DEF RequestTimeout, TypeOK
  <2>2. r.kind = "commit" => r.op \in Txs
    BY <2>1 DEF Request
  <2>3. rs \in Seq(Request)
    BY <2>2, AskType, Few DEF TxKinds
  <2>4. degraded' \in BOOLEAN
    BY <1>1 DEF RequestTimeout
  <2>5. ProbeLeft(r) \in Request
    BY DEF ProbeLeft, TypeOK, NoRequest, Ask, Request, TxKinds
  <2>6. ProbeLeft(r) # NoRequest => In(ProbeLeft(r), Tail(pending))
    <3>1. SUFFICES ASSUME ProbeLeft(r) # NoRequest PROVE In(probe, Tail(pending)) /\ ProbeLeft(r) = probe
      OBVIOUS
    <3>2. ProbeLeft(r) = probe /\ probe # r /\ In(probe, pending)
      BY <3>1 DEF ProbeLeft, ProbeInFlight, IsPending, In
    <3> QED
      BY <2>1, <3>2, InTail DEF TypeOK
  <2>7. Post(rs, Tail(pending), degraded', ProbeLeft(r))
    BY <1>1 DEF RequestTimeout
  <2>8. Records
    <3> HIDE DEF rs, r
    <3> QED
      BY <2>1, <2>3, <2>4, <2>5, <2>6, <2>7, PostKeeps DEF Records, ProbeInFlight, IsPending, In
  <2>9. recycled' \in BOOLEAN
    BY <1>1 DEF RequestTimeout
  <2>10. op' \in [Ops -> {"idle", "queued", "running"} \cup Outcomes]
    BY <1>1, SettleType DEF RequestTimeout, Outcomes
  <2>11. cb' \in [Txs -> {"idle", "begin", "stmt", "returned", "threw"}] /\ abortDue' \subseteq Txs
    BY <1>1 DEF RequestTimeout, TypeOK
  <2>12. timeouts' \in 0..RecycleAfter
    BY <1>1, <1>u DEF RequestTimeout
  <2> QED
    BY <1>1, <2>4, <2>8, <2>9, <2>10, <2>11, <2>12 DEF RequestTimeout, TypeOK, Records, worker
<1>g. ASSUME Gone PROVE /\ inbox' \in Seq(Request) /\ replies' \in Seq(Reply) /\ busy' \subseteq Request
                       /\ open' \subseteq Txs /\ alive' \in BOOLEAN
                       /\ UNCHANGED <<staged, applied>>
  <2>1. <<>> \in Seq(Request) /\ <<>> \in Seq(Reply) /\ FALSE \in BOOLEAN
    OBVIOUS
  <2> QED
    BY <1>g, <2>1 DEF Gone
<1>2. CASE WorkerDies
  BY <1>2, <1>g DEF WorkerDies, TypeOK, ProbeInFlight, IsPending, store, breaker
<1>3. CASE ExitSeen
  <2>1. NoRequest \in Request /\ <<>> \in Seq(Request)
    BY DEF NoRequest, Ask, Request, TxKinds
  <2>2. op' \in [Ops -> {"idle", "queued", "running"} \cup Outcomes]
    BY <1>3 DEF ExitSeen, TypeOK, Outcomes
  <2>3. cb' \in [Txs -> {"idle", "begin", "stmt", "returned", "threw"}]
    BY <1>3 DEF ExitSeen, TypeOK
  <2> QED
    BY <1>3, <2>1, <2>2, <2>3 DEF ExitSeen, failAll, TypeOK, ProbeInFlight, breaker, worker
<1>4. CASE Close
  <2>1. CASE degraded \/ fatal
    BY <1>4, <2>1, <1>g DEF Close, TypeOK, ProbeInFlight, IsPending, store, breaker
  <2>2. CASE ~(degraded \/ fatal)
    <3>1. <<CloseAsk>> \in Seq(Request) /\ pending \in Seq(Request)
      BY Few DEF CloseAsk, Ask, Request, TxKinds, TypeOK
    <3>2. Send(<<CloseAsk>>, pending, degraded, probe)
      BY <1>4, <2>2 DEF Close
    <3>3. pending' = pending \o <<CloseAsk>> /\ probe' = probe /\ inbox' \in Seq(Request)
      BY <2>2, <3>1, <3>2 DEF Send, TypeOK
    <3>4. pending' \in Seq(Request) /\ (In(probe, pending) => In(probe, pending'))
      BY <3>1, <3>3, InConcat
    <3>5. ProbeInFlight'
      BY <3>3, <3>4 DEF ProbeInFlight, IsPending, In
    <3> QED
      BY <1>4, <2>2, <3>3, <3>4, <3>5 DEF Close, TypeOK, store, breaker, worker
  <2> QED
    BY <2>1, <2>2
<1>5. CASE Terminate
  <2>1. /\ pending' \in Seq(Request) /\ probe' \in Request /\ ProbeInFlight'
    BY <1>5, ForgetKeeps DEF Terminate, ProbeInFlight, IsPending, In
  <2>2. timeouts' \in 0..RecycleAfter /\ degraded' \in BOOLEAN /\ recycled' \in BOOLEAN
    <3>1. timeouts' \in 0..RecycleAfter
      BY <1>5, <1>u DEF Terminate
    <3>2. degraded' \in BOOLEAN
      BY <1>5 DEF Terminate
    <3>3. recycled' \in BOOLEAN
      BY <1>5 DEF Terminate, TypeOK
    <3> QED
      BY <3>1, <3>2, <3>3
  <2> QED
    BY <1>5, <2>1, <2>2, <1>g DEF Terminate, TypeOK, store
<1> QED
  BY <1>1, <1>2, <1>3, <1>4, <1>5 DEF Ending

LEMMA WorkingStep == TypeOK /\ ProbeInFlight /\ Working => (TypeOK /\ ProbeInFlight)'
<1> SUFFICES ASSUME TypeOK, ProbeInFlight, Working PROVE (TypeOK /\ ProbeInFlight)'
  OBVIOUS
<1>0. Txs \subseteq Ops /\ Writes \cup Reads \cup Raws \subseteq Ops
  BY DEF Ops, Chained
<1>a. ASSUME NEW r \in Request, NEW ok \in BOOLEAN, Answer(r, ok) PROVE replies' \in Seq(Reply)
  BY <1>a DEF Answer, TypeOK, Reply
<1>1. CASE Dispatch
  <2> DEFINE r == Head(inbox)
  <2>1. r \in Request /\ inbox' \in Seq(Request)
    BY <1>1 DEF Dispatch, TypeOK
  <2>2. r.kind = "begin" => r.op \in Txs
    BY <2>1 DEF Request
  <2>3. replies' \in Seq(Reply)
    BY <1>1, <2>1, <1>a DEF Dispatch, TypeOK
  <2>4. open' \subseteq Txs /\ busy' \subseteq Request
    BY <1>1, <2>1, <2>2 DEF Dispatch, TypeOK
  <2> QED
    BY <1>1, <2>1, <2>3, <2>4 DEF Dispatch, TypeOK, ProbeInFlight, IsPending, store, breaker
<1>2. ASSUME NEW o \in Reads, FinishRead(o) PROVE (TypeOK /\ ProbeInFlight)'
  <2>1. Ask(o, "run") \in Request
    BY <1>0, AskType DEF TxKinds
  <2>2. replies' \in Seq(Reply)
    BY <1>2, <1>a, <2>1 DEF FinishRead, Ended
  <2> QED
    BY <1>2, <2>2 DEF FinishRead, Ended, TypeOK, ProbeInFlight, IsPending, store, breaker
<1>3. ASSUME NEW o \in Writes \cup Raws, FinishWrite(o) PROVE (TypeOK /\ ProbeInFlight)'
  <2>1. Ask(o, "run") \in Request /\ o \in Ops
    BY <1>0, AskType DEF TxKinds
  <2>2. replies' \in Seq(Reply) /\ applied' \in Seq(Ops)
    BY <1>3, <1>a, <2>1 DEF FinishWrite, Ended, TypeOK
  <2> QED
    BY <1>3, <2>2 DEF FinishWrite, Ended, TypeOK, ProbeInFlight, IsPending, store, breaker
<1>4. ASSUME NEW t \in Txs, FinishStmt(t) PROVE (TypeOK /\ ProbeInFlight)'
  <2>1. Ask(t, "stmt") \in Request
    BY <1>0, AskType DEF TxKinds
  <2>2. replies' \in Seq(Reply) /\ staged' \in [Txs -> Nat]
    BY <1>4, <1>a, <2>1 DEF FinishStmt, Ended, TypeOK
  <2> QED
    BY <1>4, <2>2 DEF FinishStmt, Ended, TypeOK, ProbeInFlight, IsPending, store, breaker
<1>5. ASSUME NEW t \in Txs, FinishCommit(t) PROVE (TypeOK /\ ProbeInFlight)'
  <2>1. Ask(t, "commit") \in Request /\ t \in Ops
    BY <1>0, AskType DEF TxKinds
  <2>2. replies' \in Seq(Reply) /\ applied' \in Seq(Ops) /\ open' \subseteq Txs
    BY <1>5, <1>a, <2>1 DEF FinishCommit, Ended, TypeOK
  <2> QED
    BY <1>5, <2>2 DEF FinishCommit, Ended, TypeOK, ProbeInFlight, IsPending, store, breaker
<1> QED
  BY <1>1, <1>2, <1>3, <1>4, <1>5 DEF Working

-----------------------------------------------------------------------------
(* "Done" is true: the answers on their way are, and so is what callers were told. *)

Claims(a) == a.ok /\ a.req.kind \in {"run", "commit"} /\ a.req.op \in Writing
AnswersTrue == \A i \in DOMAIN replies : Claims(replies[i]) => InDatabase(replies[i].req.op)
Truth == AnswersTrue /\ DoneIsApplied

\* Steps that neither answer nor tell anybody "done".
LEMMA NothingClaimed ==
  ASSUME TypeOK, Truth, applied' = applied, replies' = replies \/ replies' = <<>>,
         \A o \in Ops : op'[o] = "done" => op[o] = "done"
  PROVE  Truth'
<1>1. Writing \subseteq Ops
  BY DEF Writing, Ops, Chained
<1> QED
  BY <1>1 DEF Truth, AnswersTrue, DoneIsApplied, InDatabase, Claims, Writing

\* Steps that take an answer.
LEMMA AnswerTaken ==
  ASSUME TypeOK, Truth, replies # <<>>, replies' = Tail(replies), applied' = applied,
         \A o \in Writing : op'[o] = "done" =>
            op[o] = "done" \/ (Claims(Head(replies)) /\ Head(replies).req.op = o)
  PROVE  Truth'
<1>1. replies \in Seq(Reply)
  BY DEF TypeOK
<1>2. \A i \in DOMAIN Tail(replies) : i + 1 \in DOMAIN replies /\ Tail(replies)[i] = replies[i + 1]
  BY <1>1
<1>3. 1 \in DOMAIN replies /\ Head(replies) = replies[1]
  BY <1>1
<1>4. \A o : InDatabase(o)' <=> InDatabase(o)
  BY DEF InDatabase
<1>5. AnswersTrue'
  BY <1>2, <1>4 DEF Truth, AnswersTrue, Claims, Writing
<1>6. DoneIsApplied'
  BY <1>3, <1>4 DEF Truth, AnswersTrue, DoneIsApplied, Writing
<1> QED
  BY <1>5, <1>6 DEF Truth

\* Steps of the worker that answer.
LEMMA AnswerGiven ==
  ASSUME TypeOK, Truth, NEW r \in Request, NEW ok \in BOOLEAN, Answer(r, ok), op' = op,
         \A o : InDatabase(o) => InDatabase(o)',
         Claims([req |-> r, ok |-> ok]) => InDatabase(r.op)'
  PROVE  Truth'
<1> DEFINE a == [req |-> r, ok |-> ok]
<1>1. replies \in Seq(Reply) /\ a \in Reply /\ replies' = Append(replies, a)
  BY DEF TypeOK, Reply, Answer
<1>2. a.req = r
  OBVIOUS
<1> HIDE DEF a
<1>3. \A i \in DOMAIN replies' : replies'[i] = a \/ (i \in DOMAIN replies /\ replies'[i] = replies[i])
  BY <1>1
<1>4. AnswersTrue'
  <2> SUFFICES ASSUME NEW i \in DOMAIN replies', Claims(replies[i])'
               PROVE  InDatabase(replies[i].req.op)'
    BY DEF AnswersTrue
  <2>1. CASE replies'[i] = a
    BY <1>2, <2>1 DEF a, Claims, InDatabase
  <2>2. CASE i \in DOMAIN replies /\ replies'[i] = replies[i]
    BY <2>2 DEF Truth, AnswersTrue, Claims, InDatabase
  <2> QED
    BY <1>3, <2>1, <2>2
<1>5. DoneIsApplied'
  BY DEF Truth, DoneIsApplied, Writing
<1> QED
  BY <1>4, <1>5 DEF Truth

LEMMA TruthStoring == TypeOK /\ Truth /\ Storing => Truth'
<1> SUFFICES ASSUME TypeOK, Truth, Storing PROVE Truth'
  OBVIOUS
<1>1. \A o \in Ops : op'[o] = "done" => op[o] = "done"
  BY DEF Storing, Queue, StartWrite, StartTx, TimeoutTx, Run, TimeoutRun, Begun, TypeOK, Ops, Chained
<1>2. applied' = applied /\ replies' = replies
  BY DEF Storing, Queue, StartWrite, StartTx, TimeoutTx, Run, TimeoutRun, worker
<1> QED
  BY <1>1, <1>2, NothingClaimed

LEMMA TruthEnding == TypeOK /\ Truth /\ Ending => Truth'
<1> SUFFICES ASSUME TypeOK, Truth, Ending PROVE Truth'
  OBVIOUS
<1>1. \A o \in Ops : op'[o] = "done" => op[o] = "done"
  BY DEF Ending, RequestTimeout, WorkerDies, ExitSeen, Close, Terminate, Settle, TypeOK, store
<1>2. applied' = applied /\ (replies' = replies \/ replies' = <<>>)
  BY DEF Ending, RequestTimeout, WorkerDies, ExitSeen, Close, Terminate, Gone, worker
<1> QED
  BY <1>1, <1>2, NothingClaimed

LEMMA TruthReplying == TypeOK /\ Truth /\ Replying => Truth'
<1> SUFFICES ASSUME TypeOK, Truth, Replying PROVE Truth'
  OBVIOUS
<1>0. Writing \subseteq Ops
  BY DEF Writing, Ops, Chained
<1>1. CASE LateReply
  BY <1>1, AnswerTaken DEF LateReply, store
<1>2. ASSUME NEW o \in Writes \cup Reads \cup Raws, AnswerRun(o) PROVE Truth'
  <2>1. PICK ok \in BOOLEAN : /\ Answered(Ask(o, "run"), ok, <<>>) /\ Unanswered
                              /\ Settle(o, IF ok THEN "done" ELSE "error")
    BY <1>2 DEF AnswerRun
  <2>2. \A p \in Writing : op'[p] = "done" =>
          op[p] = "done" \/ (Claims(Head(replies)) /\ Head(replies).req.op = p)
    BY <1>0, <2>1 DEF Settle, Answered, Claims, Ask, TypeOK
  <2> QED
    BY <2>1, <2>2, AnswerTaken DEF Answered, Unanswered
<1>3. ASSUME NEW t \in Txs, AnswerCommit(t) PROVE Truth'
  <2>1. PICK ok \in BOOLEAN :
          /\ Answered(Ask(t, "commit"), ok, IF ok THEN <<>> ELSE <<Ask(t, "abort")>>)
          /\ Settle(t, IF ok THEN "done" ELSE "error") /\ Unanswered
    BY <1>3 DEF AnswerCommit
  <2>2. \A p \in Writing : op'[p] = "done" =>
          op[p] = "done" \/ (Claims(Head(replies)) /\ Head(replies).req.op = p)
    BY <1>0, <2>1 DEF Settle, Answered, Claims, Ask, TypeOK
  <2> QED
    BY <2>1, <2>2, AnswerTaken DEF Answered, Unanswered
<1>4. ASSUME NEW t \in Txs, NEW r, NEW ok, NEW rs, Answered(r, ok, rs), Unanswered,
             UNCHANGED op \/ Settle(t, "error")
      PROVE  Truth'
  <2>1. \A p \in Writing : op'[p] = "done" => op[p] = "done"
    BY <1>0, <1>4 DEF Settle, TypeOK
  <2> QED
    BY <1>4, <2>1, AnswerTaken DEF Answered, Unanswered
<1>5. ASSUME NEW t \in Txs,
             AnswerBegin(t) \/ AnswerStmtMore(t) \/ AnswerStmtLast(t) \/ AnswerStmtThrow(t) \/ AnswerAbort(t)
      PROVE  Truth'
  BY <1>4, <1>5 DEF AnswerBegin, AnswerStmtMore, AnswerStmtLast, AnswerStmtThrow, AnswerAbort, store
<1> QED
  BY <1>1, <1>2, <1>3, <1>5 DEF Replying

LEMMA TruthWorking == TypeOK /\ Truth /\ Working => Truth'
<1> SUFFICES ASSUME TypeOK, Truth, Working PROVE Truth'
  OBVIOUS
<1>0. Txs \subseteq Ops /\ Writes \cup Reads \cup Raws \subseteq Ops
  BY DEF Ops, Chained
<1>1. CASE Dispatch
  <2> DEFINE r == Head(inbox)
  <2>1. r \in Request /\ op' = op /\ applied' = applied
    BY <1>1 DEF Dispatch, TypeOK, store
  <2>2. \A o : InDatabase(o) => InDatabase(o)'
    BY <2>1 DEF InDatabase
  <2>3. CASE UNCHANGED replies
    BY <2>1, <2>3, NothingClaimed
  <2>4. ASSUME NEW ok \in BOOLEAN, Answer(r, ok), ok = FALSE \/ r.kind \in {"begin", "abort", "close"}
        PROVE  Truth'
    <3>1. ~Claims([req |-> r, ok |-> ok])
      BY <2>4 DEF Claims
    <3> QED
      BY <2>1, <2>2, <2>4, <3>1, AnswerGiven
  <2> QED
    BY <1>1, <2>3, <2>4 DEF Dispatch
<1>2. ASSUME NEW o \in Reads, FinishRead(o) PROVE Truth'
  <2>1. PICK ok \in BOOLEAN : Ended(Ask(o, "run"), ok) /\ UNCHANGED applied
    BY <1>2 DEF FinishRead
  <2>2. Ask(o, "run") \in Request /\ ~Claims([req |-> Ask(o, "run"), ok |-> ok])
    BY <1>0, AskType, DatabaseAssumption DEF Claims, Ask, Writing, Chained
  <2> QED
    BY <2>1, <2>2, AnswerGiven DEF Ended, InDatabase, store
<1>3. ASSUME NEW o \in Ops, NEW k \in {"run", "commit"}, NEW ok \in BOOLEAN, Ask(o, k) \in Request,
             Ended(Ask(o, k), ok), applied' = IF ok THEN Append(applied, o) ELSE applied
      PROVE  Truth'
  <2>1. applied \in Seq(Ops)
    BY DEF TypeOK
  <2>2. \A p : InDatabase(p) => InDatabase(p)'
    BY <1>3, <2>1 DEF InDatabase
  <2>3. ok => applied'[Len(applied) + 1] = o /\ Len(applied) + 1 \in DOMAIN applied'
    BY <1>3, <2>1
  <2>4. ok => InDatabase(o)'
    BY <2>3 DEF InDatabase
  <2>5. Claims([req |-> Ask(o, k), ok |-> ok]) => InDatabase(Ask(o, k).op)'
    BY <2>4 DEF Claims, Ask
  <2> QED
    BY <1>3, <2>2, <2>5, AnswerGiven DEF Ended, store
<1>4. ASSUME NEW o \in Writes \cup Raws, FinishWrite(o) PROVE Truth'
  BY <1>0, <1>3, <1>4, AskType DEF FinishWrite
<1>5. ASSUME NEW t \in Txs, FinishCommit(t) PROVE Truth'
  BY <1>0, <1>3, <1>5, AskType DEF FinishCommit, TxKinds
<1>6. ASSUME NEW t \in Txs, FinishStmt(t) PROVE Truth'
  <2>1. PICK ok \in BOOLEAN : Ended(Ask(t, "stmt"), ok) /\ UNCHANGED applied
    BY <1>6 DEF FinishStmt
  <2>2. Ask(t, "stmt") \in Request /\ ~Claims([req |-> Ask(t, "stmt"), ok |-> ok])
    BY AskType DEF Claims, Ask, TxKinds
  <2> QED
    BY <2>1, <2>2, AnswerGiven DEF Ended, InDatabase, store
<1> QED
  BY <1>1, <1>2, <1>4, <1>5, <1>6 DEF Working

-----------------------------------------------------------------------------
(* The theorems.                                                             *)

Inv == TypeOK /\ ProbeInFlight /\ Truth

LEMMA Initially == Init => Inv
<1> SUFFICES ASSUME Init PROVE Inv
  OBVIOUS
<1>t. /\ <<>> \in Seq(Request) /\ <<>> \in Seq(Reply) /\ <<>> \in Seq(Chained) /\ <<>> \in Seq(Ops)
      /\ 0 \in 0..RecycleAfter
  OBVIOUS
<1>q. NoRequest \in Request
  BY DEF NoRequest, Ask, Request
<1>1. TypeOK
  BY <1>t, <1>q DEF Init, TypeOK
<1>2. ProbeInFlight /\ Truth
  BY DEF Init, ProbeInFlight, Truth, AnswersTrue, DoneIsApplied, Writing, Ops, Chained
<1> QED
  BY <1>1, <1>2 DEF Inv

LEMMA Stuttering == Inv /\ UNCHANGED vars => Inv'
BY DEF Inv, vars, store, breaker, worker, TypeOK, ProbeInFlight, IsPending, Truth, AnswersTrue,
       DoneIsApplied, InDatabase, Claims, Writing

LEMMA Inductive == Inv /\ [Next]_vars => Inv'
<1>1. ASSUME Inv, Next PROVE Inv'
  <2>1. (TypeOK /\ ProbeInFlight)'
    BY <1>1, StoringStep, ReplyingStep, EndingStep, WorkingStep DEF Inv, Next
  <2>2. Truth'
    BY <1>1, TruthStoring, TruthReplying, TruthEnding, TruthWorking DEF Inv, Next
  <2> QED
    BY <2>1, <2>2 DEF Inv
<1> QED
  BY <1>1, Stuttering

\* The records of store, client and worker keep their types, for any sets of operations
\* and whatever the worker does.
THEOREM TypeCorrect == Spec => []TypeOK
<1>1. Inv => TypeOK
  BY DEF Inv
<1> QED
  BY <1>1, Initially, Inductive, PTL DEF Spec

\* The probe of an open breaker is always a pending request, which will be answered or
\* will time out: the fast rejection of postRequest() never becomes permanent.
THEOREM ProbeNeverLost == Spec => []ProbeInFlight
<1>1. Inv => ProbeInFlight
  BY DEF Inv
<1> QED
  BY <1>1, Initially, Inductive, PTL DEF Spec

\* Whatever write() or transact() reports done is in the database.
THEOREM DoneIsTrue == Spec => []DoneIsApplied
<1>1. Inv => DoneIsApplied
  BY DEF Inv, Truth
<1> QED
  BY <1>1, Initially, Inductive, PTL DEF Spec

-----------------------------------------------------------------------------
(* What is in the database belongs there.  The argument follows each request on its
   way: posted once, it is ahead of the worker's answer (in its inbox, or in native
   code) or behind it (among the replies), never both, whoever still waits for it.  *)

\* At most one element of s is in X.
One(X, s) == \A i, j \in DOMAIN s : s[i] \in X /\ s[j] \in X => i = j

Both(r) == {[req |-> r, ok |-> TRUE], [req |-> r, ok |-> FALSE]}

InBox(r) == In(r, inbox)
Ahead(r) == InBox(r) \/ r \in busy
Back(r, ok) == In([req |-> r, ok |-> ok], replies)
Out(r) == Ahead(r) \/ Back(r, TRUE) \/ Back(r, FALSE)
Pend(r) == In(r, pending)

\* Of request r there is one copy at each place, and one place on the way.
Single(r) ==
  /\ One({r}, inbox) /\ One({r}, pending) /\ One(Both(r), replies)
  /\ ~(InBox(r) /\ r \in busy)
  /\ Ahead(r) => ~Back(r, TRUE) /\ ~Back(r, FALSE)

Kinds(o) == IF o \in Txs THEN {"begin", "stmt", "commit"} ELSE {"run"}
Tracked == UNION {{Ask(o, k) : k \in Kinds(o)} : o \in Ops}

\* The request of o that takes effect.
End(o) == Ask(o, IF o \in Txs THEN "commit" ELSE "run")

\* Every operation: one not yet started has left no trace, and no effect is to come of
\* one that failed, nor a second one or a failure of one in the database.
OpFate(o) ==
  /\ op[o] \in {"idle", "queued"} =>
       ~InDatabase(o) /\ \A k \in Kinds(o) : ~Out(Ask(o, k)) /\ ~Pend(Ask(o, k))
  /\ op[o] = "error" /\ ~fatal => ~InDatabase(o) /\ ~Ahead(End(o))
  /\ InDatabase(o) => ~Ahead(End(o)) /\ ~Back(End(o), FALSE)

\* Every transaction: what is pending, under way and staged fits where its callback is.
TxFate(t) ==
  LET begin == Ask(t, "begin")
      next == Ask(t, "stmt")
      commit == Ask(t, "commit")
  IN
  /\ op[t] \in {"idle", "queued"} => cb[t] = "idle"
  /\ Pend(begin) => cb[t] = "begin"
  /\ Pend(next) => cb[t] = "stmt"
  /\ Pend(commit) => cb[t] = "returned"
  /\ Out(begin) => cb[t] \in {"begin", "threw"}
  /\ Out(next) => cb[t] = "threw" \/ (cb[t] = "stmt" /\ Pend(next))
  /\ Out(commit) => cb[t] = "returned"
  /\ cb[t] \in {"idle", "begin"} => staged[t] = stmt[t]
  /\ t \in open /\ cb[t] \in {"stmt", "returned"} =>
       staged[t] = IF Back(next, TRUE) THEN stmt[t] + 1 ELSE stmt[t]
  /\ commit \in busy \/ InDatabase(t) => cb[t] = "returned" /\ staged[t] = stmt[t]

Fate == /\ \A r \in Tracked : Single(r)
        /\ \A o \in Ops : OpFate(o)
        /\ \A t \in Txs : TxFate(t)

-----------------------------------------------------------------------------
(* Copies.                                                                   *)

LEMMA TailCopies ==
  ASSUME NEW T, NEW s \in Seq(T), s # <<>>, NEW X, One(X, s)
  PROVE  /\ One(X, Tail(s))
         /\ \A x \in X : In(x, Tail(s)) <=> In(x, s) /\ Head(s) \notin X
         /\ \A x : In(x, Tail(s)) => In(x, s)
<1>1. \A i \in DOMAIN Tail(s) : i + 1 \in DOMAIN s /\ Tail(s)[i] = s[i + 1]
  OBVIOUS
<1>2. One(X, Tail(s))
  BY <1>1 DEF One
<1>3. ASSUME NEW x, In(x, Tail(s)) PROVE In(x, s)
  BY <1>1, <1>3 DEF In
<1>4. ASSUME NEW x \in X, In(x, Tail(s)) PROVE Head(s) \notin X
  <2>1. PICK i \in DOMAIN Tail(s) : Tail(s)[i] = x
    BY <1>4 DEF In
  <2>2. 1 \in DOMAIN s /\ i + 1 \in DOMAIN s /\ s[i + 1] = x /\ i + 1 # 1 /\ Head(s) = s[1]
    BY <1>1, <2>1
  <2> QED
    BY <1>4, <2>2 DEF One
<1>5. ASSUME NEW x \in X, In(x, s), Head(s) \notin X PROVE In(x, Tail(s))
  BY <1>5, InTail
<1> QED
  BY <1>2, <1>3, <1>4, <1>5

LEMMA RemoveCopies ==
  ASSUME NEW T, NEW s \in Seq(T), NEW n \in DOMAIN s, NEW x, One({x}, s)
  PROVE  /\ One({x}, RemoveAt(s, n))
         /\ In(x, RemoveAt(s, n)) <=> In(x, s) /\ x # s[n]
<1> DEFINE u == RemoveAt(s, n)
<1>1. /\ \A i \in DOMAIN u : /\ i < n => i \in DOMAIN s /\ u[i] = s[i]
                             /\ i >= n => i + 1 \in DOMAIN s /\ u[i] = s[i + 1]
      /\ DOMAIN u \subseteq Int /\ DOMAIN s \subseteq Int
  <2> DEFINE a == SubSeq(s, 1, n - 1)
             b == SubSeq(s, n + 1, Len(s))
  <2>1. n \in 1..Len(s) /\ Len(s) \in Nat /\ DOMAIN s = 1..Len(s)
    OBVIOUS
  <2>2. \A k \in 1..Len(s) : s[k] \in T
    OBVIOUS
  <2>3. a \in Seq(T) /\ Len(a) = n - 1 /\ \A k \in 1..(n - 1) : a[k] = s[k]
    BY <2>1, <2>2, SubSeqProperties
  <2>4. b \in Seq(T) /\ Len(b) = Len(s) - n
    BY <2>1
  <2>5. \A k \in (n + 1)..Len(s) : s[k] \in T
    BY <2>1, <2>2
  <2>6. \A k \in 1..(Len(s) - (n + 1) + 1) : b[k] = s[n + 1 + k - 1]
    BY <2>1, <2>5, SubSeqProperties
  <2>7. \A k \in 1..(Len(s) - n) : b[k] = s[n + k]
    <3>1. ASSUME NEW k \in 1..(Len(s) - n) PROVE b[k] = s[n + k]
      <4>1. k \in 1..(Len(s) - (n + 1) + 1) /\ n + 1 + k - 1 = n + k
        BY <2>1
      <4>2. b[k] = s[n + 1 + k - 1]
        BY <4>1, <2>6
      <4> HIDE DEF b
      <4> QED
        BY <4>1, <4>2
    <3> QED
      BY <3>1
  <2> HIDE DEF a, b
  <2>8. u = a \o b
    BY DEF a, b, RemoveAt
  <2>9. Len(a \o b) = Len(s) - 1 /\ DOMAIN (a \o b) = 1..(Len(s) - 1)
    <3>1. a \o b \in Seq(T) /\ Len(a \o b) = Len(a) + Len(b)
      BY <2>3, <2>4, ConcatProperties
    <3>2. Len(a \o b) = Len(s) - 1
      BY <2>1, <2>3, <2>4, <3>1
    <3> QED
      BY <3>1, <3>2
  <2>10. ASSUME NEW i \in 1..(Len(s) - 1), i < n PROVE (a \o b)[i] = s[i]
    BY <2>1, <2>3, <2>4, <2>10
  <2>11. ASSUME NEW i \in 1..(Len(s) - 1), i >= n PROVE (a \o b)[i] = s[i + 1]
    <3>1. i - (n - 1) \in 1..(Len(s) - n) /\ n + (i - (n - 1)) = i + 1
      BY <2>1, <2>11
    <3>2. (a \o b)[i] = b[i - (n - 1)]
      BY <2>1, <2>3, <2>4, <2>11
    <3>3. b[i - (n - 1)] = s[n + (i - (n - 1))]
      BY <3>1, <2>7
    <3> QED
      BY <3>1, <3>2, <3>3
  <2>12. ASSUME NEW i \in DOMAIN u
         PROVE  /\ i < n => i \in DOMAIN s /\ u[i] = s[i]
                /\ i >= n => i + 1 \in DOMAIN s /\ u[i] = s[i + 1]
    <3>1. i \in 1..(Len(s) - 1) /\ u[i] = (a \o b)[i]
      BY <2>8, <2>9
    <3>2. i \in 1..Len(s) /\ i + 1 \in 1..Len(s)
      BY <2>1, <3>1
    <3> HIDE DEF u
    <3> QED
      BY <2>1, <2>10, <2>11, <3>1, <3>2
  <2>13. \A i \in DOMAIN (a \o b) : i \in Int
    BY <2>1, <2>3, <2>4
  <2>14. DOMAIN u \subseteq Int /\ DOMAIN s \subseteq Int
    BY <2>1, <2>8, <2>13
  <2> QED
    BY <2>12, <2>14
<1>2. n \in DOMAIN s /\ n \in Int
  BY <1>1
<1> HIDE DEF u
<1>3. One({x}, u)
  <2> SUFFICES ASSUME NEW i \in DOMAIN u, NEW j \in DOMAIN u, u[i] = x, u[j] = x PROVE i = j
    BY DEF One
  <2>1. i \in Int /\ j \in Int
    BY <1>1
  <2> DEFINE shift(k) == IF k < n THEN k ELSE k + 1
  <2>2. shift(i) \in DOMAIN s /\ s[shift(i)] = x /\ shift(j) \in DOMAIN s /\ s[shift(j)] = x
    BY <1>1, <1>2, <2>1
  <2>3. shift(i) = shift(j)
    BY <2>2 DEF One
  <2> QED
    BY <1>2, <2>1, <2>3
<1>4. ASSUME In(x, u) PROVE In(x, s) /\ x # s[n]
  <2>1. PICK i \in DOMAIN u : u[i] = x
    BY <1>4 DEF In
  <2>2. i \in Int
    BY <1>1, <2>1
  <2>3. CASE i < n
    BY <1>1, <1>2, <2>1, <2>2, <2>3 DEF In, One
  <2>4. CASE i >= n
    BY <1>1, <1>2, <2>1, <2>2, <2>4 DEF In, One
  <2> QED
    BY <1>2, <2>2, <2>3, <2>4
<1>5. ASSUME In(x, s), x # s[n] PROVE In(x, u)
  BY <1>5, InRemoveAt DEF u
<1> QED
  BY <1>3, <1>4, <1>5 DEF u

LEMMA ConcatCopies ==
  ASSUME NEW T, NEW s \in Seq(T), NEW u \in Seq(T), NEW x
  PROVE  /\ In(x, s \o u) <=> In(x, s) \/ In(x, u)
         /\ One({x}, s) /\ One({x}, u) /\ ~(In(x, s) /\ In(x, u)) => One({x}, s \o u)
<1>1. /\ s \o u \in Seq(T) /\ DOMAIN (s \o u) = 1..(Len(s) + Len(u)) /\ Len(s) \in Nat
      /\ Len(u) \in Nat /\ DOMAIN s = 1..Len(s) /\ DOMAIN u = 1..Len(u)
      /\ \A i \in 1..Len(s) : (s \o u)[i] = s[i]
  OBVIOUS
<1>2. \A i \in (Len(s) + 1)..(Len(s) + Len(u)) : i - Len(s) \in 1..Len(u) /\ (s \o u)[i] = u[i - Len(s)]
  OBVIOUS
<1>3. In(x, s \o u) => In(x, s) \/ In(x, u)
  BY <1>1, <1>2 DEF In
<1>4. ASSUME One({x}, s), One({x}, u), ~(In(x, s) /\ In(x, u)),
             NEW i \in DOMAIN (s \o u), NEW j \in DOMAIN (s \o u),
             (s \o u)[i] = x, (s \o u)[j] = x
      PROVE  i = j
  <2>1. CASE i <= Len(s) /\ j <= Len(s)
    BY <1>1, <1>4, <2>1 DEF One
  <2>2. CASE i > Len(s) /\ j > Len(s)
    <3>1. i - Len(s) = j - Len(s)
      BY <1>1, <1>2, <1>4, <2>2 DEF One
    <3> QED
      BY <1>1, <3>1
  <2>3. CASE (i <= Len(s) /\ j > Len(s)) \/ (j <= Len(s) /\ i > Len(s))
    <3>1. In(x, s) /\ In(x, u)
      BY <1>1, <1>2, <1>4, <2>3 DEF In
    <3> QED
      BY <1>4, <3>1
  <2> QED
    BY <1>1, <2>1, <2>2, <2>3
<1>5. One({x}, s) /\ One({x}, u) /\ ~(In(x, s) /\ In(x, u)) => One({x}, s \o u)
  BY <1>4 DEF One
<1> QED
  BY <1>3, <1>5, InConcat

\* The few requests a step posts: none, one, or two different ones.
LEMMA FewCopies ==
  /\ \A x : ~In(x, <<>>) /\ One({x}, <<>>)
  /\ \A x, a : (In(x, <<a>>) <=> x = a) /\ One({x}, <<a>>)
  /\ \A x, a, b : /\ In(x, <<a>> \o <<b>>) <=> x = a \/ x = b
                  /\ a # b => One({x}, <<a>> \o <<b>>)
<1>1. \A x : ~In(x, <<>>) /\ One({x}, <<>>)
  BY DEF In, One
<1>2. \A x, a : (In(x, <<a>>) <=> x = a) /\ One({x}, <<a>>)
  BY DEF In, One
<1>3. ASSUME NEW x, NEW a, NEW b
      PROVE  /\ In(x, <<a>> \o <<b>>) <=> x = a \/ x = b
             /\ a # b => One({x}, <<a>> \o <<b>>)
  <2>1. <<a>> \in Seq({a, b}) /\ <<b>> \in Seq({a, b})
    OBVIOUS
  <2>2. In(x, <<a>> \o <<b>>) <=> In(x, <<a>>) \/ In(x, <<b>>)
    BY <2>1, ConcatCopies
  <2>3. One({x}, <<a>>) /\ One({x}, <<b>>) /\ ~(In(x, <<a>>) /\ In(x, <<b>>))
          => One({x}, <<a>> \o <<b>>)
    BY <2>1, ConcatCopies
  <2> QED
    BY <1>2, <2>2, <2>3
<1> QED
  BY <1>1, <1>2, <1>3

-----------------------------------------------------------------------------
(* What a step makes of the copies of a request.                             *)

\* Nothing of r moves; nothing is left of r but, perhaps, its promise.
Same(r) ==
  /\ InBox(r)' <=> InBox(r)
  /\ r \in busy' <=> r \in busy
  /\ Back(r, TRUE)' <=> Back(r, TRUE)
  /\ Back(r, FALSE)' <=> Back(r, FALSE)
  /\ Pend(r)' <=> Pend(r)
Lost(r) == ~Out(r)' /\ (Pend(r)' => Pend(r))

LEMMA TrackedRequests ==
  /\ Tracked \subseteq Request
  /\ \A o \in Ops : \A k \in Kinds(o) : Ask(o, k) \in Tracked
  /\ \A o \in Ops : End(o) \in Tracked /\ \E k \in Kinds(o) : End(o) = Ask(o, k)
<1>1. \A o \in Ops : \A k \in Kinds(o) : Ask(o, k) \in Request /\ Ask(o, k) \in Tracked
  BY AskType DEF Kinds, Tracked, TxKinds
<1>2. Tracked \subseteq Request
  BY <1>1 DEF Tracked
<1>3. \A o \in Ops : \E k \in Kinds(o) : End(o) = Ask(o, k)
  BY DEF End, Kinds
<1> QED
  BY <1>1, <1>2, <1>3

\* Nothing but pending and inbox is touched by a post.
LEMMA PostCopies ==
  ASSUME TypeOK, NEW pend \in Seq(Request), NEW rs \in Seq(Request), NEW deg, NEW prb,
         Post(rs, pend, deg, prb), NEW r, One({r}, rs), One({r}, pend), One({r}, inbox),
         In(r, rs) => ~In(r, pend) /\ ~In(r, inbox)
  PROVE  /\ One({r}, pending') /\ One({r}, inbox')
         /\ In(r, pending') <=> In(r, pend) \/ (Admits(deg, prb) /\ In(r, rs))
         /\ In(r, inbox') <=> In(r, inbox) \/ (alive /\ Admits(deg, prb) /\ In(r, rs))
<1>1. CASE Admits(deg, prb)
  <2>1. pending' = pend \o rs /\ inbox' = IF alive THEN inbox \o rs ELSE inbox
    BY <1>1 DEF Post, Send
  <2>2. inbox \in Seq(Request)
    BY DEF TypeOK
  <2>3. One({r}, pending') /\ (In(r, pending') <=> In(r, pend) \/ In(r, rs))
    BY <2>1, ConcatCopies
  <2>4. CASE alive
    <3>1. One({r}, inbox \o rs) /\ (In(r, inbox \o rs) <=> In(r, inbox) \/ In(r, rs))
      BY <2>2, ConcatCopies
    <3> QED
      BY <1>1, <2>1, <2>3, <2>4, <3>1
  <2> QED
    BY <1>1, <2>1, <2>3, <2>4
<1>2. CASE ~Admits(deg, prb)
  <2>1. pending' = pend \o <<>> /\ inbox' = IF alive THEN inbox \o <<>> ELSE inbox
    BY <1>2 DEF Post, Send
  <2>2. pending' = pend /\ inbox' = inbox
    BY <2>1 DEF TypeOK
  <2> QED
    BY <1>2, <2>2
<1> QED
  BY <1>1, <1>2

\* A step that only posts, at most one request of those that are followed.
LEMMA PostedCopies ==
  ASSUME TypeOK, NEW rs \in Seq(Request), Post(rs, pending, degraded, probe),
         UNCHANGED <<busy, replies>>, NEW r, Single(r), One({r}, rs),
         In(r, rs) => ~Out(r) /\ ~Pend(r)
  PROVE  /\ Single(r)'
         /\ ~In(r, rs) \/ ~Admits(degraded, probe) => Same(r)
         /\ In(r, rs) => r \notin busy' /\ ~Back(r, TRUE)' /\ ~Back(r, FALSE)'
<1>1. pending \in Seq(Request) /\ One({r}, pending) /\ One({r}, inbox)
  BY DEF TypeOK, Single
<1>2. /\ One({r}, pending') /\ One({r}, inbox')
      /\ In(r, pending') <=> In(r, pending) \/ (Admits(degraded, probe) /\ In(r, rs))
      /\ In(r, inbox') <=> In(r, inbox) \/ (alive /\ Admits(degraded, probe) /\ In(r, rs))
  BY <1>1, PostCopies DEF Out, Ahead, InBox, Pend
<1> QED
  BY <1>2 DEF Single, Same, InBox, Pend, Back, Ahead, Out, Both, One, In

\* The answer ok to q is taken.
LEMMA AnsweredCopies ==
  ASSUME TypeOK, NEW q \in Request, NEW ok \in BOOLEAN, NEW rs \in Seq(Request),
         Answered(q, ok, rs), Unanswered, NEW r \in Request, Single(r), One({r}, rs),
         In(r, rs) => r = q \/ (~Out(r) /\ ~Pend(r))
  PROVE  /\ Single(r)' /\ Pend(q) /\ Back(q, ok) /\ busy' = busy
         /\ r # q /\ ~In(r, rs) => Same(r)
         /\ r = q => r \notin busy' /\ ~Back(r, TRUE)' /\ ~Back(r, FALSE)'
         /\ r = q => (InBox(r)' => ~closed /\ ~fatal /\ In(r, rs))
         /\ InBox(r)' => InBox(r) \/ (~closed /\ ~fatal /\ In(r, rs))
         /\ Back(r, TRUE)' => Back(r, TRUE)
         /\ Back(r, FALSE)' => Back(r, FALSE)
         /\ Pend(r)' <=> (Pend(r) /\ r # q) \/ (~closed /\ ~fatal /\ In(r, rs))
<1> DEFINE n == Position(q)
           a == [req |-> q, ok |-> ok]
<1>1. n \in DOMAIN pending /\ pending[n] = q
  BY DEF Answered, Position, IsPending
<1>2. pending \in Seq(Request) /\ replies \in Seq(Reply) /\ inbox \in Seq(Request)
  BY DEF TypeOK
<1>3. replies # <<>> /\ Head(replies) = a /\ replies' = Tail(replies) /\ a \in Reply
  BY DEF Answered, Reply
<1>4. Pend(q) /\ Back(q, ok)
  <2>1. 1 \in DOMAIN replies /\ replies[1] = a
    BY <1>2, <1>3
  <2> QED
    BY <1>1, <2>1 DEF Pend, Back, In
<1>5. One({r}, Forget(q)) /\ (In(r, Forget(q)) <=> Pend(r) /\ r # q) /\ Forget(q) \in Seq(Request)
  BY <1>1, <1>2, RemoveCopies, TypeRemoveAt DEF Forget, Single, Pend
<1>6. One(Both(r), replies') /\ \A x \in Both(r) : In(x, replies') <=> In(x, replies) /\ q # r
  <2>1. a \in Both(r) <=> q = r
    BY DEF Both
  <2>2. One(Both(r), replies) /\ replies \in Seq(Reply) /\ replies # <<>>
    BY <1>2, <1>3 DEF Single
  <2>3. /\ One(Both(r), Tail(replies))
        /\ \A x \in Both(r) : In(x, Tail(replies)) <=> In(x, replies) /\ Head(replies) \notin Both(r)
    BY <2>2, TailCopies
  <2> QED
    BY <1>3, <2>1, <2>3
<1>7. In(r, rs) => ~In(r, Forget(q)) /\ ~In(r, inbox)
  BY <1>4, <1>5 DEF Single, Ahead, InBox, Out
<1>8. Post(rs, Forget(q), FALSE, ProbeLeft(q)) /\ (Admits(FALSE, ProbeLeft(q)) <=> ~closed /\ ~fatal)
  BY DEF Answered, Admits
<1>9. /\ One({r}, pending') /\ One({r}, inbox')
      /\ In(r, pending') <=> (Pend(r) /\ r # q) \/ (~closed /\ ~fatal /\ In(r, rs))
      /\ In(r, inbox') <=> In(r, inbox) \/ (alive /\ ~closed /\ ~fatal /\ In(r, rs))
  BY <1>5, <1>7, <1>8, PostCopies DEF Single
<1>10. busy' = busy
  BY DEF Unanswered
<1>11. r = q => ~Ahead(r)
  BY <1>4 DEF Single
<1> QED
  BY <1>4, <1>6, <1>9, <1>10, <1>11 DEF Single, Same, InBox, Pend, Back, Ahead, Out, Both

LEMMA AppendCopies ==
  ASSUME NEW T, NEW s \in Seq(T), NEW x \in T, NEW X, One(X, s),
         x \in X => \A y \in X : ~In(y, s)
  PROVE  /\ One(X, Append(s, x))
         /\ \A y : In(y, Append(s, x)) <=> In(y, s) \/ y = x
<1> DEFINE u == Append(s, x)
<1>1. /\ DOMAIN s = 1..Len(s) /\ Len(s) \in Nat /\ DOMAIN u = 1..(Len(s) + 1)
      /\ u[Len(s) + 1] = x /\ \A i \in 1..Len(s) : u[i] = s[i]
  OBVIOUS
<1> HIDE DEF u
<1>2. \A y : In(y, u) <=> In(y, s) \/ y = x
  BY <1>1 DEF In
<1>3. ASSUME NEW i \in DOMAIN u, NEW j \in DOMAIN u, u[i] \in X, u[j] \in X PROVE i = j
  <2>1. CASE x \in X
    <3>1. ASSUME NEW k \in 1..Len(s), u[k] \in X PROVE FALSE
      <4>1. In(u[k], s)
        BY <1>1, <3>1 DEF In
      <4> QED
        BY <2>1, <3>1, <4>1
    <3>2. i = Len(s) + 1 /\ j = Len(s) + 1
      BY <1>1, <1>3, <3>1
    <3> QED
      BY <3>2
  <2>2. CASE x \notin X
    <3>1. i \in DOMAIN s /\ j \in DOMAIN s /\ s[i] \in X /\ s[j] \in X
      BY <1>1, <1>3, <2>2
    <3> QED
      BY <3>1 DEF One
  <2> QED
    BY <2>1, <2>2
<1> QED
  BY <1>2, <1>3 DEF One, u

LEMMA AskInjective == \A o, p, j, k : Ask(o, j) = Ask(p, k) => o = p /\ j = k
<1> SUFFICES ASSUME NEW o, NEW p, NEW j, NEW k, Ask(o, j) = Ask(p, k) PROVE o = p /\ j = k
  OBVIOUS
<1>1. Ask(o, j).op = o /\ Ask(p, k).op = p /\ Ask(o, j).kind = j /\ Ask(p, k).kind = k
  BY DEF Ask
<1> QED
  BY <1>1

-----------------------------------------------------------------------------
(* What a step makes of an operation.                                        *)

\* A request moves on, or is lost, and is not posted.
Onward(r) ==
  /\ Ahead(r)' => Ahead(r)
  /\ Out(r)' => Out(r)
  /\ Back(r, FALSE)' => Back(r, FALSE) \/ Ahead(r)
  /\ Pend(r)' => Pend(r)

LEMMA SameIsOnward == \A r : Same(r) \/ Lost(r) => Onward(r)
BY DEF Same, Lost, Onward, Out, Ahead

LEMMA OpFrame ==
  ASSUME NEW o \in Ops, OpFate(o), \A k \in Kinds(o) : Onward(Ask(o, k)),
         InDatabase(o)' <=> InDatabase(o), op'[o] \in {"idle", "queued"} => op[o] \in {"idle", "queued"},
         op'[o] = "error" => op[o] = "error" \/ fatal', fatal => fatal'
  PROVE  OpFate(o)'
<1>1. \E k \in Kinds(o) : End(o) = Ask(o, k)
  BY TrackedRequests
<1>2. Onward(End(o))
  BY <1>1
<1>3. (\A k \in Kinds(o) : ~Out(Ask(o, k)) /\ ~Pend(Ask(o, k)))
        => \A k \in Kinds(o) : ~Out(Ask(o, k))' /\ ~Pend(Ask(o, k))'
  BY DEF Onward
<1>4. End(o)' = End(o) /\ Kinds(o)' = Kinds(o)
  BY DEF End, Kinds
<1> QED
  BY <1>2, <1>3, <1>4 DEF OpFate, Onward

LEMMA TxFrame ==
  ASSUME NEW t \in Txs, TxFate(t), \A k \in Kinds(t) : Same(Ask(t, k)),
         InDatabase(t)' <=> InDatabase(t), op'[t] \in {"idle", "queued"} => op[t] \in {"idle", "queued"},
         cb'[t] = cb[t], stmt'[t] = stmt[t], staged'[t] = staged[t], t \in open' <=> t \in open
  PROVE  TxFate(t)'
<1> DEFINE begin == Ask(t, "begin")
           next == Ask(t, "stmt")
           commit == Ask(t, "commit")
<1>1. Same(begin) /\ Same(next) /\ Same(commit)
  BY DEF Kinds
<1> HIDE DEF begin, next, commit
<1>2. /\ Pend(begin)' <=> Pend(begin)
      /\ Pend(next)' <=> Pend(next)
      /\ Pend(commit)' <=> Pend(commit)
      /\ Out(begin)' <=> Out(begin)
      /\ Out(next)' <=> Out(next)
      /\ Out(commit)' <=> Out(commit)
      /\ Back(next, TRUE)' <=> Back(next, TRUE)
      /\ commit \in busy' <=> commit \in busy
  BY <1>1 DEF Same, Out, Ahead
<1> QED
  BY <1>2 DEF TxFate, begin, next, commit

\* Nothing of o changes.
Untouched(o) ==
  /\ op'[o] = op[o] /\ (InDatabase(o)' <=> InDatabase(o))
  /\ \A k \in Kinds(o) : Same(Ask(o, k))
  /\ o \in Txs => cb'[o] = cb[o] /\ stmt'[o] = stmt[o] /\ staged'[o] = staged[o]
                  /\ (o \in open' <=> o \in open)

LEMMA UntouchedKeeps ==
  ASSUME NEW o \in Ops, OpFate(o), o \in Txs => TxFate(o), Untouched(o), fatal => fatal'
  PROVE  OpFate(o)' /\ (o \in Txs => TxFate(o)')
BY OpFrame, TxFrame, SameIsOnward DEF Untouched

\* A step of one operation.
LEMMA OneTouched ==
  ASSUME Fate, NEW a, fatal => fatal', \A r \in Tracked : Single(r)',
         \A o \in Ops \ {a} : Untouched(o), a \in Ops => OpFate(a)', a \in Txs => TxFate(a)'
  PROVE  Fate'
<1>1. Txs \subseteq Ops
  BY DEF Ops, Chained
<1>2. \A o \in Ops : OpFate(o)'
  BY UntouchedKeeps DEF Fate
<1>3. \A t \in Txs : TxFate(t)'
  BY <1>1, UntouchedKeeps DEF Fate
<1>4. Tracked' = Tracked
  BY DEF Tracked, Kinds
<1> QED
  BY <1>2, <1>3, <1>4 DEF Fate

\* a posts, or answers are taken, or are given: the other operations go untouched.
LEMMA PostStep ==
  ASSUME TypeOK, Fate, NEW a \in Ops, NEW rs \in Seq(Request),
         Post(rs, pending, degraded, probe), UNCHANGED <<worker, stmt>>,
         \A r \in Tracked : One({r}, rs) /\ (In(r, rs) => r.op = a /\ ~Out(r) /\ ~Pend(r)),
         \A o \in Ops \ {a} : op'[o] = op[o], \A t \in Txs \ {a} : cb'[t] = cb[t]
  PROVE  /\ \A r \in Tracked : Single(r)' /\ (~In(r, rs) \/ ~Admits(degraded, probe) => Same(r))
         /\ \A r \in Tracked : In(r, rs) => r \notin busy' /\ ~Back(r, TRUE)' /\ ~Back(r, FALSE)'
         /\ \A o \in Ops \ {a} : Untouched(o)
<1>1. UNCHANGED <<busy, replies>>
  BY DEF worker
<1>2. \A r \in Tracked : /\ Single(r)'
                         /\ ~In(r, rs) \/ ~Admits(degraded, probe) => Same(r)
                         /\ In(r, rs) => r \notin busy' /\ ~Back(r, TRUE)' /\ ~Back(r, FALSE)'
  BY <1>1, PostedCopies DEF Fate
<1>3. ASSUME NEW o \in Ops \ {a} PROVE Untouched(o)
  <2>1. ASSUME NEW k \in Kinds(o) PROVE Same(Ask(o, k))
    <3>1. Ask(o, k) \in Tracked /\ Ask(o, k).op = o
      BY TrackedRequests DEF Ask
    <3> QED
      BY <1>2, <3>1
  <2> QED
    BY <2>1 DEF Untouched, InDatabase, worker
<1> QED
  BY <1>2, <1>3

\* What is left of r once q has been answered, and rs posted.
Moved(r, q, rs) ==
  /\ Ahead(r)' => (Ahead(r) /\ r # q) \/ (~closed /\ ~fatal /\ In(r, rs))
  /\ r \in busy' => r \in busy /\ r # q
  /\ Back(r, TRUE)' => Back(r, TRUE) /\ r # q
  /\ Back(r, FALSE)' => Back(r, FALSE) /\ r # q
  /\ Pend(r)' <=> (Pend(r) /\ r # q) \/ (~closed /\ ~fatal /\ In(r, rs))

LEMMA AnswerStep ==
  ASSUME TypeOK, Fate, NEW a \in Ops, NEW k, Ask(a, k) \in Request, NEW ok \in BOOLEAN,
         NEW rs \in Seq(Request), Answered(Ask(a, k), ok, rs), Unanswered,
         \A r \in Tracked : /\ One({r}, rs)
                            /\ In(r, rs) => r.op = a /\ (r = Ask(a, k) \/ (~Out(r) /\ ~Pend(r))),
         \A o \in Ops \ {a} : op'[o] = op[o],
         \A t \in Txs \ {a} : cb'[t] = cb[t] /\ stmt'[t] = stmt[t]
  PROVE  /\ Pend(Ask(a, k)) /\ Back(Ask(a, k), ok)
         /\ \A r \in Tracked : Single(r)' /\ (r # Ask(a, k) /\ ~In(r, rs) => Same(r))
         /\ \A r \in Tracked : Moved(r, Ask(a, k), rs)
         /\ \A o \in Ops \ {a} : Untouched(o)
<1> DEFINE q == Ask(a, k)
<1>1. ASSUME NEW r \in Tracked
      PROVE  Single(r)' /\ (r # q /\ ~In(r, rs) => Same(r)) /\ Moved(r, q, rs)
  <2>1. r \in Request /\ Single(r) /\ q \in Request /\ One({r}, rs)
    BY TrackedRequests DEF Fate
  <2>2. In(r, rs) => r = q \/ (~Out(r) /\ ~Pend(r))
    OBVIOUS
  <2>3. Answered(q, ok, rs)
    OBVIOUS
  <2> HIDE DEF q
  <2>4. /\ Single(r)' /\ busy' = busy /\ (r # q /\ ~In(r, rs) => Same(r))
        /\ r = q => r \notin busy' /\ ~Back(r, TRUE)' /\ ~Back(r, FALSE)'
        /\ r = q => (InBox(r)' => ~closed /\ ~fatal /\ In(r, rs))
        /\ InBox(r)' => InBox(r) \/ (~closed /\ ~fatal /\ In(r, rs))
        /\ Back(r, TRUE)' => Back(r, TRUE)
        /\ Back(r, FALSE)' => Back(r, FALSE)
        /\ Pend(r)' <=> (Pend(r) /\ r # q) \/ (~closed /\ ~fatal /\ In(r, rs))
    BY <2>1, <2>2, <2>3, AnsweredCopies
  <2> QED
    BY <2>4 DEF Moved, Ahead
<1>3. Pend(q) /\ Back(q, ok)
  <2>1. \E r \in Tracked : TRUE
    BY TrackedRequests DEF Kinds
  <2>2. PICK r \in Tracked : TRUE
    BY <2>1
  <2>3. r \in Request /\ Single(r) /\ q \in Request /\ One({r}, rs)
    BY TrackedRequests DEF Fate
  <2>4. In(r, rs) => r = q \/ (~Out(r) /\ ~Pend(r))
    OBVIOUS
  <2>5. Answered(q, ok, rs)
    OBVIOUS
  <2> HIDE DEF q
  <2> QED
    BY <2>3, <2>4, <2>5, AnsweredCopies
<1>2. ASSUME NEW o \in Ops \ {a} PROVE Untouched(o)
  <2>1. ASSUME NEW j \in Kinds(o) PROVE Same(Ask(o, j))
    <3>1. Ask(o, j) \in Tracked /\ Ask(o, j).op = o /\ Ask(o, j) # Ask(a, k)
      BY TrackedRequests, AskInjective DEF Ask
    <3> QED
      BY <1>1, <3>1
  <2> QED
    BY <2>1 DEF Untouched, InDatabase, Unanswered
<1> QED
  BY <1>1, <1>2, <1>3

-----------------------------------------------------------------------------
(* What the steps of the store do to it.                                     *)

LEMMA StillStep ==
  ASSUME Fate, UNCHANGED <<pending, inbox, busy, replies>>
  PROVE  /\ \A r \in Tracked : Single(r)'
         /\ \A r : Same(r)
BY DEF Fate, Single, Same, InBox, Pend, Back, Ahead

\* The kinds of requests of an operation that is no transaction, and of one that is.
LEMMA KindsOf ==
  /\ Txs \subseteq Ops /\ Writes \cup Reads \cup Raws \subseteq Ops
  /\ \A o \in Writes \cup Reads \cup Raws :
       o \notin Txs /\ Kinds(o) = {"run"} /\ End(o) = Ask(o, "run")
  /\ \A t \in Txs : Kinds(t) = {"begin", "stmt", "commit"} /\ End(t) = Ask(t, "commit")
BY DEF Ops, Chained, Kinds, End

\* The requests of an operation are followed, those to abort a transaction are not.
LEMMA FollowedAre ==
  /\ \A o \in Writes \cup Reads \cup Raws : Ask(o, "run") \in Tracked
  /\ \A t \in Txs : \A k \in {"begin", "stmt", "commit"} : Ask(t, k) \in Tracked
  /\ \A o : Ask(o, "abort") \notin Tracked /\ Ask(o, "close") \notin Tracked
<1>1. \A o : Ask(o, "abort") \notin Tracked /\ Ask(o, "close") \notin Tracked
  BY AskInjective DEF Tracked, Kinds
<1> QED
  BY <1>1, KindsOf, TrackedRequests

LEMMA FateStart ==
  ASSUME TypeOK, Fate, NEW o \in Writes \cup Reads \cup Raws, op[o] \in {"idle", "queued"},
         Begun(o), Post(<<Ask(o, "run")>>, pending, degraded, probe),
         UNCHANGED <<queue, cb, stmt, abortDue, breaker, fatal, closed, worker>>
  PROVE  Fate'
<1> DEFINE r == Ask(o, "run")
<1>1. r \in Request /\ o \in Ops /\ o \notin Txs /\ Kinds(o) = {"run"} /\ End(o) = r
  BY KindsOf, AskType
<1>2. OpFate(o) /\ ~InDatabase(o) /\ ~Out(r) /\ ~Pend(r)
  BY <1>1 DEF Fate, OpFate
<1>3. /\ \A x \in Tracked : Single(x)' /\ (~In(x, <<r>>) \/ ~Admits(degraded, probe) => Same(x))
      /\ \A x \in Ops \ {o} : Untouched(x)
  <2>1. \A p \in Ops \ {o} : op'[p] = op[p]
    BY DEF Begun, TypeOK
  <2>2. <<r>> \in Seq(Request) /\ r.op = o
    BY <1>1 DEF Ask
  <2>3. \A x \in Tracked : One({x}, <<r>>) /\ (In(x, <<r>>) => x.op = o /\ ~Out(x) /\ ~Pend(x))
    <3>1. \A x : One({x}, <<r>>) /\ (In(x, <<r>>) <=> x = r)
      BY FewCopies
    <3> QED
      BY <1>2, <2>2, <3>1
  <2> HIDE DEF r
  <2> QED
    BY <1>1, <2>1, <2>2, <2>3, PostStep DEF r
<1>4. ~InDatabase(o)'
  BY <1>2 DEF InDatabase, worker
<1>5. OpFate(o)'
  <2>1. CASE Admits(degraded, probe)
    <3>1. op'[o] = "running"
      BY <1>1, <2>1 DEF Begun, TypeOK
    <3> QED
      BY <1>4, <3>1 DEF OpFate
  <2>2. CASE ~Admits(degraded, probe)
    <3>1. op'[o] = "error"
      BY <1>1, <2>2 DEF Begun, TypeOK
    <3>2. Same(r)
      BY <1>3, <2>2, FollowedAre
    <3>3. ~Ahead(r)'
      BY <1>2, <3>2 DEF Same, Out, Ahead
    <3>4. End(o)' = r
      BY <1>1 DEF End
    <3> QED
      BY <1>4, <3>1, <3>3, <3>4 DEF OpFate
  <2> QED
    BY <2>1, <2>2
<1> QED
  BY <1>1, <1>3, <1>5, OneTouched

LEMMA FateStartTx ==
  ASSUME TypeOK, Fate, NEW t \in Txs, StartTx(t)
  PROVE  Fate'
<1> DEFINE r == Ask(t, "begin")
           next == Ask(t, "stmt")
           commit == Ask(t, "commit")
<1>1. /\ r \in Request /\ t \in Ops /\ Kinds(t) = {"begin", "stmt", "commit"} /\ End(t) = commit
      /\ op[t] = "queued"
  BY KindsOf, AskType DEF TxKinds, StartTx, Turn
<1>2. /\ ~InDatabase(t) /\ \A k \in Kinds(t) : ~Out(Ask(t, k)) /\ ~Pend(Ask(t, k))
      /\ cb[t] = "idle" /\ staged[t] = stmt[t]
  BY <1>1 DEF Fate, OpFate, TxFate
<1>3. /\ \A x \in Tracked : Single(x)' /\ (~In(x, <<r>>) \/ ~Admits(degraded, probe) => Same(x))
      /\ \A x \in Tracked : In(x, <<r>>) => x \notin busy' /\ ~Back(x, TRUE)' /\ ~Back(x, FALSE)'
      /\ \A x \in Ops \ {t} : Untouched(x)
  <2>1. \A p \in Ops \ {t} : op'[p] = op[p]
    BY DEF StartTx, Begun, TypeOK
  <2>4. \A p \in Txs \ {t} : cb'[p] = cb[p]
    BY DEF StartTx, TypeOK
  <2>2. <<r>> \in Seq(Request) /\ r.op = t
    BY <1>1 DEF Ask
  <2>3. \A x \in Tracked : One({x}, <<r>>) /\ (In(x, <<r>>) => x.op = t /\ ~Out(x) /\ ~Pend(x))
    <3>1. \A x : One({x}, <<r>>) /\ (In(x, <<r>>) <=> x = r)
      BY FewCopies
    <3>2. ~Out(r) /\ ~Pend(r)
      BY <1>1, <1>2
    <3> QED
      BY <2>2, <3>1, <3>2
  <2>5. Post(<<r>>, pending, degraded, probe) /\ UNCHANGED <<worker, stmt>>
    BY DEF StartTx
  <2> HIDE DEF r
  <2> QED
    BY <1>1, <2>1, <2>2, <2>3, <2>4, <2>5, PostStep DEF r
<1>4. ~InDatabase(t)' /\ staged'[t] = stmt'[t] /\ fatal' = fatal
  BY <1>2 DEF InDatabase, worker, StartTx
<1>5. r \in Tracked /\ next \in Tracked /\ commit \in Tracked
  BY FollowedAre
<1>6. next # r /\ commit # r
  BY AskInjective
<1>7. Same(next) /\ Same(commit) /\ (~Admits(degraded, probe) => Same(r))
  <2>1. \A x : In(x, <<r>>) <=> x = r
    BY FewCopies
  <2> HIDE DEF r, next, commit
  <2> QED
    BY <1>3, <1>5, <1>6, <2>1
<1>8. /\ ~Out(next)' /\ ~Pend(next)' /\ ~Out(commit)' /\ ~Pend(commit)' /\ commit \notin busy'
      /\ ~Admits(degraded, probe) => ~Out(r)' /\ ~Pend(r)'
  BY <1>1, <1>2, <1>7 DEF Same, Out, Ahead
<1> HIDE DEF next, commit, r
<1>9. CASE Admits(degraded, probe)
  <2>1. op'[t] = "running" /\ cb'[t] = "begin"
    BY <1>1, <1>9 DEF StartTx, Begun, TypeOK
  <2>2. OpFate(t)'
    BY <1>4, <2>1 DEF OpFate
  <2>3. TxFate(t)'
    BY <1>4, <1>8, <2>1 DEF TxFate, next, commit, r
  <2> QED
    BY <1>1, <1>3, <1>4, <2>2, <2>3, OneTouched
<1>10. CASE ~Admits(degraded, probe)
  <2>1. op'[t] = "error" /\ cb'[t] = "threw"
    BY <1>1, <1>10 DEF StartTx, Begun, TypeOK
  <2>3. TxFate(t)'
    BY <1>4, <1>8, <1>10, <2>1 DEF TxFate, next, commit, r
  <2>4. End(t)' = commit /\ ~Ahead(commit)'
    BY <1>1, <1>8 DEF End, Out, commit
  <2>2. OpFate(t)'
    BY <1>4, <2>1, <2>4 DEF OpFate
  <2> QED
    BY <1>1, <1>3, <1>4, <2>2, <2>3, OneTouched
<1> QED
  BY <1>9, <1>10

LEMMA FateTimeoutTx ==
  ASSUME TypeOK, Fate, NEW t \in Txs, TimeoutTx(t)
  PROVE  Fate'
<1> DEFINE rs == IF cb[t] = "begin" THEN <<>> ELSE <<Ask(t, "abort")>>
<1>1. t \in Ops /\ rs \in Seq(Request)
  BY KindsOf, AskType, Few DEF TxKinds
<1>2. \A x \in Tracked : One({x}, rs) /\ ~In(x, rs)
  <2>1. \A x : /\ ~In(x, <<>>) /\ One({x}, <<>>)
               /\ One({x}, <<Ask(t, "abort")>>) /\ (In(x, <<Ask(t, "abort")>>) <=> x = Ask(t, "abort"))
    BY FewCopies
  <2> QED
    BY <2>1, FollowedAre
<1>3. Post(rs, pending, degraded, probe) /\ UNCHANGED <<worker, stmt, cb, fatal>>
  BY DEF TimeoutTx
<1>4. op'[t] = "timeout" /\ \A p \in Ops \ {t} : op'[p] = op[p]
  BY <1>1 DEF TimeoutTx, TypeOK
<1> HIDE DEF rs
<1>5. /\ \A x \in Tracked : Single(x)' /\ (~In(x, rs) \/ ~Admits(degraded, probe) => Same(x))
      /\ \A x \in Ops \ {t} : Untouched(x)
  BY <1>1, <1>2, <1>3, <1>4, PostStep
<1>6. \A k \in Kinds(t) : Same(Ask(t, k))
  BY <1>1, <1>2, <1>5, TrackedRequests
<1>7. OpFate(t)' /\ TxFate(t)'
  BY <1>1, <1>3, <1>4, <1>6, OpFrame, TxFrame, SameIsOnward DEF Fate, InDatabase, worker
<1> QED
  BY <1>1, <1>3, <1>5, <1>7, OneTouched

LEMMA FateStoring == TypeOK /\ Fate /\ Storing => Fate'
<1> SUFFICES ASSUME TypeOK, Fate, Storing PROVE Fate'
  OBVIOUS
<1>1. ASSUME NEW o \in Ops, UNCHANGED <<pending, inbox, cb, stmt, fatal, worker>>,
             op'[o] \in {"idle", "queued"} => op[o] \in {"idle", "queued"},
             op'[o] # "error", \A p \in Ops \ {o} : op'[p] = op[p]
      PROVE  Fate'
  <2>1. (\A r \in Tracked : Single(r)') /\ \A r : Same(r)
    BY <1>1, StillStep DEF worker
  <2>2. \A p \in Ops \ {o} : Untouched(p)
    BY <1>1, <2>1 DEF Untouched, InDatabase, worker
  <2>3. OpFate(o)'
    BY <1>1, <2>1, OpFrame, SameIsOnward DEF Fate, InDatabase, worker
  <2>4. o \in Txs => TxFate(o)'
    BY <1>1, <2>1, TxFrame DEF Fate, InDatabase, worker
  <2> QED
    BY <1>1, <2>1, <2>2, <2>3, <2>4, OneTouched
<1>2. ASSUME NEW o \in Chained, Queue(o) PROVE Fate'
  <2>1. o \in Ops
    BY DEF Ops
  <2> QED
    BY <1>1, <1>2, <2>1 DEF Queue, Issued, TypeOK
<1>3. ASSUME NEW o \in Writes \cup Reads, TimeoutRun(o) PROVE Fate'
  BY <1>1, <1>3, KindsOf DEF TimeoutRun, TypeOK
<1>4. ASSUME NEW w \in Writes, StartWrite(w) PROVE Fate'
  BY <1>4, FateStart DEF StartWrite, Turn
<1>5. ASSUME NEW o \in Reads \cup Raws, Run(o) PROVE Fate'
  BY <1>5, FateStart DEF Run, Issued
<1> QED
  BY <1>2, <1>3, <1>4, <1>5, FateStartTx, FateTimeoutTx DEF Storing

-----------------------------------------------------------------------------
(* What replies do to it.                                                    *)

LEMMA FateLateReply ==
  ASSUME TypeOK, Fate, LateReply
  PROVE  Fate'
<1> DEFINE h == Head(replies)
           q == h.req
<1>1. replies \in Seq(Reply) /\ replies # <<>> /\ replies' = Tail(replies) /\ h \in Reply
  BY DEF LateReply, TypeOK
<1>2. ~Pend(q) /\ h = [req |-> q, ok |-> h.ok]
  <2>1. ~IsPending(q)
    BY DEF LateReply
  <2> QED
    BY <1>1, <2>1 DEF Pend, In, IsPending, Reply
<1>3. UNCHANGED <<op, cb, stmt, staged, open, busy, inbox, pending, applied, fatal>>
  BY DEF LateReply, store
<1> HIDE DEF h, q
<1>4. Back(q, TRUE) \/ Back(q, FALSE)
  <2>1. 1 \in DOMAIN replies /\ replies[1] = h /\ h.ok \in BOOLEAN
    BY <1>1 DEF h, Reply
  <2>2. In(h, replies)
    BY <2>1 DEF In
  <2> QED
    BY <1>2, <2>1, <2>2 DEF Back
<1>5. ASSUME NEW r \in Tracked
      PROVE  /\ Single(r)'
             /\ r # q => Same(r)
             /\ r = q => Lost(r)
  <2>1. h \in Both(r) <=> r = q
    BY <1>1, <1>2 DEF Both, Reply
  <2>2. Single(r) /\ One(Both(r), replies)
    BY DEF Fate, Single
  <2>3. /\ One(Both(r), Tail(replies))
        /\ \A x \in Both(r) : In(x, Tail(replies)) <=> In(x, replies) /\ h \notin Both(r)
    BY <1>1, <2>2, TailCopies DEF h
  <2>4. /\ Back(r, TRUE)' <=> Back(r, TRUE) /\ r # q
        /\ Back(r, FALSE)' <=> Back(r, FALSE) /\ r # q
    BY <1>1, <2>1, <2>3 DEF Back, Both
  <2>5. One(Both(r), replies')
    BY <1>1, <2>3
  <2>6. r = q => ~Ahead(r)
    BY <1>4, <2>2 DEF Single
  <2> QED
    BY <1>3, <2>2, <2>4, <2>5, <2>6 DEF Single, Same, Lost, Out, Ahead, InBox, Pend
<1>6. \A o \in Ops \ {q.op} : Untouched(o)
  <2>1. \A o \in Ops \ {q.op} : \A k \in Kinds(o) : Ask(o, k) \in Tracked /\ Ask(o, k) # q
    <3>1. ASSUME NEW o \in Ops \ {q.op}, NEW k \in Kinds(o) PROVE Ask(o, k) # q
      <4>1. Ask(o, k).op = o
        BY DEF Ask
      <4> QED
        BY <4>1
    <3> QED
      BY <3>1, TrackedRequests
  <2> QED
    BY <1>3, <1>5, <2>1 DEF Untouched, InDatabase
<1>7. \A o \in Ops : OpFate(o)'
  <2>1. \A o \in Ops : \A k \in Kinds(o) : Onward(Ask(o, k))
    BY <1>5, TrackedRequests, SameIsOnward
  <2> QED
    BY <1>3, <2>1, OpFrame DEF Fate, InDatabase
<1>8. ASSUME NEW t \in Txs PROVE TxFate(t)'
  <2> DEFINE begin == Ask(t, "begin")
             next == Ask(t, "stmt")
             commit == Ask(t, "commit")
  <2>1. begin \in Tracked /\ next \in Tracked /\ commit \in Tracked
    BY FollowedAre
  <2> HIDE DEF begin, next, commit
  <2>2. \A r \in Tracked : Out(r)' => Out(r) /\ r # q
    BY <1>3, <1>5 DEF Same, Lost, Out, Ahead
  <2>3. Back(next, TRUE)' <=> Back(next, TRUE) /\ next # q
    BY <1>5, <2>1 DEF Same, Lost, Out
  <2>4. TxFate(t)
    BY DEF Fate
  <2>5. next = q => Out(next) /\ ~Pend(next)
    BY <1>2, <1>4 DEF Out
  <2>6. \A r : Pend(r)' <=> Pend(r)
    BY <1>3 DEF Pend
  <2>7. UNCHANGED <<op, cb, stmt, staged, open, busy>> /\ (InDatabase(t)' <=> InDatabase(t))
    BY <1>3 DEF InDatabase
  <2> QED
    BY <2>1, <2>2, <2>3, <2>4, <2>5, <2>6, <2>7 DEF TxFate, begin, next, commit
<1> QED
  BY <1>3, <1>5, <1>6, <1>7, <1>8, OneTouched

LEMMA FateAnswerRun ==
  ASSUME TypeOK, Fate, NEW o \in Writes \cup Reads \cup Raws, AnswerRun(o)
  PROVE  Fate'
<1> DEFINE r == Ask(o, "run")
<1>1. r \in Request /\ o \in Ops /\ o \notin Txs /\ Kinds(o) = {"run"} /\ End(o) = r /\ r \in Tracked
  BY KindsOf, AskType, FollowedAre
<1>2. PICK ok \in BOOLEAN : /\ Answered(r, ok, <<>>) /\ Unanswered
                            /\ Settle(o, IF ok THEN "done" ELSE "error")
                            /\ UNCHANGED <<queue, cb, stmt, abortDue>>
  BY DEF AnswerRun
<1>3. \A x : One({x}, <<>>) /\ ~In(x, <<>>)
  BY FewCopies
<1>4. \A p \in Ops \ {o} : op'[p] = op[p]
  BY <1>2 DEF Settle, TypeOK
<1>5. /\ Pend(r) /\ Back(r, ok) /\ Moved(r, r, <<>>)
      /\ \A x \in Tracked : Single(x)'
      /\ \A p \in Ops \ {o} : Untouched(p)
  BY <1>1, <1>2, <1>3, <1>4, Few, AnswerStep
<1>6. OpFate(o)'
  <2>1. ~Ahead(r)' /\ ~Back(r, FALSE)'
    BY <1>3, <1>5 DEF Moved
  <2>2. OpFate(o) /\ (InDatabase(o)' <=> InDatabase(o)) /\ fatal' = fatal
    BY <1>1, <1>2 DEF Fate, InDatabase, Unanswered
  <2>3. op[o] \notin {"idle", "queued"}
    BY <1>1, <1>5, <2>2 DEF OpFate
  <2>4. op'[o] \notin {"idle", "queued"} /\ (op'[o] = "error" => op[o] = "error" \/ ok = FALSE)
    BY <1>1, <1>2, <2>3 DEF Settle, TypeOK
  <2>5. End(o)' = r
    BY <1>1 DEF End
  <2> QED
    BY <1>1, <1>5, <2>1, <2>2, <2>4, <2>5 DEF OpFate
<1>7. fatal' = fatal
  BY <1>2 DEF Unanswered
<1> QED
  BY <1>1, <1>5, <1>6, <1>7, OneTouched

\* A transaction goes on as its callback does.
LEMMA FateAnswerBegin ==
  ASSUME TypeOK, Fate, NEW t \in Txs, AnswerBegin(t)
  PROVE  Fate'
<1> DEFINE begin == Ask(t, "begin")
           next == Ask(t, "stmt")
           commit == Ask(t, "commit")
           rs == <<next>> \o IF t \in abortDue THEN <<Ask(t, "abort")>> ELSE <<>>
<1>1. /\ t \in Ops /\ begin \in Tracked /\ next \in Tracked /\ commit \in Tracked
      /\ begin # next /\ begin # commit /\ next # commit
  BY KindsOf, FollowedAre, AskInjective
<1>2. begin \in Request /\ rs \in Seq(Request)
  <2>1. \A k \in TxKinds : Ask(t, k) \in Request
    BY AskType
  <2> QED
    BY <2>1, Few DEF TxKinds
<1>3. \A x \in Tracked : One({x}, rs) /\ (In(x, rs) <=> x = next)
  <2>1. next # Ask(t, "abort") /\ \A x \in Tracked : x # Ask(t, "abort")
    BY AskInjective, FollowedAre
  <2>2. \A x : /\ (In(x, <<next>>) <=> x = next) /\ One({x}, <<next>>)
               /\ In(x, <<next>> \o <<Ask(t, "abort")>>) <=> x = next \/ x = Ask(t, "abort")
               /\ One({x}, <<next>> \o <<Ask(t, "abort")>>)
    <3> DEFINE abort == Ask(t, "abort")
    <3>1. next # abort
      BY <2>1
    <3> HIDE DEF next, abort
    <3> SUFFICES ASSUME NEW x
                 PROVE  /\ (In(x, <<next>>) <=> x = next) /\ One({x}, <<next>>)
                        /\ In(x, <<next>> \o <<abort>>) <=> x = next \/ x = abort
                        /\ One({x}, <<next>> \o <<abort>>)
      BY DEF abort
    <3> QED
      BY <3>1, FewCopies
  <2>3. <<next>> \o <<>> = <<next>>
    OBVIOUS
  <2> QED
    BY <2>1, <2>2, <2>3
<1>4. Answered(begin, TRUE, rs) /\ Unanswered /\ stmt' = stmt
  BY DEF AnswerBegin
<1>5. Pend(begin)
  BY <1>4 DEF Answered, Pend, IsPending, In
<1> HIDE DEF begin, next, commit, rs
<1>6. /\ OpFate(t) /\ TxFate(t) /\ cb[t] = "begin" /\ staged[t] = stmt[t]
      /\ ~Pend(next) /\ ~Out(next) /\ ~Pend(commit) /\ ~Out(commit) /\ ~InDatabase(t)
      /\ commit \notin busy
  BY <1>1, <1>5 DEF Fate, TxFate, begin, next, commit
<1>7. op[t] \notin {"idle", "queued"}
  BY <1>1, <1>5, <1>6 DEF OpFate, begin, Kinds
<1>8. (\A p \in Ops \ {t} : op'[p] = op[p]) /\ \A p \in Txs \ {t} : cb'[p] = cb[p]
  BY DEF AnswerBegin, Settle, TypeOK
<1>9. next.op = t
  BY DEF next, Ask
<1>10. /\ \A x \in Tracked : Single(x)' /\ Moved(x, begin, rs)
       /\ \A p \in Ops \ {t} : Untouched(p)
  <2>1. \A r \in Tracked : One({r}, rs) /\ (In(r, rs) => r.op = t /\ (r = begin \/ (~Out(r) /\ ~Pend(r))))
    BY <1>3, <1>6, <1>9
  <2>2. TRUE \in BOOLEAN /\ stmt' = stmt
    BY <1>4
  <2> QED
    BY <1>1, <1>2, <1>4, <1>8, <2>1, <2>2, AnswerStep DEF begin
<1>11. /\ ~Pend(begin)' /\ ~Out(begin)' /\ ~Pend(commit)' /\ ~Out(commit)' /\ commit \notin busy'
       /\ Out(next)' => Pend(next)' /\ ~closed
       /\ Pend(next)' => ~closed
       /\ ~Back(next, TRUE)'
  BY <1>1, <1>3, <1>6, <1>10 DEF Moved, Out
<1>12. /\ op'[t] \notin {"idle", "queued"} /\ cb'[t] = IF closed THEN "threw" ELSE "stmt"
       /\ staged'[t] = stmt'[t] /\ ~InDatabase(t)' /\ fatal' = fatal
  BY <1>1, <1>4, <1>6, <1>7 DEF AnswerBegin, Settle, TypeOK, Unanswered, InDatabase
<1>13. TxFate(t)'
  BY <1>11, <1>12 DEF TxFate, begin, next, commit
<1>14. OpFate(t)'
  <2>1. ~Ahead(End(t))'
    BY <1>11 DEF End, Out, commit
  <2> QED
    BY <1>12, <2>1 DEF OpFate
<1> QED
  BY <1>1, <1>10, <1>12, <1>13, <1>14, OneTouched

\* What an answer to the statement of a transaction finds.
LEMMA StmtAnswered ==
  ASSUME TypeOK, Fate, NEW t \in Txs, NEW ok \in BOOLEAN, NEW rs, Answered(Ask(t, "stmt"), ok, rs)
  PROVE  /\ t \in Ops /\ Pend(Ask(t, "stmt")) /\ Back(Ask(t, "stmt"), ok)
         /\ Ask(t, "stmt") \in Request
         /\ Ask(t, "begin") \in Tracked /\ Ask(t, "stmt") \in Tracked /\ Ask(t, "commit") \in Tracked
         /\ Ask(t, "begin") # Ask(t, "stmt") /\ Ask(t, "commit") # Ask(t, "stmt")
         /\ op[t] \notin {"idle", "queued"} /\ cb[t] = "stmt" /\ ~InDatabase(t)
         /\ ~Pend(Ask(t, "begin")) /\ ~Out(Ask(t, "begin"))
         /\ ~Pend(Ask(t, "commit")) /\ ~Out(Ask(t, "commit")) /\ Ask(t, "commit") \notin busy
         /\ t \in open => staged[t] = IF ok THEN stmt[t] + 1 ELSE stmt[t]
<1>1. /\ t \in Ops /\ Ask(t, "stmt") \in Request
      /\ Ask(t, "begin") \in Tracked /\ Ask(t, "stmt") \in Tracked /\ Ask(t, "commit") \in Tracked
  BY KindsOf, FollowedAre, AskType DEF TxKinds
<1>4. Ask(t, "begin") # Ask(t, "stmt") /\ Ask(t, "commit") # Ask(t, "stmt")
  BY AskInjective
<1>2. Pend(Ask(t, "stmt")) /\ Back(Ask(t, "stmt"), ok)
  <2>0. replies \in Seq(Reply) /\ replies # <<>> /\ Head(replies) = [req |-> Ask(t, "stmt"), ok |-> ok]
    BY DEF Answered, TypeOK
  <2>1. 1 \in DOMAIN replies /\ replies[1] = [req |-> Ask(t, "stmt"), ok |-> ok]
    BY <2>0
  <2> QED
    BY <2>1 DEF Answered, Pend, IsPending, In, Back
<1>3. OpFate(t) /\ TxFate(t)
  BY <1>1 DEF Fate
<1>5. op[t] \notin {"idle", "queued"}
  BY <1>2, <1>3, KindsOf DEF OpFate
<1>6. Back(Ask(t, "stmt"), TRUE) <=> ok
  <2> DEFINE r == Ask(t, "stmt")
  <2>1. One(Both(r), replies)
    BY <1>1 DEF Fate, Single
  <2>2. [req |-> r, ok |-> TRUE] # [req |-> r, ok |-> FALSE]
    OBVIOUS
  <2> HIDE DEF r
  <2>3. ~(Back(r, TRUE) /\ Back(r, FALSE))
    BY <2>1, <2>2 DEF One, Both, Back, In
  <2> QED
    BY <1>2, <2>3 DEF r
<1> QED
  BY <1>1, <1>2, <1>3, <1>4, <1>5, <1>6 DEF TxFate

\* The callback goes on, returns, or fails.
LEMMA FateAnswerStmt ==
  ASSUME TypeOK, Fate, NEW t \in Txs, NEW ok \in BOOLEAN, NEW rs \in Seq(Request),
         Answered(Ask(t, "stmt"), ok, rs), Unanswered, NEW c,
         \A x \in Tracked : One({x}, rs),
         \A x \in Tracked : In(x, rs) => x = Ask(t, "stmt") \/ x = Ask(t, "commit"),
         cb' = [cb EXCEPT ![t] = c], Settle(t, "error") \/ op' = op,
         \/ c = "stmt" /\ Counted(t, ok) /\ ~In(Ask(t, "commit"), rs)
         \/ /\ c = "returned" /\ Counted(t, ok)
            /\ ~In(Ask(t, "stmt"), rs)
            /\ In(Ask(t, "commit"), rs) /\ ~closed => op[t] = "running" /\ op' = op
         \/ /\ c = "threw" /\ \A x \in Tracked : In(x, rs) => closed
            /\ \A p \in Txs \ {t} : stmt'[p] = stmt[p]
  PROVE  Fate'
<1> DEFINE begin == Ask(t, "begin")
           next == Ask(t, "stmt")
           commit == Ask(t, "commit")
<1>1. /\ t \in Ops /\ begin \in Tracked /\ next \in Tracked /\ commit \in Tracked
      /\ begin # next /\ commit # next /\ next \in Request
      /\ op[t] \notin {"idle", "queued"} /\ cb[t] = "stmt" /\ ~InDatabase(t)
      /\ ~Pend(begin) /\ ~Out(begin) /\ ~Pend(commit) /\ ~Out(commit) /\ commit \notin busy
      /\ Back(next, ok)
      /\ t \in open => staged[t] = IF ok THEN stmt[t] + 1 ELSE stmt[t]
  BY StmtAnswered
<1>2. /\ \A p \in Ops \ {t} : op'[p] = op[p]
      /\ \A p \in Txs \ {t} : cb'[p] = cb[p] /\ stmt'[p] = stmt[p]
  BY DEF Settle, Counted, TypeOK
<1>3. next.op = t /\ commit.op = t /\ begin # commit
  BY AskInjective DEF Ask
<1> HIDE DEF begin, next, commit
<1>4. /\ \A x \in Tracked : Single(x)' /\ Moved(x, next, rs)
      /\ \A p \in Ops \ {t} : Untouched(p)
  <2>1. \A r \in Tracked : /\ One({r}, rs)
                           /\ In(r, rs) => r.op = t /\ (r = next \/ (~Out(r) /\ ~Pend(r)))
    BY <1>1, <1>3 DEF next, commit
  <2>2. next \in Request /\ Answered(next, ok, rs) /\ Unanswered /\ t \in Ops
    BY <1>1 DEF next
  <2>3. \A r \in Tracked : Single(r)' /\ Moved(r, next, rs)
    BY <1>2, <2>1, <2>2, AnswerStep DEF next
  <2>4. ASSUME NEW p \in Ops \ {t} PROVE Untouched(p)
    <3>1. ASSUME NEW k \in Kinds(p) PROVE Ask(p, k) \in Tracked /\ Ask(p, k) # next /\ ~In(Ask(p, k), rs)
      <4>1. Ask(p, k).op = p /\ Ask(p, k) \in Tracked
        BY TrackedRequests DEF Ask
      <4> QED
        BY <1>3, <2>1, <4>1
    <3>2. \A r \in Tracked : r # next /\ ~In(r, rs) => Same(r)
      BY <1>2, <2>1, <2>2, AnswerStep DEF next
    <3> QED
      BY <1>2, <3>1, <3>2 DEF Untouched, InDatabase, Unanswered
  <2> QED
    BY <2>3, <2>4
<1>5. /\ ~Pend(begin)' /\ ~Out(begin)' /\ commit \notin busy' /\ ~Back(next, TRUE)'
      /\ Out(next)' => ~closed /\ In(next, rs) /\ Pend(next)'
      /\ Pend(next)' => ~closed /\ In(next, rs)
      /\ Out(commit)' => ~closed /\ In(commit, rs)
      /\ Pend(commit)' => ~closed /\ In(commit, rs)
  <2>1. ~In(begin, rs)
    BY <1>1, <1>3 DEF next, commit
  <2>2. /\ Out(begin)' => Out(begin) \/ In(begin, rs)
        /\ Pend(begin)' => Pend(begin) \/ In(begin, rs)
        /\ Out(commit)' => Out(commit) \/ (~closed /\ In(commit, rs))
        /\ Pend(commit)' => Pend(commit) \/ (~closed /\ In(commit, rs))
        /\ commit \in busy' => commit \in busy
    BY <1>1, <1>4 DEF Moved, Out
  <2>3. /\ ~Back(next, TRUE)' /\ ~Back(next, FALSE)'
        /\ Ahead(next)' => ~closed /\ ~fatal /\ In(next, rs)
        /\ Pend(next)' <=> ~closed /\ ~fatal /\ In(next, rs)
    BY <1>1, <1>4 DEF Moved
  <2> QED
    BY <1>1, <2>1, <2>2, <2>3 DEF Out
<1>6. /\ op'[t] \notin {"idle", "queued"} /\ cb'[t] = c /\ staged'[t] = staged[t]
      /\ ~InDatabase(t)' /\ fatal' = fatal /\ (t \in open' <=> t \in open)
  BY <1>1 DEF Settle, TypeOK, Unanswered, InDatabase
<1>7. TxFate(t)'
  <2>1. CASE c = "stmt" /\ Counted(t, ok) /\ ~In(commit, rs)
    <3>1. stmt'[t] = IF ok THEN stmt[t] + 1 ELSE stmt[t]
      BY <2>1 DEF Counted, TypeOK
    <3> QED
      BY <1>1, <1>5, <1>6, <2>1, <3>1 DEF TxFate, begin, next, commit
  <2>2. CASE c = "returned" /\ Counted(t, ok) /\ ~In(next, rs)
    <3>1. stmt'[t] = IF ok THEN stmt[t] + 1 ELSE stmt[t]
      BY <2>2 DEF Counted, TypeOK
    <3> QED
      BY <1>1, <1>5, <1>6, <2>2, <3>1 DEF TxFate, begin, next, commit
  <2>3. CASE c = "threw" /\ \A x \in Tracked : In(x, rs) => closed
    BY <1>1, <1>5, <1>6, <2>3 DEF TxFate, begin, next, commit
  <2> QED
    BY <2>1, <2>2, <2>3 DEF next, commit
<1>8. OpFate(t)'
  <2>1. op'[t] = "error" => ~Ahead(commit)'
    BY <1>1, <1>5 DEF Out, commit
  <2>2. End(t)' = commit
    BY DEF End, commit
  <2> QED
    BY <1>6, <2>1, <2>2 DEF OpFate
<1> QED
  BY <1>1, <1>4, <1>6, <1>7, <1>8, OneTouched

LEMMA FateStmt ==
  ASSUME TypeOK, Fate, NEW t \in Txs, AnswerStmtMore(t) \/ AnswerStmtLast(t) \/ AnswerStmtThrow(t)
  PROVE  Fate'
<1> DEFINE next == Ask(t, "stmt")
           commit == Ask(t, "commit")
           abort == Ask(t, "abort")
<1>1. /\ next \in Request /\ commit \in Request /\ abort \in Request
      /\ commit # next /\ \A x \in Tracked : x # abort
  BY AskType, AskInjective, FollowedAre DEF TxKinds
<1>2. \A r \in {next, commit, abort} : <<r>> \in Seq(Request)
  BY <1>1, Few
<1>3. /\ \A x, a : One({x}, <<a>>) /\ (In(x, <<a>>) <=> x = a)
      /\ \A x : One({x}, <<>>) /\ ~In(x, <<>>)
  BY FewCopies
<1>4. CASE AnswerStmtMore(t)
  <2> DEFINE c == IF closed THEN "threw" ELSE "stmt"
  <2>1. PICK ok \in BOOLEAN :
          /\ Answered(next, ok, <<next>>) /\ Unanswered /\ cb' = [cb EXCEPT ![t] = c]
          /\ Counted(t, ok) /\ (Settle(t, "error") \/ op' = op)
    BY <1>4 DEF AnswerStmtMore
  <2>2. \A p \in Txs \ {t} : stmt'[p] = stmt[p]
    BY <2>1 DEF Counted, TypeOK
  <2>3. ~In(commit, <<next>>) /\ \A x \in Tracked : One({x}, <<next>>) /\ (In(x, <<next>>) => x = next)
    BY <1>1, <1>3
  <2>4. c = "stmt" \/ (c = "threw" /\ closed)
    OBVIOUS
  <2> HIDE DEF c
  <2> QED
    BY <1>2, <2>1, <2>2, <2>3, <2>4, FateAnswerStmt
<1>5. CASE AnswerStmtLast(t)
  <2>1. PICK ok \in BOOLEAN :
          /\ Answered(next, ok, CommitOf(t)) /\ Unanswered /\ cb' = [cb EXCEPT ![t] = "returned"]
          /\ Counted(t, ok)
          /\ Settle(t, "error") \/ op' = op
          /\ closed \/ op' = op
    BY <1>5 DEF AnswerStmtLast
  <2>2. CommitOf(t) \in Seq(Request)
    BY <1>2, Few DEF CommitOf
  <2>3. /\ \A x \in Tracked : One({x}, CommitOf(t)) /\ (In(x, CommitOf(t)) => x = commit)
        /\ In(commit, CommitOf(t)) => op[t] = "running"
        /\ ~In(next, CommitOf(t))
    BY <1>1, <1>3 DEF CommitOf
  <2> QED
    BY <2>1, <2>2, <2>3, FateAnswerStmt
<1>6. CASE AnswerStmtThrow(t)
  <2>1. PICK ok \in BOOLEAN : /\ Answered(next, ok, AbortOf(t)) /\ Unanswered
                              /\ Settle(t, "error") /\ cb' = [cb EXCEPT ![t] = "threw"]
                              /\ stmt' = [stmt EXCEPT ![t] = IF ok THEN @ + 1 ELSE @]
    BY <1>6 DEF AnswerStmtThrow, Counted
  <2>2. AbortOf(t) \in Seq(Request)
    BY <1>2, Few DEF AbortOf
  <2>3. \A x \in Tracked : One({x}, AbortOf(t)) /\ ~In(x, AbortOf(t))
    <3>1. AbortOf(t) = <<abort>> \/ AbortOf(t) = <<>>
      BY DEF AbortOf
    <3>2. \A x : One({x}, <<abort>>) /\ (In(x, <<abort>>) <=> x = abort)
      BY FewCopies
    <3> HIDE DEF abort
    <3>3. CASE AbortOf(t) = <<abort>>
      BY <1>1, <3>2, <3>3
    <3>4. CASE AbortOf(t) = <<>>
      BY <1>3, <3>4
    <3> QED
      BY <3>1, <3>3, <3>4
  <2>4. \A p \in Txs \ {t} : stmt'[p] = stmt[p]
    BY <2>1 DEF TypeOK
  <2> QED
    BY <2>1, <2>2, <2>3, <2>4, FateAnswerStmt
<1> QED
  BY <1>4, <1>5, <1>6

LEMMA FateAnswerCommit ==
  ASSUME TypeOK, Fate, NEW t \in Txs, AnswerCommit(t)
  PROVE  Fate'
<1> DEFINE next == Ask(t, "stmt")
           commit == Ask(t, "commit")
           abort == Ask(t, "abort")
<1>1. /\ t \in Ops /\ commit \in Request /\ abort \in Request
      /\ commit \in Tracked /\ next \in Tracked /\ Ask(t, "begin") \in Tracked
      /\ commit # next /\ commit # Ask(t, "begin") /\ \A x \in Tracked : x # abort
  BY AskType, AskInjective, FollowedAre, KindsOf DEF TxKinds
<1>2. PICK ok \in BOOLEAN :
        /\ Answered(commit, ok, IF ok THEN <<>> ELSE <<abort>>)
        /\ Settle(t, IF ok THEN "done" ELSE "error") /\ Unanswered
        /\ UNCHANGED <<queue, cb, stmt, abortDue>>
  BY DEF AnswerCommit
<1> DEFINE rs == IF ok THEN <<>> ELSE <<abort>>
<1>3. rs \in Seq(Request) /\ \A x \in Tracked : One({x}, rs) /\ ~In(x, rs)
  <2>1. /\ \A x : One({x}, <<abort>>) /\ (In(x, <<abort>>) <=> x = abort)
        /\ \A x : One({x}, <<>>) /\ ~In(x, <<>>)
    BY FewCopies
  <2>2. rs = <<abort>> \/ rs = <<>>
    OBVIOUS
  <2>3. <<abort>> \in Seq(Request) /\ <<>> \in Seq(Request)
    BY <1>1, Few
  <2> HIDE DEF abort, rs
  <2>4. CASE rs = <<abort>>
    BY <1>1, <2>1, <2>3, <2>4
  <2>5. CASE rs = <<>>
    BY <2>1, <2>3, <2>5
  <2> QED
    BY <2>2, <2>4, <2>5
<1>4. Answered(commit, ok, rs)
  BY <1>2
<1>5. \A p \in Ops \ {t} : op'[p] = op[p]
  BY <1>2 DEF Settle, TypeOK
<1> HIDE DEF rs
<1>6. /\ Pend(commit) /\ Back(commit, ok)
      /\ \A x \in Tracked : Single(x)' /\ (x # commit => Same(x)) /\ Moved(x, commit, rs)
      /\ \A p \in Ops \ {t} : Untouched(p)
  BY <1>1, <1>2, <1>3, <1>4, <1>5, AnswerStep
<1>7. OpFate(t) /\ TxFate(t)
  BY <1>1 DEF Fate
<1>8. UNCHANGED <<fatal, cb, stmt, staged, open, busy>> /\ (InDatabase(t)' <=> InDatabase(t))
  BY <1>2 DEF Unanswered, InDatabase
<1>9. cb[t] = "returned"
  BY <1>6, <1>7 DEF TxFate
<1>10. op[t] \notin {"idle", "queued"}
  BY <1>6, <1>7, KindsOf DEF OpFate
<1>11. op'[t] \notin {"idle", "queued"} /\ (op'[t] = "error" => op[t] = "error" \/ ok = FALSE)
  BY <1>1, <1>2, <1>10 DEF Settle, TypeOK
<1>12. ~Ahead(commit)' /\ ~Back(commit, FALSE)' /\ ~Back(commit, TRUE)' /\ ~Pend(commit)'
  BY <1>1, <1>3, <1>6 DEF Moved
<1>13. OpFate(t)'
  <2>1. End(t) = commit /\ End(t)' = commit
    BY DEF End
  <2> HIDE DEF commit
  <2> QED
    BY <1>6, <1>7, <1>8, <1>11, <1>12, <2>1 DEF OpFate
<1>14. TxFate(t)'
  <2> DEFINE begin == Ask(t, "begin")
  <2>1. Same(begin) /\ Same(next)
    BY <1>1, <1>6
  <2> HIDE DEF begin, next, commit
  <2>2. /\ Pend(begin)' <=> Pend(begin)
        /\ Pend(next)' <=> Pend(next)
        /\ Out(begin)' <=> Out(begin)
        /\ Out(next)' <=> Out(next)
        /\ Back(next, TRUE)' <=> Back(next, TRUE)
        /\ ~Pend(commit)' /\ ~Out(commit)'
    BY <1>12, <2>1 DEF Same, Out, Ahead
  <2> QED
    BY <1>7, <1>8, <1>9, <1>11, <2>2 DEF TxFate, begin, next, commit
<1> QED
  BY <1>1, <1>6, <1>8, <1>13, <1>14, OneTouched

LEMMA FateReplying == TypeOK /\ Fate /\ Replying => Fate'
<1> SUFFICES ASSUME TypeOK, Fate, Replying PROVE Fate'
  OBVIOUS
<1>1. ASSUME NEW t \in Txs, AnswerAbort(t) PROVE Fate'
  <2>1. Answered(Ask(t, "abort"), TRUE, <<>>) /\ Unanswered /\ UNCHANGED <<op, cb, stmt>>
    BY <1>1 DEF AnswerAbort, store
  <2>2. t \in Ops /\ Ask(t, "abort") \in Request /\ \A x \in Tracked : x # Ask(t, "abort")
    BY KindsOf, AskType, FollowedAre DEF TxKinds
  <2>3. \A x : One({x}, <<>>) /\ ~In(x, <<>>)
    BY FewCopies
  <2>4. /\ \A x \in Tracked : Single(x)' /\ Same(x)
        /\ \A p \in Ops \ {t} : Untouched(p)
    BY <2>1, <2>2, <2>3, Few, AnswerStep
  <2>5. Untouched(t)
    BY <2>1, <2>2, <2>4, TrackedRequests DEF Untouched, Unanswered, InDatabase
  <2>6. OpFate(t)' /\ TxFate(t)' /\ fatal' = fatal
    BY <1>1, <2>1, <2>2, <2>5, UntouchedKeeps DEF Fate, Unanswered
  <2> QED
    BY <2>2, <2>4, <2>6, OneTouched
<1> QED
  BY <1>1, FateLateReply, FateAnswerRun, FateAnswerBegin, FateStmt, FateAnswerCommit DEF Replying

-----------------------------------------------------------------------------
(* What timers and ends do to it.                                            *)

LEMMA AllUntouched ==
  ASSUME Fate, fatal => fatal', \A r \in Tracked : Single(r)', \A o \in Ops : Untouched(o)
  PROVE  Fate'
<1>1. Txs \subseteq Ops /\ Tracked' = Tracked
  BY DEF Ops, Chained, Tracked, Kinds
<1>2. \A o \in Ops : OpFate(o)'
  BY UntouchedKeeps DEF Fate
<1>3. \A t \in Txs : TxFate(t)'
  BY <1>1, UntouchedKeeps DEF Fate
<1> QED
  BY <1>1, <1>2, <1>3 DEF Fate

\* The worker is gone, and with it all that was on its way.
LEMMA FateGone ==
  ASSUME TypeOK, Fate, Gone, UNCHANGED <<op, cb, stmt, fatal>>,
         \A r \in Tracked : One({r}, pending') /\ (Pend(r)' <=> Pend(r))
  PROVE  Fate'
<1>1. \A r : ~InBox(r)' /\ r \notin busy' /\ ~Back(r, TRUE)' /\ ~Back(r, FALSE)'
  BY DEF Gone, InBox, Back, In
<1>2. \A r : ~Out(r)' /\ ~Ahead(r)'
  BY <1>1 DEF Out, Ahead
<1>3. \A r \in Tracked : Single(r)'
  <2>1. One({}, inbox') /\ \A r : One({r}, inbox') /\ One(Both(r), replies')
    BY DEF Gone, One
  <2> QED
    BY <1>1, <1>2, <2>1 DEF Single
<1>4. UNCHANGED <<staged, applied>> /\ open' = {}
  BY DEF Gone
<1>5. \A o \in Ops : OpFate(o)'
  <2>1. \A o \in Ops : \A k \in Kinds(o) : Onward(Ask(o, k))
    BY <1>1, <1>2, TrackedRequests DEF Onward
  <2> QED
    BY <1>4, <2>1, OpFrame DEF Fate, InDatabase
<1>6. ASSUME NEW t \in Txs PROVE TxFate(t)'
  <2>1. \A k \in {"begin", "stmt", "commit"} : Pend(Ask(t, k))' <=> Pend(Ask(t, k))
    BY FollowedAre
  <2>2. InDatabase(t)' <=> InDatabase(t)
    BY <1>4 DEF InDatabase
  <2> QED
    BY <1>1, <1>2, <1>4, <2>1, <2>2 DEF Fate, TxFate
<1>7. Tracked' = Tracked
  BY DEF Tracked, Kinds
<1> QED
  BY <1>3, <1>5, <1>6, <1>7 DEF Fate

LEMMA FateExitSeen ==
  ASSUME TypeOK, Fate, ExitSeen
  PROVE  Fate'
<1>1. UNCHANGED <<inbox, busy, replies, open, staged, applied, stmt>> /\ pending' = <<>> /\ fatal' = TRUE
  BY DEF ExitSeen, failAll, worker
<1>2. \A r : /\ ~Pend(r)' /\ (Out(r)' <=> Out(r)) /\ (Ahead(r)' <=> Ahead(r))
             /\ Back(r, TRUE)' <=> Back(r, TRUE)
             /\ Back(r, FALSE)' <=> Back(r, FALSE)
  BY <1>1 DEF Pend, In, Out, Ahead, InBox, Back
<1>3. \A r \in Tracked : Single(r)'
  <2>1. \A r : One({r}, pending')
    BY <1>1 DEF One
  <2>2. \A r : One({r}, inbox)' <=> One({r}, inbox)
    BY <1>1 DEF One
  <2>3. \A r : One(Both(r), replies)' <=> One(Both(r), replies)
    BY <1>1 DEF One, Both
  <2>4. \A r : (InBox(r)' <=> InBox(r)) /\ (r \in busy' <=> r \in busy)
    BY <1>1 DEF InBox
  <2> QED
    BY <1>2, <2>1, <2>2, <2>3, <2>4 DEF Fate, Single
<1>4. \A o \in Ops : OpFate(o)'
  <2>1. \A o \in Ops : op'[o] \in {"idle", "queued"} => op[o] \in {"idle", "queued"}
    BY DEF ExitSeen
  <2>2. \A o \in Ops : \A k \in Kinds(o) : Onward(Ask(o, k))
    BY <1>2 DEF Onward
  <2> QED
    BY <1>1, <2>1, <2>2, OpFrame DEF Fate, InDatabase
<1>5. ASSUME NEW t \in Txs PROVE TxFate(t)'
  <2>1. cb'[t] = IF cb[t] \in {"begin", "stmt"} THEN "threw" ELSE cb[t]
    BY DEF ExitSeen
  <2>2. op'[t] \in {"idle", "queued"} => op[t] \in {"idle", "queued"}
    BY KindsOf DEF ExitSeen
  <2>3. TxFate(t) /\ (InDatabase(t)' <=> InDatabase(t))
    BY <1>1 DEF Fate, InDatabase
  <2> QED
    BY <1>1, <1>2, <2>1, <2>2, <2>3 DEF TxFate
<1>6. Tracked' = Tracked
  BY DEF Tracked, Kinds
<1> QED
  BY <1>3, <1>4, <1>5, <1>6 DEF Fate

LEMMA FateClose ==
  ASSUME TypeOK, Fate, Close
  PROVE  Fate'
<1>1. UNCHANGED <<op, cb, stmt, fatal>>
  BY DEF Close, store
<1>2. CASE degraded \/ fatal
  <2>1. Gone /\ pending' = pending
    BY <1>2 DEF Close
  <2>2. \A r \in Tracked : One({r}, pending') /\ (Pend(r)' <=> Pend(r))
    BY <2>1 DEF Fate, Single, Pend
  <2> QED
    BY <1>1, <2>1, <2>2, FateGone
<1>3. CASE ~(degraded \/ fatal)
  <2>1. Send(<<CloseAsk>>, pending, degraded, probe) /\ UNCHANGED worker /\ ~closed
    BY <1>3 DEF Close
  <2>2. Post(<<CloseAsk>>, pending, degraded, probe)
    BY <1>3, <2>1 DEF Post, Admits
  <2>3. <<CloseAsk>> \in Seq(Request)
    BY Few DEF CloseAsk, Ask, Request, TxKinds
  <2>4. \A x : One({x}, <<CloseAsk>>) /\ (In(x, <<CloseAsk>>) <=> x = CloseAsk)
    BY FewCopies
  <2>5. CloseAsk \notin Tracked
    BY FollowedAre DEF CloseAsk
  <2>6. UNCHANGED <<busy, replies, open, staged, applied>>
    BY <2>1 DEF worker
  <2>7. \A r \in Tracked : Single(r)' /\ Same(r)
    BY <2>2, <2>3, <2>4, <2>5, <2>6, PostedCopies DEF Fate
  <2>8. \A o \in Ops : Untouched(o)
    BY <1>1, <2>6, <2>7, TrackedRequests DEF Untouched, InDatabase
  <2> QED
    BY <1>1, <2>7, <2>8, AllUntouched
<1> QED
  BY <1>2, <1>3

LEMMA FateTerminate ==
  ASSUME TypeOK, Fate, Terminate
  PROVE  Fate'
<1> DEFINE n == Position(CloseAsk)
<1>1. n \in DOMAIN pending /\ pending[n] = CloseAsk /\ pending' = RemoveAt(pending, n)
  BY DEF Terminate, IsPending, Position, Forget
<1>2. UNCHANGED <<op, cb, stmt, fatal>> /\ Gone /\ pending \in Seq(Request)
  BY DEF Terminate, store, TypeOK
<1> HIDE DEF n
<1>3. ASSUME NEW r \in Tracked PROVE One({r}, pending') /\ (Pend(r)' <=> Pend(r))
  <2>1. One({r}, pending) /\ r # CloseAsk
    BY FollowedAre DEF Fate, Single, CloseAsk
  <2> QED
    BY <1>1, <1>2, <2>1, RemoveCopies DEF Pend
<1> QED
  BY <1>2, <1>3, FateGone

\* The timer of the oldest request: its promise is rejected, and it is where it was.
LEMMA TimeoutCopies ==
  ASSUME TypeOK, Fate, RequestTimeout
  PROVE  \A x \in Tracked :
           /\ Single(x)' /\ (Pend(x)' <=> Pend(x) /\ x # Head(pending)) /\ (InBox(x)' <=> InBox(x))
           /\ Back(x, TRUE)' <=> Back(x, TRUE)
           /\ Back(x, FALSE)' <=> Back(x, FALSE)
           /\ Ahead(x)' <=> Ahead(x)
           /\ Out(x)' <=> Out(x)
<1> DEFINE r == Head(pending)
           u == Tail(pending)
           abort == Ask(r.op, "abort")
           rs == IF r.kind = "commit" THEN <<abort>> ELSE <<>>
<1>1. pending # <<>> /\ pending \in Seq(Request) /\ r \in Request /\ u \in Seq(Request)
  BY DEF RequestTimeout, TypeOK
<1>2. /\ Post(rs, u, degraded', ProbeLeft(r)) /\ Settle(r.op, "timeout")
      /\ cb' = IF r.kind \in {"begin", "stmt"} THEN [cb EXCEPT ![r.op] = "threw"] ELSE cb
      /\ UNCHANGED <<fatal, stmt, busy, replies, open, staged, applied>>
  BY DEF RequestTimeout, worker
<1>3. rs \in Seq(Request) /\ \A x \in Tracked : One({x}, rs) /\ ~In(x, rs)
  <2>1. /\ \A x : One({x}, <<abort>>) /\ (In(x, <<abort>>) <=> x = abort)
        /\ \A x : One({x}, <<>>) /\ ~In(x, <<>>)
    <3> HIDE DEF abort
    <3> QED
      BY FewCopies
  <2>2. (r.kind = "commit" /\ rs = <<abort>>) \/ rs = <<>>
    OBVIOUS
  <2>3. r.kind = "commit" => abort \in Request
    BY <1>1, AskType DEF Request, TxKinds
  <2>4. \A x \in Tracked : x # abort
    BY FollowedAre
  <2>5. <<>> \in Seq(Request) /\ (abort \in Request => <<abort>> \in Seq(Request))
    BY Few
  <2> HIDE DEF abort, rs
  <2>6. CASE r.kind = "commit" /\ rs = <<abort>>
    BY <2>1, <2>3, <2>4, <2>5, <2>6
  <2>7. CASE rs = <<>>
    BY <2>1, <2>5, <2>7
  <2> QED
    BY <2>2, <2>6, <2>7
<1> HIDE DEF r, u, rs, abort
<1>4. ASSUME NEW x \in Tracked
      PROVE  /\ Single(x)' /\ (Pend(x)' <=> Pend(x) /\ x # r) /\ (InBox(x)' <=> InBox(x))
             /\ Back(x, TRUE)' <=> Back(x, TRUE)
             /\ Back(x, FALSE)' <=> Back(x, FALSE)
             /\ Ahead(x)' <=> Ahead(x)
             /\ Out(x)' <=> Out(x)
  <2>1. Single(x) /\ One({x}, pending) /\ One({x}, inbox)
    BY DEF Fate, Single
  <2>2. /\ One({x}, Tail(pending))
        /\ \A y \in {x} : In(y, Tail(pending)) <=> In(y, pending) /\ Head(pending) \notin {x}
    BY <1>1, <2>1, TailCopies
  <2>3. One({x}, u) /\ (In(x, u) <=> Pend(x) /\ x # r)
    BY <2>2 DEF u, r, Pend
  <2>4. /\ One({x}, pending') /\ One({x}, inbox')
        /\ In(x, pending') <=> In(x, u) \/ (Admits(degraded', ProbeLeft(r)) /\ In(x, rs))
        /\ In(x, inbox') <=> In(x, inbox) \/ (alive /\ Admits(degraded', ProbeLeft(r)) /\ In(x, rs))
    BY <1>1, <1>2, <1>3, <2>1, <2>3, PostCopies
  <2>5. (Pend(x)' <=> Pend(x) /\ x # r) /\ (InBox(x)' <=> InBox(x))
    BY <1>3, <2>3, <2>4 DEF Pend, InBox
  <2>6. /\ Back(x, TRUE)' <=> Back(x, TRUE)
        /\ Back(x, FALSE)' <=> Back(x, FALSE)
        /\ One(Both(x), replies') <=> One(Both(x), replies)
        /\ busy' = busy
    BY <1>2 DEF Back
  <2> QED
    BY <2>1, <2>4, <2>5, <2>6 DEF Single, Ahead, Out
<1> QED
  BY <1>4 DEF r

LEMMA FateRequestTimeout ==
  ASSUME TypeOK, Fate, RequestTimeout
  PROVE  Fate'
<1> DEFINE r == Head(pending)
<1>1. pending # <<>> /\ pending \in Seq(Request) /\ r \in Request
  BY DEF RequestTimeout, TypeOK
<1>2. /\ Settle(r.op, "timeout")
      /\ cb' = IF r.kind \in {"begin", "stmt"} THEN [cb EXCEPT ![r.op] = "threw"] ELSE cb
      /\ UNCHANGED <<fatal, stmt, busy, replies, open, staged, applied>>
  BY DEF RequestTimeout, worker
<1>4. \A x \in Tracked :
        /\ Single(x)' /\ (Pend(x)' <=> Pend(x) /\ x # r) /\ (InBox(x)' <=> InBox(x))
        /\ Back(x, TRUE)' <=> Back(x, TRUE)
        /\ Back(x, FALSE)' <=> Back(x, FALSE)
        /\ Ahead(x)' <=> Ahead(x)
        /\ Out(x)' <=> Out(x)
  BY TimeoutCopies
<1> HIDE DEF r
<1>5. \A o \in Ops : OpFate(o)'
  <2>1. \A o \in Ops : /\ op'[o] \in {"idle", "queued"} => op[o] \in {"idle", "queued"}
                       /\ op'[o] = "error" => op[o] = "error"
    BY <1>2 DEF Settle, TypeOK
  <2>2. \A o \in Ops : \A k \in Kinds(o) : Onward(Ask(o, k))
    BY <1>4, TrackedRequests DEF Onward
  <2> QED
    BY <1>2, <2>1, <2>2, OpFrame DEF Fate, InDatabase
<1>6. ASSUME NEW t \in Txs PROVE TxFate(t)'
  <2> DEFINE begin == Ask(t, "begin")
             next == Ask(t, "stmt")
             commit == Ask(t, "commit")
  <2>1. begin \in Tracked /\ next \in Tracked /\ commit \in Tracked /\ t \in Ops
    BY FollowedAre, KindsOf
  <2>2. TxFate(t) /\ OpFate(t) /\ (InDatabase(t)' <=> InDatabase(t))
    BY <1>2, <2>1 DEF Fate, InDatabase
  <2>3. op'[t] \in {"idle", "queued"} => op[t] \in {"idle", "queued"}
    BY <1>2, <2>1 DEF Settle, TypeOK
  <2>4. (r = begin \/ r = next) => r.kind \in {"begin", "stmt"} /\ r.op = t
    BY DEF Ask
  <2>5. r.kind \in {"begin", "stmt"} /\ r.op = t => (r = begin \/ r = next)
    BY <1>1 DEF Request, Ask, TxKinds
  <2>6. /\ (r = begin \/ r = next) => cb'[t] = "threw"
        /\ ~(r = begin \/ r = next) => cb'[t] = cb[t]
    BY <1>2, <2>4, <2>5 DEF TypeOK
  <2>7. Pend(r)
    <3>1. 1 \in DOMAIN pending /\ pending[1] = r
      BY <1>1 DEF r
    <3> QED
      BY <3>1 DEF Pend, In
  <2>8. (r = begin \/ r = next) => op[t] \notin {"idle", "queued"}
    BY <2>2, <2>7, KindsOf DEF OpFate
  <2> HIDE DEF begin, next, commit
  <2>9. /\ Pend(begin)' <=> Pend(begin) /\ begin # r
        /\ Pend(next)' <=> Pend(next) /\ next # r
        /\ Pend(commit)' => Pend(commit)
        /\ Out(begin)' <=> Out(begin)
        /\ Out(next)' <=> Out(next)
        /\ Out(commit)' <=> Out(commit)
        /\ Back(next, TRUE)' <=> Back(next, TRUE)
    BY <1>4, <2>1
  <2>10. CASE r = begin \/ r = next
    BY <1>2, <2>2, <2>3, <2>6, <2>7, <2>8, <2>9, <2>10 DEF TxFate, begin, next, commit
  <2>11. CASE ~(r = begin \/ r = next)
    BY <1>2, <2>2, <2>3, <2>6, <2>9, <2>11 DEF TxFate, begin, next, commit
  <2> QED
    BY <2>10, <2>11
<1>7. Tracked' = Tracked
  BY DEF Tracked, Kinds
<1> QED
  BY <1>4, <1>5, <1>6, <1>7 DEF Fate

LEMMA FateEnding == TypeOK /\ Fate /\ Ending => Fate'
<1> SUFFICES ASSUME TypeOK, Fate, Ending PROVE Fate'
  OBVIOUS
<1>1. CASE WorkerDies
  <2>1. Gone /\ UNCHANGED <<op, cb, stmt, fatal, pending>>
    BY <1>1 DEF WorkerDies, store
  <2>2. \A r \in Tracked : One({r}, pending') /\ (Pend(r)' <=> Pend(r))
    BY <2>1 DEF Fate, Single, Pend
  <2> QED
    BY <2>1, <2>2, FateGone
<1> QED
  BY <1>1, FateRequestTimeout, FateExitSeen, FateClose, FateTerminate DEF Ending

-----------------------------------------------------------------------------
(* What the worker does to it.                                               *)

\* A request with the worker moves on: from the inbox to native code or to a reply, or
\* from native code to a reply.
LEMMA MovedCopies ==
  ASSUME TypeOK, Fate, NEW q \in Request, pending' = pending,
         \/ /\ inbox # <<>> /\ q = Head(inbox) /\ inbox' = Tail(inbox)
            /\ \/ busy' = busy \cup {q} /\ replies' = replies
               \/ busy' = busy /\ \E ok \in BOOLEAN : Answer(q, ok)
         \/ /\ q \in busy /\ busy' = busy \ {q} /\ inbox' = inbox
            /\ \E ok \in BOOLEAN : Answer(q, ok)
  PROVE  \A r \in Tracked :
           /\ Single(r)' /\ Onward(r) /\ (Pend(r)' <=> Pend(r))
           /\ r # q => Same(r)
           /\ r = q => Ahead(r) /\ ~Back(r, TRUE) /\ ~Back(r, FALSE) /\ ~InBox(r)'
           /\ r = q => (r \in busy' <=> replies' = replies /\ r \in busy')
           /\ Back(r, TRUE)' => Back(r, TRUE) \/ (r = q /\ Answer(q, TRUE))
           /\ r = q /\ Answer(q, TRUE) => Back(r, TRUE)' /\ ~Back(r, FALSE)' /\ ~Ahead(r)'
           /\ r = q /\ Answer(q, FALSE) => Back(r, FALSE)' /\ ~Back(r, TRUE)' /\ ~Ahead(r)'
<1> SUFFICES ASSUME NEW r \in Tracked
             PROVE  /\ Single(r)' /\ Onward(r) /\ (Pend(r)' <=> Pend(r))
                    /\ r # q => Same(r)
                    /\ r = q => Ahead(r) /\ ~Back(r, TRUE) /\ ~Back(r, FALSE) /\ ~InBox(r)'
                    /\ r = q => (r \in busy' <=> replies' = replies /\ r \in busy')
                    /\ Back(r, TRUE)' => Back(r, TRUE) \/ (r = q /\ Answer(q, TRUE))
                    /\ r = q /\ Answer(q, TRUE) => Back(r, TRUE)' /\ ~Back(r, FALSE)' /\ ~Ahead(r)'
                    /\ r = q /\ Answer(q, FALSE) => Back(r, FALSE)' /\ ~Back(r, TRUE)' /\ ~Ahead(r)'
  OBVIOUS
<1>1. Single(r) /\ inbox \in Seq(Request) /\ replies \in Seq(Reply)
  BY DEF Fate, TypeOK
<1>0. inbox # <<>> => Tail(inbox) # inbox
  <2>1. inbox # <<>> => Len(inbox) \in Nat /\ Len(Tail(inbox)) = Len(inbox) - 1
    BY <1>1
  <2> QED
    BY <2>1
<1>2. \A ok \in BOOLEAN : [req |-> q, ok |-> ok] \in Reply
  BY DEF Reply
<1>3. Pend(r)' <=> Pend(r)
  BY DEF Pend
<1>4. One({r}, pending')
  BY <1>1 DEF Single
<1>5. inbox # <<>> /\ q = Head(inbox) => InBox(q)
  BY <1>1 DEF InBox, In
<1>6. r = q => Ahead(r) /\ ~Back(r, TRUE) /\ ~Back(r, FALSE)
  BY <1>1, <1>5 DEF Single, Ahead
<1>7. /\ One({r}, inbox')
      /\ InBox(r)' <=> InBox(r) /\ (r # q \/ inbox' = inbox)
  <2>1. CASE inbox # <<>> /\ q = Head(inbox) /\ inbox' = Tail(inbox)
    <3>1. One({r}, Tail(inbox)) /\ (In(r, Tail(inbox)) <=> In(r, inbox) /\ Head(inbox) \notin {r})
      <4>1. One({r}, inbox) /\ r \in {r}
        BY <1>1 DEF Single
      <4> QED
        BY <1>1, <2>1, <4>1, TailCopies
    <3>3. inbox' # inbox
      BY <1>0, <2>1
    <3> QED
      BY <2>1, <3>1, <3>3 DEF InBox
  <2>2. CASE inbox' = inbox
    BY <1>1, <2>2 DEF Single, InBox
  <2> QED
    BY <2>1, <2>2
<1>8. ASSUME NEW ok \in BOOLEAN, Answer(q, ok)
      PROVE  /\ One(Both(r), replies') /\ replies' # replies
             /\ Back(r, TRUE)' <=> Back(r, TRUE) \/ (r = q /\ ok = TRUE)
             /\ Back(r, FALSE)' <=> Back(r, FALSE) \/ (r = q /\ ok = FALSE)
  <2> DEFINE a == [req |-> q, ok |-> ok]
  <2>1. a \in Reply /\ replies' = Append(replies, a) /\ One(Both(r), replies)
    BY <1>1, <1>2, <1>8 DEF Answer, Single
  <2>2. a \in Both(r) => r = q
    BY DEF Both
  <2>3. a \in Both(r) => \A y \in Both(r) : ~In(y, replies)
    BY <1>6, <2>2 DEF Back, Both
  <2>4. \A x \in BOOLEAN : [req |-> r, ok |-> x] = a <=> r = q /\ ok = x
    <3>1. \A x : [req |-> r, ok |-> x].req = r /\ [req |-> r, ok |-> x].ok = x
      OBVIOUS
    <3>2. a.req = q /\ a.ok = ok
      OBVIOUS
    <3> QED
      BY <3>1, <3>2
  <2> HIDE DEF a
  <2>5. /\ One(Both(r), Append(replies, a))
        /\ \A y : In(y, Append(replies, a)) <=> In(y, replies) \/ y = a
    BY <1>1, <2>1, <2>3, AppendCopies
  <2>6. Len(replies') = Len(replies) + 1 /\ Len(replies) \in Nat
    BY <1>1, <2>1
  <2>7. replies' # replies
    BY <2>6
  <2> QED
    BY <2>1, <2>4, <2>5, <2>7 DEF Back
<1>9. CASE busy' = busy \cup {q} /\ replies' = replies /\ inbox' # inbox
  <2>1. \A ok \in BOOLEAN : ~Answer(q, ok)
    BY <1>8, <1>9
  <2>2. /\ Back(r, TRUE)' <=> Back(r, TRUE)
        /\ Back(r, FALSE)' <=> Back(r, FALSE)
        /\ One(Both(r), replies')
    BY <1>1, <1>9 DEF Back, Single
  <2>3. InBox(q)
    BY <1>5, <1>9
  <2> QED
    BY <1>1, <1>3, <1>4, <1>6, <1>7, <1>9, <2>1, <2>2, <2>3 DEF Single, Same, Onward, Ahead, Out
<1>10. ASSUME NEW ok \in BOOLEAN, Answer(q, ok),
              (busy' = busy /\ inbox' # inbox) \/ (busy' = busy \ {q} /\ inbox' = inbox)
       PROVE  /\ Single(r)' /\ Onward(r)
              /\ r # q => Same(r)
              /\ r = q => ~InBox(r)' /\ ~Ahead(r)' /\ r \notin busy'
  <2>1. r = q => ~InBox(r)' /\ r \notin busy'
    <3>1. CASE busy' = busy /\ inbox' # inbox
      <4>1. InBox(q)
        BY <1>5, <3>1
      <4> QED
        BY <1>1, <1>7, <3>1, <4>1 DEF Single
    <3>2. CASE busy' = busy \ {q} /\ inbox' = inbox
      <4>1. q \in busy
        BY <3>2, <1>7, <1>5
      <4> QED
        BY <1>1, <1>7, <3>2, <4>1 DEF Single
    <3> QED
      BY <1>10, <3>1, <3>2
  <2>2. r # q => (InBox(r)' <=> InBox(r)) /\ (r \in busy' <=> r \in busy)
    BY <1>7, <1>10
  <2> QED
    BY <1>1, <1>3, <1>4, <1>6, <1>7, <1>8, <1>10, <2>1, <2>2 DEF Single, Same, Onward, Ahead, Out
<1>11. ASSUME NEW ok \in BOOLEAN, Answer(q, ok) PROVE Answer(q, ~ok) => FALSE
  <2>1. Answer(q, ok) /\ Answer(q, ~ok) => [req |-> q, ok |-> ok] = [req |-> q, ok |-> ~ok]
    BY <1>1, <1>2 DEF Answer
  <2> QED
    BY <1>11, <2>1
<1>12. CASE \E ok \in BOOLEAN : Answer(q, ok)
  <2>1. PICK ok \in BOOLEAN : Answer(q, ok)
    BY <1>12
  <2>2. replies' # replies
    BY <1>8, <2>1
  <2>3. (busy' = busy /\ inbox' # inbox) \/ (busy' = busy \ {q} /\ inbox' = inbox)
    BY <1>0, <2>2
  <2> QED
    BY <1>3, <1>6, <1>8, <1>10, <1>11, <2>1, <2>2, <2>3
<1> QED
  BY <1>0, <1>9, <1>12

LEMMA FateDispatch ==
  ASSUME TypeOK, Fate, Dispatch
  PROVE  Fate'
<1> DEFINE q == Head(inbox)
<1>1. /\ inbox # <<>> /\ inbox' = Tail(inbox) /\ q \in Request
      /\ UNCHANGED <<op, cb, stmt, pending, fatal, staged, applied>>
  BY DEF Dispatch, TypeOK, store
<1>2. \/ /\ q.kind \in {"run", "stmt", "commit"} /\ Known(q)
         /\ busy' = busy \cup {q} /\ open' = open /\ replies' = replies
      \/ Answer(q, FALSE) /\ busy' = busy /\ open' = open
      \/ q.kind = "begin" /\ open' = open \cup {q.op} /\ Answer(q, TRUE) /\ busy' = busy
      \/ q.kind = "abort" /\ open' = open \ {q.op} /\ Answer(q, TRUE) /\ busy' = busy
      \/ q.kind = "close" /\ Answer(q, TRUE) /\ busy' = busy /\ open' = open
  BY DEF Dispatch
<1> HIDE DEF q
<1>3. \/ busy' = busy \cup {q} /\ replies' = replies
      \/ busy' = busy /\ \E ok \in BOOLEAN : Answer(q, ok)
  BY <1>2
<1>4. \A r \in Tracked :
        /\ Single(r)' /\ Onward(r) /\ (Pend(r)' <=> Pend(r))
        /\ r # q => Same(r)
        /\ r = q => Ahead(r) /\ ~Back(r, TRUE) /\ ~Back(r, FALSE) /\ ~InBox(r)'
        /\ Back(r, TRUE)' => Back(r, TRUE) \/ (r = q /\ Answer(q, TRUE))
        /\ r = q /\ Answer(q, FALSE) => ~Back(r, TRUE)'
  BY <1>1, <1>3, MovedCopies DEF q
<1>5. \A o \in Ops : OpFate(o)'
  BY <1>1, <1>4, OpFrame, TrackedRequests DEF Fate, InDatabase
<1>6. ASSUME NEW t \in Txs PROVE TxFate(t)'
  <2> DEFINE begin == Ask(t, "begin")
             next == Ask(t, "stmt")
             commit == Ask(t, "commit")
  <2>1. begin \in Tracked /\ next \in Tracked /\ commit \in Tracked
    BY FollowedAre
  <2>2. TxFate(t) /\ (InDatabase(t)' <=> InDatabase(t))
    BY <1>1 DEF Fate, InDatabase
  <2>3. /\ begin.kind = "begin" /\ next.kind = "stmt" /\ commit.kind = "commit"
        /\ begin.op = t /\ next.op = t /\ commit.op = t
    BY DEF Ask
  <2>4. q.kind = "begin" /\ q.op = t => q = begin
    BY <1>1 DEF Request, Ask, TxKinds
  <2> HIDE DEF begin, next, commit
  <2>5. Back(next, TRUE)' <=> Back(next, TRUE)
    <3>1. Back(next, TRUE) => next # q
      BY <1>4, <2>1
    <3>2. next # q => (Back(next, TRUE)' <=> Back(next, TRUE))
      BY <1>4, <2>1 DEF Same
    <3>3. ASSUME next = q PROVE ~Back(next, TRUE)'
      <4>1. CASE replies' = replies
        BY <1>4, <2>1, <3>3, <4>1 DEF Back
      <4>2. CASE Answer(q, FALSE)
        BY <1>4, <2>1, <3>3, <4>2
      <4> QED
        BY <1>2, <2>3, <3>3, <4>1, <4>2
    <3> QED
      BY <3>1, <3>2, <3>3
  <2>6. commit \in busy' => commit \in busy \/ (commit = q /\ t \in open)
    BY <1>2, <2>3 DEF Known
  <2>7. commit = q => Out(commit)
    BY <1>4, <2>1 DEF Out
  <2>8. commit \in busy' => cb[t] = "returned" /\ staged[t] = stmt[t]
    <3>1. Back(next, TRUE) => Out(next)
      BY DEF Out
    <3> QED
      BY <2>2, <2>6, <2>7, <3>1 DEF TxFate, begin, next, commit
  <2>9. t \in open' => t \in open \/ Out(begin)
    <3>1. q = begin => Out(begin)
      BY <1>4, <2>1 DEF Out
    <3>2. t \in open' => t \in open \/ (q.kind = "begin" /\ q.op = t)
      BY <1>2
    <3> QED
      BY <2>4, <3>1, <3>2
  <2>10. /\ Pend(begin)' <=> Pend(begin)
         /\ Pend(next)' <=> Pend(next)
         /\ Pend(commit)' <=> Pend(commit)
         /\ Out(begin)' => Out(begin)
         /\ Out(next)' => Out(next)
         /\ Out(commit)' => Out(commit)
    BY <1>4, <2>1 DEF Onward
  <2> QED
    BY <1>1, <2>2, <2>5, <2>8, <2>9, <2>10 DEF TxFate, begin, next, commit
<1>7. Tracked' = Tracked
  BY DEF Tracked, Kinds
<1> QED
  BY <1>4, <1>5, <1>6, <1>7 DEF Fate

\* Native code that ends.
LEMMA EndedStep ==
  ASSUME TypeOK, Fate, NEW a \in Ops, NEW k \in Kinds(a), NEW ok \in BOOLEAN, Ended(Ask(a, k), ok),
         \A p \in Txs \ {a} : staged'[p] = staged[p] /\ (p \in open' <=> p \in open),
         \A p \in Ops \ {a} : InDatabase(p)' <=> InDatabase(p)
  PROVE  /\ \A r \in Tracked : Single(r)' /\ Onward(r)
         /\ \A r \in Tracked : r # Ask(a, k) => Same(r)
         /\ Ahead(Ask(a, k)) /\ Ask(a, k) \in busy /\ ~Back(Ask(a, k), TRUE) /\ ~Back(Ask(a, k), FALSE)
         /\ Ask(a, k) \in Tracked /\ ~Ahead(Ask(a, k))' /\ (Pend(Ask(a, k))' <=> Pend(Ask(a, k)))
         /\ IF ok THEN Back(Ask(a, k), TRUE)' /\ ~Back(Ask(a, k), FALSE)'
                  ELSE Back(Ask(a, k), FALSE)' /\ ~Back(Ask(a, k), TRUE)'
         /\ \A p \in Ops \ {a} : Untouched(p)
         /\ op' = op /\ cb' = cb /\ stmt' = stmt /\ fatal' = fatal
<1> DEFINE q == Ask(a, k)
<1>1. q \in Tracked /\ q \in Request
  BY TrackedRequests
<1>2. /\ q \in busy /\ busy' = busy \ {q} /\ Answer(q, ok)
      /\ UNCHANGED <<op, cb, stmt, pending, fatal, inbox>>
  BY DEF Ended, store
<1>5. q.op = a
  BY DEF Ask
<1> HIDE DEF q
<1>3. \A r \in Tracked :
        /\ Single(r)' /\ Onward(r) /\ (Pend(r)' <=> Pend(r))
        /\ r # q => Same(r)
        /\ r = q => Ahead(r) /\ ~Back(r, TRUE) /\ ~Back(r, FALSE) /\ ~InBox(r)'
        /\ r = q /\ Answer(q, TRUE) => Back(r, TRUE)' /\ ~Back(r, FALSE)' /\ ~Ahead(r)'
        /\ r = q /\ Answer(q, FALSE) => Back(r, FALSE)' /\ ~Back(r, TRUE)' /\ ~Ahead(r)'
  BY <1>1, <1>2, MovedCopies
<1>4. ASSUME NEW p \in Ops \ {a} PROVE Untouched(p)
  <2>1. ASSUME NEW j \in Kinds(p) PROVE Ask(p, j) \in Tracked /\ Ask(p, j) # q
    <3>1. Ask(p, j).op = p
      BY DEF Ask
    <3> QED
      BY <1>5, <3>1, TrackedRequests
  <2> QED
    BY <1>2, <1>3, <2>1 DEF Untouched
<1>6. CASE ok = TRUE
  BY <1>1, <1>2, <1>3, <1>4, <1>6 DEF q
<1>7. CASE ok = FALSE
  BY <1>1, <1>2, <1>3, <1>4, <1>7 DEF q
<1> QED
  BY <1>6, <1>7

LEMMA InAppended ==
  ASSUME TypeOK, NEW o \in Ops, NEW ok \in BOOLEAN, applied' = IF ok THEN Append(applied, o) ELSE applied
  PROVE  /\ \A p : p # o => (InDatabase(p)' <=> InDatabase(p))
         /\ InDatabase(o)' <=> InDatabase(o) \/ ok
<1>1. applied \in Seq(Ops)
  BY DEF TypeOK
<1>2. DOMAIN Append(applied, o) = 1..(Len(applied) + 1) /\ Len(applied) \in Nat
      /\ DOMAIN applied = 1..Len(applied) /\ Append(applied, o)[Len(applied) + 1] = o
      /\ \A i \in 1..Len(applied) : Append(applied, o)[i] = applied[i]
  BY <1>1
<1>3. CASE ok
  BY <1>2, <1>3 DEF InDatabase
<1>4. CASE ~ok
  BY <1>4 DEF InDatabase
<1> QED
  BY <1>3, <1>4

\* The end of a write, a query or a direct run; only of the first kind anything is kept.
LEMMA FateFinish ==
  ASSUME TypeOK, Fate, NEW o \in Writes \cup Reads \cup Raws, NEW ok \in BOOLEAN,
         Ended(Ask(o, "run"), ok), UNCHANGED <<open, staged>>,
         applied' = applied \/ applied' = IF ok THEN Append(applied, o) ELSE applied
  PROVE  Fate'
<1> DEFINE r == Ask(o, "run")
<1>1. o \in Ops /\ o \notin Txs /\ "run" \in Kinds(o) /\ Kinds(o) = {"run"} /\ End(o) = r
  BY KindsOf
<1>2. /\ \A p : p # o => (InDatabase(p)' <=> InDatabase(p))
      /\ InDatabase(o)' => InDatabase(o) \/ ok
  <2>1. CASE applied' = applied
    BY <2>1 DEF InDatabase
  <2>2. CASE applied' = IF ok THEN Append(applied, o) ELSE applied
    BY <1>1, <2>2, InAppended
  <2> QED
    BY <2>1, <2>2
<1>3. /\ \A x \in Tracked : Single(x)'
      /\ Ahead(r) /\ ~Ahead(r)' /\ (ok => ~Back(r, FALSE)')
      /\ \A p \in Ops \ {o} : Untouched(p)
      /\ op' = op /\ fatal' = fatal
  BY <1>1, <1>2, EndedStep
<1>4. OpFate(o) /\ Out(r)
  BY <1>1, <1>3 DEF Fate, Out
<1>5. op[o] \notin {"idle", "queued"} /\ (op[o] = "error" => fatal) /\ ~InDatabase(o)
  BY <1>1, <1>3, <1>4 DEF OpFate
<1>6. OpFate(o)'
  <2>1. End(o)' = r
    BY <1>1 DEF End
  <2> QED
    BY <1>2, <1>3, <1>5, <2>1 DEF OpFate
<1> QED
  BY <1>1, <1>3, <1>6, OneTouched

LEMMA FateFinishStmt ==
  ASSUME TypeOK, Fate, NEW t \in Txs, FinishStmt(t)
  PROVE  Fate'
<1> DEFINE begin == Ask(t, "begin")
           next == Ask(t, "stmt")
           commit == Ask(t, "commit")
<1>1. PICK ok \in BOOLEAN :
        /\ Ended(next, ok) /\ UNCHANGED <<open, applied>>
        /\ staged' = IF ok /\ t \in open THEN [staged EXCEPT ![t] = @ + 1] ELSE staged
  BY DEF FinishStmt
<1>2. /\ t \in Ops /\ "stmt" \in Kinds(t) /\ begin \in Tracked /\ commit \in Tracked
      /\ begin # next /\ commit # next
  BY KindsOf, FollowedAre, AskInjective
<1>3. /\ \A p \in Txs \ {t} : staged'[p] = staged[p]
      /\ staged'[t] = IF ok /\ t \in open THEN staged[t] + 1 ELSE staged[t]
  BY <1>1 DEF TypeOK
<1>4. \A p \in Ops : InDatabase(p)' <=> InDatabase(p)
  BY <1>1 DEF InDatabase
<1>5. /\ \A x \in Tracked : Single(x)' /\ Onward(x) /\ (x # next => Same(x))
      /\ Ahead(next) /\ ~Back(next, TRUE) /\ ~Ahead(next)' /\ (Pend(next)' <=> Pend(next))
      /\ Back(next, TRUE)' <=> ok
      /\ \A p \in Ops \ {t} : Untouched(p)
      /\ op' = op /\ cb' = cb /\ stmt' = stmt /\ fatal' = fatal
  BY <1>1, <1>2, <1>3, <1>4, EndedStep
<1>6. OpFate(t) /\ TxFate(t) /\ Out(next)
  BY <1>2, <1>5 DEF Fate, Out
<1>7. OpFate(t)'
  BY <1>2, <1>4, <1>5, <1>6, OpFrame, TrackedRequests
<1>8. TxFate(t)'
  <2>1. Same(begin) /\ Same(commit)
    BY <1>2, <1>5
  <2> HIDE DEF begin, next, commit
  <2>2. /\ Pend(begin)' <=> Pend(begin)
        /\ Pend(commit)' <=> Pend(commit)
        /\ Out(begin)' <=> Out(begin)
        /\ Out(commit)' <=> Out(commit)
        /\ commit \in busy' <=> commit \in busy
        /\ commit \in busy => Out(commit)
    BY <2>1 DEF Same, Out, Ahead
  <2>3. cb[t] = "threw" \/ (cb[t] = "stmt" /\ Pend(next))
    BY <1>6 DEF TxFate, next
  <2>4. t \in open /\ cb[t] = "stmt" => staged[t] = stmt[t]
    BY <1>5, <1>6 DEF TxFate, next
  <2> QED
    BY <1>1, <1>2, <1>3, <1>4, <1>5, <1>6, <2>2, <2>3, <2>4 DEF TxFate, begin, next, commit
<1> QED
  BY <1>2, <1>5, <1>7, <1>8, OneTouched

LEMMA FateFinishCommit ==
  ASSUME TypeOK, Fate, NEW t \in Txs, FinishCommit(t)
  PROVE  Fate'
<1> DEFINE begin == Ask(t, "begin")
           next == Ask(t, "stmt")
           commit == Ask(t, "commit")
<1>1. PICK ok \in BOOLEAN :
        /\ Ended(commit, ok) /\ staged' = staged
        /\ applied' = IF ok THEN Append(applied, t) ELSE applied
        /\ open' = IF ok THEN open \ {t} ELSE open
  BY DEF FinishCommit
<1>2. /\ t \in Ops /\ "commit" \in Kinds(t) /\ begin \in Tracked /\ next \in Tracked
      /\ begin # commit /\ next # commit /\ End(t) = commit
  BY KindsOf, FollowedAre, AskInjective
<1>3. /\ \A p : p # t => (InDatabase(p)' <=> InDatabase(p))
      /\ InDatabase(t)' <=> InDatabase(t) \/ ok
  BY <1>1, <1>2, InAppended
<1>4. \A p \in Txs \ {t} : staged'[p] = staged[p] /\ (p \in open' <=> p \in open)
  BY <1>1
<1>5. /\ \A x \in Tracked : Single(x)' /\ (x # commit => Same(x))
      /\ Ahead(commit) /\ commit \in busy /\ ~Ahead(commit)' /\ (Pend(commit)' <=> Pend(commit))
      /\ ok => ~Back(commit, FALSE)'
      /\ \A p \in Ops \ {t} : Untouched(p)
      /\ op' = op /\ cb' = cb /\ stmt' = stmt /\ fatal' = fatal
  BY <1>1, <1>2, <1>3, <1>4, EndedStep
<1>6. OpFate(t) /\ TxFate(t) /\ Out(commit)
  BY <1>2, <1>5 DEF Fate, Out
<1>7. op[t] \notin {"idle", "queued"} /\ (op[t] = "error" => fatal) /\ ~InDatabase(t)
  BY <1>2, <1>5, <1>6, KindsOf DEF OpFate
<1>8. OpFate(t)'
  <2>1. End(t)' = commit
    BY <1>2 DEF End
  <2> QED
    BY <1>3, <1>5, <1>7, <2>1 DEF OpFate
<1>9. TxFate(t)'
  <2>1. Same(begin) /\ Same(next)
    BY <1>2, <1>5
  <2> HIDE DEF begin, next, commit
  <2>2. /\ Pend(begin)' <=> Pend(begin)
        /\ Pend(next)' <=> Pend(next)
        /\ Out(begin)' <=> Out(begin)
        /\ Out(next)' <=> Out(next)
        /\ Back(next, TRUE)' <=> Back(next, TRUE)
    BY <2>1 DEF Same, Out, Ahead
  <2>3. cb[t] = "returned" /\ staged[t] = stmt[t] /\ ~Out(begin) /\ ~Out(next)
    BY <1>5, <1>6 DEF TxFate, begin, next, commit
  <2>4. t \in open' => t \in open
    BY <1>1
  <2>5. ~Back(next, TRUE)'
    BY <2>2, <2>3 DEF Out
  <2> QED
    BY <1>1, <1>5, <1>6, <1>7, <2>2, <2>3, <2>4, <2>5 DEF TxFate, begin, next, commit
<1> QED
  BY <1>2, <1>5, <1>8, <1>9, OneTouched

LEMMA FateWorking == TypeOK /\ Fate /\ Working => Fate'
<1> SUFFICES ASSUME TypeOK, Fate, Working PROVE Fate'
  OBVIOUS
<1>1. ASSUME NEW o \in Reads, FinishRead(o) PROVE Fate'
  BY <1>1, FateFinish DEF FinishRead
<1>2. ASSUME NEW o \in Writes \cup Raws, FinishWrite(o) PROVE Fate'
  BY <1>2, FateFinish DEF FinishWrite
<1> QED
  BY <1>1, <1>2, FateDispatch, FateFinishStmt, FateFinishCommit DEF Working

-----------------------------------------------------------------------------
(* The theorem.                                                              *)

LEMMA FateInitially == Init => Fate
<1> SUFFICES ASSUME Init PROVE Fate
  OBVIOUS
<1>0. Txs \subseteq Ops
  BY KindsOf
<1>1. pending = <<>> /\ inbox = <<>> /\ replies = <<>> /\ busy = {} /\ applied = <<>>
  BY DEF Init
<1>2. \A r : /\ ~Pend(r) /\ ~InBox(r) /\ r \notin busy /\ ~Back(r, TRUE) /\ ~Back(r, FALSE)
             /\ One({r}, pending) /\ One({r}, inbox) /\ One(Both(r), replies)
  BY <1>1 DEF Pend, InBox, Back, In, One
<1>3. \A r : Single(r) /\ ~Out(r) /\ ~Ahead(r)
  BY <1>2 DEF Single, Out, Ahead
<1>4. \A o : ~InDatabase(o)
  BY <1>1 DEF InDatabase
<1>5. \A o \in Ops : OpFate(o)
  BY <1>2, <1>3, <1>4 DEF OpFate
<1>6. \A t \in Txs : TxFate(t)
  BY <1>0, <1>2, <1>3, <1>4 DEF TxFate, Init
<1> QED
  BY <1>3, <1>5, <1>6 DEF Fate

LEMMA FateStuttering == Fate /\ UNCHANGED vars => Fate'
<1> SUFFICES ASSUME Fate, UNCHANGED vars PROVE Fate'
  OBVIOUS
<1>1. UNCHANGED <<pending, inbox, busy, replies, op, cb, stmt, staged, open, applied, fatal>>
  BY DEF vars, store, worker
<1>2. (\A r \in Tracked : Single(r)') /\ \A r : Same(r)
  BY <1>1, StillStep
<1>3. \A o \in Ops : Untouched(o)
  BY <1>1, <1>2 DEF Untouched, InDatabase
<1> QED
  BY <1>1, <1>2, <1>3, AllUntouched

\* What is in the database belongs there: no write whose caller was told it failed, and
\* of a transaction all of the statements its callback ran, or nothing.
THEOREM NothingHalfApplied == Spec => []AppliedWhole
<1>1. Init => Inv /\ Fate
  BY Initially, FateInitially
<1>2. Inv /\ Fate /\ [Next]_vars => (Inv /\ Fate)'
  <2>1. ASSUME Inv, Fate, [Next]_vars PROVE Fate'
    <3>1. TypeOK
      BY <2>1 DEF Inv
    <3> QED
      BY <2>1, <3>1, FateStoring, FateReplying, FateEnding, FateWorking, FateStuttering DEF Next
  <2> QED
    BY <2>1, Inductive
<1>3. Inv /\ Fate => AppliedWhole
  <2>1. ASSUME Fate PROVE AppliedWhole
    <3>1. Writing \subseteq Ops
      BY DEF Writing, Ops, Chained
    <3> QED
      BY <2>1, <3>1 DEF AppliedWhole, ErrorIsNotApplied, TxWhole, Fate, OpFate, TxFate
  <2> QED
    BY <2>1
<1> QED
  BY <1>1, <1>2, <1>3, PTL DEF Spec

-----------------------------------------------------------------------------
(* The chain in order.  An operation starts once those before it have settled, and
   what one of them may still have on the worker by then is a transaction that failed
   and whose abort is in the inbox: what is posted later comes behind it.      *)

Reqs(o) == {Ask(o, k) : k \in Kinds(o)}
Abort(t) == Ask(t, "abort")

\* An x in s is ahead of all of Y.
Before(x, Y, s) == \E i \in DOMAIN s : s[i] = x /\ \A j \in DOMAIN s : s[j] \in Y => i < j

\* The queue holds each operation once, and all before one that has started are settled.
QueueOrder ==
  /\ \A o \in Chained : In(o, queue) <=> op[o] # "idle"
  /\ \A i, j \in DOMAIN queue : queue[i] = queue[j] => i = j
  /\ \A i, j \in DOMAIN queue : i < j /\ op[queue[j]] # "queued" => Settled(queue[i])

\* What the worker is sent, and a worker that is gone has nothing.
Proper(r) == r \in Tracked \cup {Abort(t) : t \in Txs} \cup {CloseAsk}
Inboxed == (\A r : InBox(r) => Proper(r)) /\ busy \subseteq Tracked
DeadIsEmpty == (fatal => ~alive) /\ (~alive => inbox = <<>> /\ busy = {} /\ open = {})

\* Of an operation that is done or failed nothing is under way to the worker.
Spent(o) ==
  op[o] \in {"done", "error"} => \A k \in Kinds(o) : ~Ahead(Ask(o, k)) /\ ~Pend(Ask(o, k))

\* A transaction that the worker keeps has started and not committed; once it has failed
\* its abort is in the inbox.
Kept(t) ==
  t \in open => /\ op[t] \notin {"idle", "queued", "done"} /\ ~Back(Ask(t, "commit"), TRUE)
                /\ op[t] = "error" => closed \/ InBox(Abort(t))

\* While it keeps one that failed, an operation after it is still behind that abort.
Clear(o, t) ==
  o # t /\ op[t] = "error" /\ t \in open =>
    /\ op[o] = "running" => ~Inside(o) /\ Before(Abort(t), Reqs(o), inbox)
    /\ op[o] = "error" => o \notin open

Stages == /\ \A o \in Chained : Spent(o)
          /\ \A t \in Txs : Kept(t)
          /\ \A o \in Chained, t \in Txs : Clear(o, t)

Line == QueueOrder /\ Inboxed /\ DeadIsEmpty /\ Stages

LEMMA ConcatBefore ==
  ASSUME NEW T, NEW s \in Seq(T), NEW u \in Seq(T), NEW x, NEW Y, Before(x, Y, s)
  PROVE  Before(x, Y, s \o u)
<1>1. PICK i \in DOMAIN s : s[i] = x /\ \A j \in DOMAIN s : s[j] \in Y => i < j
  BY DEF Before
<1>2. /\ DOMAIN (s \o u) = 1..(Len(s) + Len(u)) /\ DOMAIN s = 1..Len(s)
      /\ Len(s) \in Nat /\ Len(u) \in Nat /\ \A j \in 1..Len(s) : (s \o u)[j] = s[j]
  OBVIOUS
<1>3. i \in DOMAIN (s \o u) /\ (s \o u)[i] = x
  BY <1>1, <1>2
<1>4. ASSUME NEW j \in DOMAIN (s \o u), (s \o u)[j] \in Y PROVE i < j
  BY <1>1, <1>2, <1>4
<1> QED
  BY <1>3, <1>4 DEF Before

LEMMA TailBefore ==
  ASSUME NEW T, NEW s \in Seq(T), s # <<>>, NEW x, NEW Y, Before(x, Y, s), Head(s) # x
  PROVE  Head(s) \notin Y /\ Before(x, Y, Tail(s))
<1>1. PICK i \in DOMAIN s : s[i] = x /\ \A j \in DOMAIN s : s[j] \in Y => i < j
  BY DEF Before
<1>2. /\ DOMAIN s = 1..Len(s) /\ Len(s) \in Nat /\ Len(s) # 0 /\ Head(s) = s[1]
      /\ DOMAIN Tail(s) = 1..(Len(s) - 1) /\ \A j \in 1..(Len(s) - 1) : Tail(s)[j] = s[j + 1]
  OBVIOUS
<1>3. 1 \in DOMAIN s /\ i # 1 /\ i \in 1..Len(s)
  BY <1>1, <1>2
<1>4. Head(s) \notin Y
  BY <1>1, <1>2, <1>3
<1>5. i - 1 \in DOMAIN Tail(s) /\ Tail(s)[i - 1] = x
  BY <1>1, <1>2, <1>3
<1>6. ASSUME NEW j \in DOMAIN Tail(s), Tail(s)[j] \in Y PROVE i - 1 < j
  <2>1. j + 1 \in DOMAIN s /\ s[j + 1] \in Y /\ j \in Nat
    BY <1>2, <1>6
  <2>2. i < j + 1
    BY <1>1, <2>1
  <2> QED
    BY <1>3, <2>1, <2>2
<1> QED
  BY <1>4, <1>5, <1>6 DEF Before

\* One that comes in behind.
LEMMA VacuousBefore ==
  ASSUME NEW x, NEW Y, NEW s, In(x, s), \A y \in Y : ~In(y, s)
  PROVE  Before(x, Y, s)
BY DEF In, Before

-----------------------------------------------------------------------------
(* The queue.                                                                *)

LEMMA ChainedTypes ==
  /\ Chained \subseteq Ops /\ Writes \subseteq Chained /\ Txs \subseteq Chained
  /\ \A o \in Chained : o \notin Reads /\ o \notin Raws
BY DEF Ops, Chained

\* The outcomes of operations that run come in, and nothing else.
Calm == \A o \in Chained : op'[o] = op[o] \/ (op[o] = "running" /\ op'[o] \in Outcomes)

LEMMA QueueCalm ==
  ASSUME QueueOrder, TypeOK, Calm, queue' = queue
  PROVE  QueueOrder'
<1>1. \A i \in DOMAIN queue : queue[i] \in Chained
  BY DEF TypeOK
<1>2. \A o \in Chained : /\ op'[o] = "idle" <=> op[o] = "idle"
                         /\ op'[o] = "queued" <=> op[o] = "queued"
                         /\ Settled(o) => Settled(o)'
  BY DEF Calm, Outcomes, Settled
<1>3. \A o \in Chained : In(o, queue') <=> op'[o] # "idle"
  BY <1>2 DEF QueueOrder
<1>4. \A i, j \in DOMAIN queue : i < j /\ op'[queue[j]] # "queued" => Settled(queue[i])'
  <2>1. TAKE i, j \in DOMAIN queue
  <2>2. HAVE i < j /\ op'[queue[j]] # "queued"
  <2>3. op[queue[j]] # "queued"
    BY <1>1, <1>2, <2>2
  <2>4. Settled(queue[i])
    BY <2>2, <2>3 DEF QueueOrder
  <2> QED
    BY <1>1, <1>2, <2>4
<1> QED
  BY <1>3, <1>4 DEF QueueOrder, Settled

LEMMA QueueStart ==
  ASSUME QueueOrder, TypeOK, NEW o \in Chained, Turn(o), Begun(o), queue' = queue
  PROVE  QueueOrder' /\ \A p \in Chained : op[p] # "running"
<1>1. \A i \in DOMAIN queue : queue[i] \in Chained
  BY DEF TypeOK
<1>2. op[o] = "queued" /\ \A i, j \in DOMAIN queue : j < i /\ queue[i] = o => Settled(queue[j])
  BY DEF Turn
<1>3. op'[o] \in {"running", "error"} /\ \A p \in Ops \ {o} : op'[p] = op[p]
  BY ChainedTypes DEF Begun, TypeOK
<1>4. \A p \in Chained : Settled(p) => Settled(p)' /\ p # o
  BY <1>2, <1>3, ChainedTypes DEF Settled, Outcomes
<1>5. \A p \in Chained : In(p, queue') <=> op'[p] # "idle"
  BY <1>2, <1>3, ChainedTypes DEF QueueOrder
<1>6. \A i, j \in DOMAIN queue : i < j /\ op'[queue[j]] # "queued" => Settled(queue[i])'
  <2>1. TAKE i, j \in DOMAIN queue
  <2>2. HAVE i < j /\ op'[queue[j]] # "queued"
  <2>3. CASE queue[j] = o
    BY <1>1, <1>2, <1>4, <2>2, <2>3
  <2>4. CASE queue[j] # o
    <3>1. op[queue[j]] # "queued"
      BY <1>1, <1>3, <2>2, <2>4, ChainedTypes
    <3>2. Settled(queue[i])
      BY <2>2, <3>1 DEF QueueOrder
    <3> QED
      BY <1>1, <1>4, <3>2
  <2> QED
    BY <2>3, <2>4
<1>7. QueueOrder'
  BY <1>5, <1>6 DEF QueueOrder, Settled
<1>8. ASSUME NEW p \in Chained, op[p] = "running" PROVE FALSE
  <2>1. PICK i \in DOMAIN queue : queue[i] = p
    BY <1>8 DEF QueueOrder, In
  <2>2. PICK j \in DOMAIN queue : queue[j] = o
    BY <1>2 DEF QueueOrder, In
  <2>3. i \in Int /\ j \in Int /\ i # j
    BY <1>2, <1>8, <2>1, <2>2 DEF TypeOK
  <2>4. CASE i < j
    BY <1>2, <1>8, <2>1, <2>2, <2>4 DEF Settled, Outcomes
  <2>5. CASE j < i
    BY <1>2, <1>8, <2>1, <2>2, <2>5 DEF QueueOrder, Settled, Outcomes
  <2> QED
    BY <2>3, <2>4, <2>5
<1> QED
  BY <1>7, <1>8

\* One operation of the chain runs at a time.
LEMMA OneRuns ==
  ASSUME QueueOrder, TypeOK, NEW o \in Chained, NEW p \in Chained,
         op[o] = "running", op[p] = "running"
  PROVE  o = p
<1> SUFFICES ASSUME o # p PROVE FALSE
  OBVIOUS
<1>1. PICK i \in DOMAIN queue : queue[i] = o
  BY DEF QueueOrder, In
<1>2. PICK j \in DOMAIN queue : queue[j] = p
  BY DEF QueueOrder, In
<1>3. i \in Int /\ j \in Int /\ i # j
  BY <1>1, <1>2 DEF TypeOK
<1> QED
  BY <1>1, <1>2, <1>3 DEF QueueOrder, Settled, Outcomes

LEMMA QueueQueue ==
  ASSUME QueueOrder, TypeOK, NEW o \in Chained, Queue(o)
  PROVE  QueueOrder'
<1>1. op[o] = "idle" /\ queue' = Append(queue, o) /\ op' = [op EXCEPT ![o] = "queued"]
  BY DEF Queue, Issued
<1>2. /\ op'[o] = "queued" /\ \A p \in Ops \ {o} : op'[p] = op[p]
      /\ \A p : Settled(p) => p # o
  BY <1>1, ChainedTypes DEF TypeOK, Settled, Outcomes
<1>3. /\ DOMAIN queue = 1..Len(queue) /\ Len(queue) \in Nat
      /\ DOMAIN queue' = 1..(Len(queue) + 1) /\ queue'[Len(queue) + 1] = o
      /\ \A i \in 1..Len(queue) : queue'[i] = queue[i] /\ queue[i] \in Chained /\ queue[i] # o
  <2>1. \A i \in DOMAIN queue : queue[i] # o
    BY <1>1 DEF QueueOrder, In
  <2> QED
    BY <1>1, <2>1 DEF TypeOK
<1>4. \A p \in Chained : In(p, queue') <=> In(p, queue) \/ p = o
  BY <1>3 DEF In
<1>5. \A p \in Chained : In(p, queue') <=> op'[p] # "idle"
  BY <1>2, <1>4, ChainedTypes DEF QueueOrder
<1>6. \A i, j \in DOMAIN queue' : queue'[i] = queue'[j] => i = j
  BY <1>3 DEF QueueOrder
<1>7. \A i, j \in DOMAIN queue' : i < j /\ op'[queue'[j]] # "queued" => op'[queue'[i]] \in Outcomes
  <2>1. TAKE i, j \in DOMAIN queue'
  <2>2. HAVE i < j /\ op'[queue'[j]] # "queued"
  <2>3. j # Len(queue) + 1
    BY <1>2, <1>3, <2>2
  <2>4. i \in DOMAIN queue /\ j \in DOMAIN queue /\ queue'[i] = queue[i] /\ queue'[j] = queue[j]
    BY <1>3, <2>2, <2>3
  <2>5. op[queue[j]] # "queued"
    BY <1>2, <1>3, <2>2, <2>4, ChainedTypes
  <2>6. Settled(queue[i])
    BY <2>2, <2>4, <2>5 DEF QueueOrder
  <2> QED
    BY <1>2, <1>3, <2>4, <2>6, ChainedTypes DEF Settled
<1> QED
  BY <1>5, <1>6, <1>7 DEF QueueOrder, Settled

-----------------------------------------------------------------------------
(* What a step that posts, or takes an answer, does to the order.            *)

\* An operation that only loses what was on its way.
Quiet(o) ==
  /\ op'[o] = op[o]
  /\ \A k \in Kinds(o) : /\ Ahead(Ask(o, k))' => Ahead(Ask(o, k))
                         /\ Pend(Ask(o, k))' => Pend(Ask(o, k))
                         /\ Back(Ask(o, k), TRUE)' => Back(Ask(o, k), TRUE)

LEMMA UntouchedIsQuiet == \A o : Untouched(o) => Quiet(o)
BY DEF Untouched, Quiet, Same, Ahead

\* The one that goes on.
Advances(a) ==
  /\ Spent(a)'
  /\ \/ op'[a] = op[a]
     \/ op[a] = "idle" /\ op'[a] = "queued"
     \/ op[a] = "queued" /\ op'[a] = "error"
     \/ op[a] = "queued" /\ op'[a] = "running" /\ ~closed' /\ \A p \in Chained : op[p] # "running"
     \/ op[a] = "running" /\ op'[a] = "timeout"
     \/ op[a] = "running" /\ op'[a] = "done" /\ a \notin open
     \/ op[a] = "running" /\ op'[a] = "error" /\ (a \in open => closed' \/ InBox(Abort(a))')

\* Of an operation that has not started the worker has nothing.
LEMMA NothingInside ==
  ASSUME TypeOK, Fate, Inboxed, NEW o \in Chained, op[o] \in {"idle", "queued"},
         \A t \in Txs : Kept(t)
  PROVE  ~Inside(o) /\ \A r \in Reqs(o) : ~In(r, inbox)
<1>1. OpFate(o) /\ \A k \in Kinds(o) : ~Ahead(Ask(o, k))
  BY ChainedTypes DEF Fate, OpFate, Out
<1>2. o \notin open
  BY DEF TypeOK, Kept
<1>3. ASSUME NEW r \in busy, r.op = o PROVE FALSE
  <2>1. r \in Tracked
    BY DEF Inboxed
  <2>a. PICK p \in Ops : \E k \in Kinds(p) : r = Ask(p, k)
    BY <2>1 DEF Tracked
  <2>2. PICK k \in Kinds(p) : r = Ask(p, k)
    BY <2>a
  <2>3. p = o
    BY <1>3, <2>2 DEF Ask
  <2> QED
    BY <1>1, <2>2, <2>3 DEF Ahead
<1>4. \A r \in Reqs(o) : ~In(r, inbox)
  BY <1>1 DEF Reqs, Ahead, InBox
<1> QED
  BY <1>2, <1>3, <1>4 DEF Inside

LEMMA StagesPosted ==
  ASSUME TypeOK, Fate, Line, UNCHANGED <<busy, open, alive, fatal>>, closed => closed',
         NEW u \in Seq(Request), inbox' = inbox \o u, \A r : In(r, u) => Proper(r),
         ~alive => u = <<>>,
         NEW a, \A o \in Ops \ {a} : Quiet(o), a \in Chained => Advances(a),
         a \in Txs => (Back(Ask(a, "commit"), TRUE)' => Back(Ask(a, "commit"), TRUE))
  PROVE  Inboxed' /\ DeadIsEmpty' /\ Stages'
<1>1. inbox \in Seq(Request) /\ open \subseteq Txs /\ Txs \subseteq Chained /\ Chained \subseteq Ops
  BY ChainedTypes DEF TypeOK
<1>2. \A r : InBox(r)' <=> InBox(r) \/ In(r, u)
  BY <1>1, ConcatCopies DEF InBox
<1>3. Tracked' = Tracked /\ \A t : Abort(t)' = Abort(t)
  BY DEF Tracked, Kinds, Abort
<1>4. Inboxed'
  BY <1>2, <1>3 DEF Line, Inboxed, Proper
<1>5. DeadIsEmpty'
  BY <1>1 DEF Line, DeadIsEmpty
<1>6. ASSUME NEW o \in Chained PROVE Spent(o)'
  <2>1. CASE o = a
    BY <2>1 DEF Advances
  <2>2. CASE o # a
    BY <1>1, <2>2 DEF Quiet, Line, Stages, Spent
  <2> QED
    BY <2>1, <2>2
<1>7. ASSUME NEW t \in Txs PROVE Kept(t)'
  <2>1. Kept(t) /\ "commit" \in Kinds(t)
    BY KindsOf DEF Line, Stages
  <2>2. CASE t = a
    BY <1>1, <1>2, <2>1, <2>2 DEF Kept, Advances, Abort
  <2>3. CASE t # a
    BY <1>1, <1>2, <2>1, <2>3 DEF Kept, Quiet, Abort
  <2> QED
    BY <2>2, <2>3
<1>8. ASSUME NEW o \in Chained, NEW t \in Txs PROVE Clear(o, t)'
  <2>1. SUFFICES ASSUME o # t, op'[t] = "error", t \in open
                 PROVE  /\ op'[o] = "running" => ~Inside(o)' /\ Before(Abort(t), Reqs(o), inbox')
                        /\ op'[o] = "error" => o \notin open
    BY DEF Clear, Abort, Reqs, Kinds
  <2>2. Kept(t) /\ Clear(o, t) /\ Clear(t, o) /\ (o \in Txs => Kept(o))
    <3>1. o \notin Txs => Clear(t, o)
      BY <1>1 DEF Clear
    <3> QED
      BY <1>1, <3>1 DEF Line, Stages
  <2>3. Inside(o)' <=> Inside(o)
    BY DEF Inside
  <2>4. /\ op'[t] = op[t] \/ (t = a /\ Advances(t))
        /\ op'[o] = op[o] \/ (o = a /\ Advances(o))
    BY <1>1 DEF Quiet
  <2>5. op[t] \in {"error", "running"}
    BY <2>1, <2>2, <2>4 DEF Kept, Advances
  <2>6. CASE op[t] = "error"
    <3>1. CASE op[o] = "running"
      <4>1. ~Inside(o) /\ Before(Abort(t), Reqs(o), inbox)
        BY <2>1, <2>2, <2>6, <3>1 DEF Clear
      <4>2. Before(Abort(t), Reqs(o), inbox')
        BY <1>1, <4>1, ConcatBefore
      <4> QED
        BY <2>3, <4>1, <4>2 DEF Inside
    <3>2. CASE op[o] \in {"idle", "queued"}
      <4>1. ~Inside(o) /\ \A r \in Reqs(o) : ~In(r, inbox)
        BY <3>2, NothingInside DEF Line, Stages
      <4>2. ASSUME op'[o] = "running" PROVE Before(Abort(t), Reqs(o), inbox')
        <5>1. ~closed
          BY <2>4, <3>2, <4>2 DEF Advances
        <5>2. In(Abort(t), inbox)
          BY <2>1, <2>2, <2>6, <5>1 DEF Kept, InBox
        <5>3. Before(Abort(t), Reqs(o), inbox)
          BY <4>1, <5>2, VacuousBefore
        <5> QED
          BY <1>1, <5>3, ConcatBefore
      <4> QED
        BY <2>3, <4>1, <4>2 DEF Inside
    <3>3. CASE op[o] \notin {"idle", "queued", "running"}
      BY <2>1, <2>2, <2>4, <2>6, <3>3 DEF Advances, Clear
    <3> QED
      BY <3>1, <3>2, <3>3
  <2>7. CASE op[t] = "running"
    <3>1. op'[o] = op[o] /\ op[o] # "running"
      <4>1. t = a
        BY <2>1, <2>4, <2>7
      <4> QED
        BY <1>1, <2>1, <2>4, <2>7, <4>1, OneRuns DEF Line
    <3>2. op[o] = "error" => o \notin open
      BY <2>1, <2>2, <2>7 DEF Clear, Inside
    <3> QED
      BY <3>1, <3>2
  <2> QED
    BY <2>5, <2>6, <2>7
<1> QED
  BY <1>4, <1>5, <1>6, <1>7, <1>8 DEF Stages

\* The worker is gone.
LEMMA StagesDead ==
  ASSUME TypeOK, Line, ~alive', inbox' = <<>>, busy' = {}, open' = {},
         \A o \in Chained : op'[o] \in {"done", "error"} => \A k \in Kinds(o) : ~Pend(Ask(o, k))'
  PROVE  Inboxed' /\ DeadIsEmpty' /\ Stages'
<1>1. \A r : ~InBox(r)' /\ ~Ahead(r)'
  BY DEF InBox, Ahead, In
<1>2. Inboxed' /\ DeadIsEmpty'
  BY <1>1 DEF Inboxed, DeadIsEmpty
<1>3. \A o \in Chained : Spent(o)'
  BY <1>1 DEF Spent
<1>4. (\A t \in Txs : Kept(t)') /\ \A o \in Chained, t \in Txs : Clear(o, t)'
  BY DEF Kept, Clear
<1> QED
  BY <1>2, <1>3, <1>4 DEF Stages

\* What a post makes of the inbox.
LEMMA InboxGrows ==
  ASSUME TypeOK, NEW rs \in Seq(Request), NEW pend, NEW deg, NEW prb, Post(rs, pend, deg, prb)
  PROVE  \E u \in {<<>>, rs} : /\ inbox' = inbox \o u /\ (~alive => u = <<>>)
                               /\ alive /\ Admits(deg, prb) => u = rs
<1>1. inbox \in Seq(Request) /\ inbox \o <<>> = inbox
  BY DEF TypeOK
<1>2. CASE alive /\ Admits(deg, prb)
  <2>1. inbox' = inbox \o rs
    BY <1>2 DEF Post, Send
  <2> QED
    BY <1>2, <2>1
<1>3. CASE ~(alive /\ Admits(deg, prb))
  <2>1. inbox' = inbox
    BY <1>1, <1>3 DEF Post, Send
  <2> QED
    BY <1>1, <1>3, <2>1
<1> QED
  BY <1>2, <1>3

\* A step that posts, in whatever the client's records have become.
LEMMA LinePosts ==
  ASSUME TypeOK, Fate, Line, NEW rs \in Seq(Request), NEW pend, NEW deg, NEW prb,
         Post(rs, pend, deg, prb), \A r : In(r, rs) => Proper(r),
         UNCHANGED <<busy, open, alive, fatal>>, closed => closed', QueueOrder',
         NEW a, \A o \in Ops \ {a} : Quiet(o), a \in Chained => Advances(a),
         a \in Txs => (Back(Ask(a, "commit"), TRUE)' => Back(Ask(a, "commit"), TRUE))
  PROVE  Line'
<1>1. PICK u \in {<<>>, rs} : inbox' = inbox \o u /\ (~alive => u = <<>>)
  BY InboxGrows
<1>2. u \in Seq(Request) /\ \A r : In(r, u) => Proper(r)
  <2>1. <<>> \in Seq(Request) /\ \A r : ~In(r, <<>>)
    BY DEF In
  <2>2. CASE u = <<>>
    BY <2>1, <2>2
  <2>3. CASE u = rs
    BY <2>3
  <2> QED
    BY <2>2, <2>3
<1>3. Inboxed' /\ DeadIsEmpty' /\ Stages'
  BY <1>1, <1>2, StagesPosted
<1> QED
  BY <1>3 DEF Line

\* One that does not.
LEMMA LineStill ==
  ASSUME TypeOK, Fate, Line, UNCHANGED <<pending, inbox, fatal, closed, worker>>, QueueOrder',
         NEW a, \A o \in Ops \ {a} : op'[o] = op[o], a \in Chained => Advances(a)
  PROVE  Line'
<1>1. UNCHANGED <<busy, replies, open, alive>> /\ inbox' = inbox \o <<>>
  BY DEF worker, TypeOK
<1>2. \A r : Same(r)
  BY <1>1, StillStep
<1>3. \A o \in Ops \ {a} : Quiet(o)
  BY <1>2 DEF Quiet, Same, Ahead
<1>4. <<>> \in Seq(Request) /\ \A r : ~In(r, <<>>)
  BY DEF In
<1>5. Inboxed' /\ DeadIsEmpty' /\ Stages'
  BY <1>1, <1>2, <1>3, <1>4, StagesPosted DEF Same
<1> QED
  BY <1>5 DEF Line

-----------------------------------------------------------------------------
(* What the steps of the store do to the order.                              *)

\* A write or a transaction starts, or is refused.
LEMMA LineStart ==
  ASSUME TypeOK, Fate, Line, NEW o \in Chained, NEW k \in Kinds(o), Turn(o), Begun(o),
         Post(<<Ask(o, k)>>, pending, degraded, probe),
         UNCHANGED <<queue, stmt, fatal, closed, worker>>, \A t \in Txs \ {o} : cb'[t] = cb[t]
  PROVE  Line'
<1> DEFINE r == Ask(o, k)
<1>1. o \in Ops /\ r \in Request /\ r \in Tracked /\ r.op = o /\ op[o] = "queued"
  BY ChainedTypes, TrackedRequests DEF Ask, Turn
<1>2. QueueOrder' /\ \A p \in Chained : op[p] # "running"
  BY QueueStart DEF Line
<1>3. \A j \in Kinds(o) : ~Out(Ask(o, j)) /\ ~Pend(Ask(o, j)) /\ Ask(o, j) \in Tracked
  BY <1>1, TrackedRequests DEF Fate, OpFate
<1>4. \A x : One({x}, <<r>>) /\ (In(x, <<r>>) <=> x = r)
  <2> HIDE DEF r
  <2> QED
    BY FewCopies
<1>5. /\ \A x \in Tracked : ~Admits(degraded, probe) => Same(x)
      /\ \A p \in Ops \ {o} : Untouched(p)
  <2>1. \A p \in Ops \ {o} : op'[p] = op[p]
    BY DEF Begun, TypeOK
  <2>2. <<r>> \in Seq(Request) /\ ~Out(r) /\ ~Pend(r)
    BY <1>1, <1>3
  <2>3. \A x \in Tracked : One({x}, <<r>>) /\ (In(x, <<r>>) => x.op = o /\ ~Out(x) /\ ~Pend(x))
    BY <1>1, <1>4, <2>2
  <2> HIDE DEF r
  <2> QED
    BY <1>1, <2>1, <2>2, <2>3, PostStep DEF r
<1>6. \A p \in Ops \ {o} : Quiet(p)
  BY <1>5, UntouchedIsQuiet
<1>7. Advances(o)
  <2>1. CASE Admits(degraded, probe)
    <3>1. op'[o] = "running" /\ ~closed'
      BY <1>1, <2>1 DEF Begun, Admits, TypeOK
    <3> QED
      BY <1>1, <1>2, <3>1 DEF Advances, Spent
  <2>2. CASE ~Admits(degraded, probe)
    <3>1. op'[o] = "error"
      BY <1>1, <2>2 DEF Begun, TypeOK
    <3>2. \A j \in Kinds(o) : ~Ahead(Ask(o, j))' /\ ~Pend(Ask(o, j))'
      BY <1>3, <1>5, <2>2 DEF Same, Out, Ahead
    <3>3. Kinds(o)' = Kinds(o) /\ \A j : Ask(o, j)' = Ask(o, j)
      BY DEF Kinds
    <3> QED
      BY <1>1, <3>1, <3>2, <3>3 DEF Advances, Spent
  <2> QED
    BY <2>1, <2>2
<1>8. \A x : In(x, <<r>>) => Proper(x)
  BY <1>1, <1>4 DEF Proper
<1>9. <<r>> \in Seq(Request) /\ UNCHANGED <<busy, replies, open, alive>>
  BY <1>1 DEF worker
<1>10. Back(Ask(o, "commit"), TRUE)' => Back(Ask(o, "commit"), TRUE)
  BY <1>9 DEF Back
<1> QED
  BY <1>2, <1>6, <1>7, <1>8, <1>9, <1>10, LinePosts

\* A query, or a direct run: not of the chain.
LEMMA LineRun ==
  ASSUME TypeOK, Fate, Line, NEW o \in Reads \cup Raws, Run(o)
  PROVE  Line'
<1> DEFINE r == Ask(o, "run")
<1>1. o \in Ops /\ o \notin Chained /\ o \notin Txs /\ r \in Request /\ r \in Tracked /\ r.op = o
  BY ChainedTypes, KindsOf, FollowedAre, AskType DEF Ask
<1>2. op[o] = "idle" /\ "run" \in Kinds(o)
  BY KindsOf DEF Run, Issued
<1>3. ~Out(r) /\ ~Pend(r)
  BY <1>1, <1>2 DEF Fate, OpFate
<1>4. \A x : One({x}, <<r>>) /\ (In(x, <<r>>) <=> x = r)
  <2> HIDE DEF r
  <2> QED
    BY FewCopies
<1>5. \A p \in Ops \ {o} : op'[p] = op[p]
  BY DEF Run, Begun, TypeOK
<1>6. UNCHANGED <<queue, stmt, cb, fatal, closed, worker>> /\ Post(<<r>>, pending, degraded, probe)
  BY DEF Run
<1>7. \A x \in Tracked : One({x}, <<r>>) /\ (In(x, <<r>>) => x.op = o /\ ~Out(x) /\ ~Pend(x))
  BY <1>1, <1>3, <1>4
<1>8. <<r>> \in Seq(Request) /\ \A x : In(x, <<r>>) => Proper(x)
  <2>1. \A x : In(x, <<r>>) => Proper(x)
    BY <1>1, <1>4 DEF Proper
  <2>2. <<r>> \in Seq(Request)
    BY <1>1, Few
  <2> QED
    BY <2>1, <2>2
<1> HIDE DEF r
<1>9. \A p \in Ops \ {o} : Quiet(p)
  BY <1>1, <1>5, <1>6, <1>7, <1>8, PostStep, UntouchedIsQuiet
<1>10. QueueOrder'
  BY <1>1, <1>5, <1>6, QueueCalm, ChainedTypes DEF Line, Calm
<1>11. UNCHANGED <<busy, open, alive>>
  BY <1>6 DEF worker
<1> QED
  BY <1>1, <1>6, <1>8, <1>9, <1>10, <1>11, LinePosts

LEMMA LineTimeoutTx ==
  ASSUME TypeOK, Fate, Line, NEW t \in Txs, TimeoutTx(t)
  PROVE  Line'
<1> DEFINE abort == Ask(t, "abort")
           rs == IF cb[t] = "begin" THEN <<>> ELSE <<abort>>
<1>1. t \in Ops /\ abort \in Request
  BY KindsOf, AskType DEF TxKinds
<1>2. /\ \A x : ~In(x, <<>>) /\ One({x}, <<>>)
      /\ \A x : One({x}, <<abort>>) /\ (In(x, <<abort>>) <=> x = abort)
  <2> HIDE DEF abort
  <2> QED
    BY FewCopies
<1>3. (rs = <<>> \/ rs = <<abort>>) /\ Post(rs, pending, degraded, probe)
  BY DEF TimeoutTx
<1>4. /\ UNCHANGED <<queue, stmt, cb, fatal, closed, worker>>
      /\ op[t] = "running" /\ op'[t] = "timeout" /\ \A p \in Ops \ {t} : op'[p] = op[p]
  BY <1>1 DEF TimeoutTx, TypeOK
<1>5. \A x \in Tracked : x # abort
  BY FollowedAre
<1>6. Proper(abort)
  BY DEF Proper, Abort
<1> HIDE DEF abort, rs
<1>7. \A x \in Tracked : One({x}, rs) /\ ~In(x, rs)
  <2>1. CASE rs = <<>>
    BY <1>2, <2>1
  <2>2. CASE rs = <<abort>>
    BY <1>2, <1>5, <2>2
  <2> QED
    BY <1>3, <2>1, <2>2
<1>8. rs \in Seq(Request) /\ \A x : In(x, rs) => Proper(x)
  <2>0. <<>> \in Seq(Request) /\ <<abort>> \in Seq(Request)
    BY <1>1, Few
  <2>1. CASE rs = <<>>
    BY <1>2, <2>0, <2>1
  <2>2. CASE rs = <<abort>>
    BY <1>2, <1>6, <2>0, <2>2
  <2> QED
    BY <1>3, <2>1, <2>2
<1>9. \A p \in Ops \ {t} : Quiet(p)
  BY <1>1, <1>3, <1>4, <1>7, <1>8, PostStep, UntouchedIsQuiet
<1>10. QueueOrder'
  BY <1>4, QueueCalm, ChainedTypes DEF Line, Calm, Outcomes
<1>11. UNCHANGED <<busy, replies, open, alive>>
  BY <1>4 DEF worker
<1>12. Advances(t)
  BY <1>4 DEF Advances, Spent
<1>13. Back(Ask(t, "commit"), TRUE)' => Back(Ask(t, "commit"), TRUE)
  BY <1>11 DEF Back
<1> QED
  BY <1>3, <1>4, <1>8, <1>9, <1>10, <1>11, <1>12, <1>13, LinePosts

LEMMA LineStoring == TypeOK /\ Fate /\ Line /\ Storing => Line'
<1> SUFFICES ASSUME TypeOK, Fate, Line, Storing PROVE Line'
  OBVIOUS
<1>1. ASSUME NEW o \in Chained, Queue(o) PROVE Line'
  <2>1. /\ UNCHANGED <<pending, inbox, fatal, closed, worker>>
        /\ op[o] = "idle" /\ op'[o] = "queued" /\ \A p \in Ops \ {o} : op'[p] = op[p]
    BY <1>1, ChainedTypes DEF Queue, Issued, TypeOK
  <2>2. QueueOrder'
    BY <1>1, QueueQueue DEF Line
  <2>3. Advances(o)
    BY <2>1 DEF Advances, Spent
  <2> QED
    BY <2>1, <2>2, <2>3, LineStill
<1>2. ASSUME NEW w \in Writes, StartWrite(w) PROVE Line'
  <2>1. w \in Chained /\ "run" \in Kinds(w)
    BY KindsOf, ChainedTypes
  <2> QED
    BY <1>2, <2>1, LineStart DEF StartWrite
<1>3. ASSUME NEW t \in Txs, StartTx(t) PROVE Line'
  <2>1. t \in Chained /\ "begin" \in Kinds(t)
    BY KindsOf, ChainedTypes
  <2>2. \A p \in Txs \ {t} : cb'[p] = cb[p]
    BY <1>3 DEF StartTx, TypeOK
  <2> QED
    BY <1>3, <2>1, <2>2, LineStart DEF StartTx
<1>4. ASSUME NEW o \in Writes \cup Reads, TimeoutRun(o) PROVE Line'
  <2>1. /\ UNCHANGED <<queue, pending, inbox, fatal, closed, worker>>
        /\ op[o] = "running" /\ op'[o] = "timeout" /\ \A p \in Ops \ {o} : op'[p] = op[p]
    BY <1>4, KindsOf DEF TimeoutRun, TypeOK
  <2>2. QueueOrder'
    BY <2>1, QueueCalm, ChainedTypes DEF Line, Calm, Outcomes
  <2>3. Advances(o)
    BY <2>1 DEF Advances, Spent
  <2> QED
    BY <2>1, <2>2, <2>3, LineStill
<1> QED
  BY <1>1, <1>2, <1>3, <1>4, LineRun, LineTimeoutTx DEF Storing

-----------------------------------------------------------------------------
(* What replies do to the order.                                             *)

LEMMA LineLateReply ==
  ASSUME TypeOK, Fate, Line, LateReply
  PROVE  Line'
<1>1. /\ UNCHANGED <<op, queue, pending, inbox, busy, open, alive, fatal, closed>>
      /\ replies # <<>> /\ replies' = Tail(replies) /\ replies \in Seq(Reply)
  BY DEF LateReply, TypeOK, store
<1>2. \A x : In(x, Tail(replies)) => In(x, replies)
  <2>1. /\ DOMAIN replies = 1..Len(replies) /\ Len(replies) \in Nat
        /\ DOMAIN Tail(replies) = 1..(Len(replies) - 1)
        /\ \A i \in 1..(Len(replies) - 1) : Tail(replies)[i] = replies[i + 1]
    BY <1>1
  <2>2. ASSUME NEW x, NEW i \in DOMAIN Tail(replies), Tail(replies)[i] = x PROVE In(x, replies)
    <3>1. i + 1 \in DOMAIN replies /\ replies[i + 1] = x
      BY <2>1, <2>2
    <3> QED
      BY <3>1 DEF In
  <2> QED
    BY <2>2 DEF In
<1>3. \A r : /\ InBox(r)' <=> InBox(r)
             /\ Ahead(r)' <=> Ahead(r)
             /\ Pend(r)' <=> Pend(r)
             /\ Back(r, TRUE)' => Back(r, TRUE)
  BY <1>1, <1>2 DEF InBox, Ahead, Pend, Back
<1>4. QueueOrder'
  BY <1>1, QueueCalm DEF Line, Calm
<1>5. inbox' = inbox \o <<>> /\ <<>> \in Seq(Request) /\ \A r : ~In(r, <<>>)
  BY <1>1 DEF TypeOK, In
<1>6. \A o : Quiet(o)
  BY <1>1, <1>3 DEF Quiet
<1>7. Inboxed' /\ DeadIsEmpty' /\ Stages'
  <2>2. PICK a : a \notin Ops
    BY NoSetContainsEverything
  <2>3. a \notin Chained /\ a \notin Txs
    BY <2>2, ChainedTypes
  <2> QED
    BY <1>1, <1>5, <1>6, <2>3, StagesPosted
<1> QED
  BY <1>4, <1>7 DEF Line

\* What the continuation of a's request of kind k posts, and what becomes of a: it goes on,
\* or it settles, with nothing on its way to the worker but its abort.
Posts(a, k, rs) ==
  /\ \A r : In(r, rs) => Proper(r)
  /\ \A r \in Tracked : /\ One({r}, rs)
                        /\ In(r, rs) => r.op = a /\ (r = Ask(a, k) \/ (~Out(r) /\ ~Pend(r)))
  /\ k \in Kinds(a) \/ \A r \in Tracked : ~In(r, rs)
Settles(a, k, rs) ==
  op'[a] # op[a] =>
    /\ op[a] = "running" /\ op'[a] \in {"done", "error"}
    /\ closed \/ \A r \in Tracked : ~In(r, rs)
    /\ \A j \in Kinds(a) : j = k \/ (~Ahead(Ask(a, j)) /\ ~Pend(Ask(a, j)))
    /\ a \in open => op'[a] = "error" /\ (closed \/ In(Abort(a), rs))
Alone(a) ==
  /\ \A o \in Ops \ {a} : op'[o] = op[o]
  /\ \A t \in Txs \ {a} : cb'[t] = cb[t] /\ stmt'[t] = stmt[t]
  /\ queue' = queue

LEMMA LineAnswer ==
  ASSUME TypeOK, Fate, Line, NEW a \in Ops, NEW k, Ask(a, k) \in Request, NEW ok \in BOOLEAN,
         NEW rs \in Seq(Request), Answered(Ask(a, k), ok, rs), Unanswered,
         Posts(a, k, rs), Settles(a, k, rs), Alone(a)
  PROVE  Line'
<1>0. /\ \A r : In(r, rs) => Proper(r)
      /\ \A r \in Tracked : /\ One({r}, rs)
                            /\ In(r, rs) => r.op = a /\ (r = Ask(a, k) \/ (~Out(r) /\ ~Pend(r)))
      /\ \A o \in Ops \ {a} : op'[o] = op[o]
      /\ \A t \in Txs \ {a} : cb'[t] = cb[t] /\ stmt'[t] = stmt[t]
      /\ queue' = queue
  BY DEF Posts, Alone
<1> DEFINE q == Ask(a, k)
<1>1. /\ Pend(q) /\ \A r \in Tracked : Moved(r, q, rs)
      /\ \A o \in Ops \ {a} : Untouched(o)
  <2>1. Pend(Ask(a, k))
    BY <1>0, AnswerStep
  <2>2. \A r \in Tracked : Moved(r, Ask(a, k), rs)
    BY <1>0, AnswerStep
  <2>3. ASSUME NEW o \in Ops \ {a} PROVE Untouched(o)
    <3>1. \A r \in Tracked : Single(r)' /\ (r # Ask(a, k) /\ ~In(r, rs) => Same(r))
      BY <1>0, AnswerStep, SMTT(60)
    <3>2. ASSUME NEW j \in Kinds(o) PROVE Same(Ask(o, j))
      <4>1. Ask(o, j) \in Tracked /\ Ask(o, j).op = o /\ Ask(o, j) # Ask(a, k)
        BY TrackedRequests, AskInjective DEF Ask
      <4>2. ~In(Ask(o, j), rs)
        BY <1>0, <4>1
      <4> QED
        BY <3>1, <4>1, <4>2
    <3> QED
      BY <1>0, <3>2 DEF Untouched, InDatabase, Unanswered
  <2> QED
    BY <2>1, <2>2, <2>3
<1>2. \A j \in Kinds(a) : Ask(a, j) \in Tracked /\ (Ask(a, j) = q => j = k)
  BY TrackedRequests, AskInjective
<1>3. UNCHANGED <<busy, open, alive, fatal, closed>>
  BY DEF Unanswered
<1>4. Post(rs, Forget(q), FALSE, ProbeLeft(q))
  BY DEF Answered
<1>5. PICK u \in {<<>>, rs} : /\ inbox' = inbox \o u /\ (~alive => u = <<>>)
                              /\ alive /\ Admits(FALSE, ProbeLeft(q)) => u = rs
  BY <1>4, InboxGrows
<1>6. u \in Seq(Request) /\ \A r : In(r, u) => Proper(r)
  <2>1. <<>> \in Seq(Request) /\ \A r : ~In(r, <<>>)
    BY DEF In
  <2>2. CASE u = <<>>
    BY <2>1, <2>2
  <2>3. CASE u = rs
    BY <1>0, <2>3
  <2> QED
    BY <2>2, <2>3
<1> HIDE DEF q
<1>7. Txs \subseteq Chained /\ Chained \subseteq Ops
  BY ChainedTypes
<1>8. ASSUME a \in Chained PROVE Spent(a)'
  <2>1. SUFFICES ASSUME op'[a] \in {"done", "error"}, NEW j \in Kinds(a)
                 PROVE  ~Ahead(Ask(a, j))' /\ ~Pend(Ask(a, j))'
    BY DEF Spent, Kinds
  <2>2. Moved(Ask(a, j), q, rs) /\ Ask(a, j) \in Tracked
    BY <1>1, <1>2
  <2>3. CASE op'[a] = op[a]
    <3>1. Spent(a)
      BY <1>8 DEF Line, Stages
    <3>2. ~Ahead(Ask(a, j)) /\ ~Pend(Ask(a, j)) /\ k \notin Kinds(a)
      BY <1>1, <2>1, <2>3, <3>1 DEF Spent, q
    <3>3. ~In(Ask(a, j), rs)
      BY <2>2, <3>2 DEF Posts
    <3> QED
      BY <2>2, <3>2, <3>3 DEF Moved
  <2>4. CASE op'[a] # op[a]
    <3>1. closed \/ ~In(Ask(a, j), rs)
      BY <2>2, <2>4 DEF Settles
    <3>2. CASE j = k
      BY <2>2, <3>1, <3>2 DEF Moved, q
    <3>3. CASE j # k
      BY <2>2, <2>4, <3>1, <3>3 DEF Moved, Settles
    <3> QED
      BY <3>2, <3>3
  <2> QED
    BY <2>3, <2>4
<1>9. ASSUME a \in Chained PROVE Advances(a)
  <2>1. CASE op'[a] = op[a]
    BY <1>8, <1>9, <2>1 DEF Advances
  <2>2. CASE op'[a] # op[a]
    <3>1. ASSUME a \in open, ~closed' PROVE InBox(Abort(a))'
      <4>1. alive /\ ~fatal /\ ~closed
        BY <1>3, <3>1 DEF Line, DeadIsEmpty
      <4>2. u = rs /\ In(Abort(a), rs)
        BY <1>5, <2>2, <3>1, <4>1 DEF Admits, Settles
      <4>3. inbox \in Seq(Request)
        BY DEF TypeOK
      <4>4. In(Abort(a), inbox \o rs)
        BY <4>2, <4>3, InConcat
      <4>5. In(Abort(a), inbox')
        BY <1>5, <4>2, <4>4
      <4> QED
        BY <4>5 DEF InBox, Abort
    <3> QED
      BY <1>8, <1>9, <2>2, <3>1 DEF Advances, Settles
  <2> QED
    BY <2>1, <2>2
<1>10. \A o \in Ops \ {a} : Quiet(o)
  BY <1>1, UntouchedIsQuiet
<1>11. ASSUME a \in Txs PROVE Back(Ask(a, "commit"), TRUE)' => Back(Ask(a, "commit"), TRUE)
  BY <1>1, <1>11, FollowedAre DEF Moved
<1>12. QueueOrder'
  <2>1. Calm
    BY <1>0, <1>7 DEF Calm, Outcomes, Settles
  <2> QED
    BY <1>0, <2>1, QueueCalm DEF Line
<1>13. Inboxed' /\ DeadIsEmpty' /\ Stages'
  BY <1>3, <1>5, <1>6, <1>9, <1>10, <1>11, StagesPosted
<1> QED
  BY <1>12, <1>13 DEF Line

LEMMA TwoCopies ==
  ASSUME NEW a, NEW b, a # b
  PROVE  \A x : (In(x, <<a>> \o <<b>>) <=> x = a \/ x = b) /\ One({x}, <<a>> \o <<b>>)
BY FewCopies

\* What the continuation of a transaction's request posts.
LEMMA Continuations ==
  ASSUME NEW t \in Txs, NEW rs,
         \/ rs = <<>> \/ rs = <<Ask(t, "stmt")>> \/ rs = <<Ask(t, "commit")>>
         \/ rs = <<Ask(t, "abort")>> \/ rs = <<Ask(t, "stmt")>> \o <<Ask(t, "abort")>>
  PROVE  /\ rs \in Seq(Request) /\ \A x : One({x}, rs)
         /\ \A x : In(x, rs) => Proper(x)
         /\ \A x \in Tracked : In(x, rs) => x.op = t /\ x \in {Ask(t, "stmt"), Ask(t, "commit")}
         /\ rs = <<Ask(t, "abort")>> => In(Abort(t), rs) /\ \A x \in Tracked : ~In(x, rs)
         /\ rs # <<Ask(t, "commit")>> => ~In(Ask(t, "commit"), rs)
<1> DEFINE next == Ask(t, "stmt")
           commit == Ask(t, "commit")
           abort == Ask(t, "abort")
<1>1. /\ next \in Request /\ commit \in Request /\ abort \in Request /\ next # abort
      /\ commit # next /\ commit # abort
      /\ next.op = t /\ commit.op = t /\ \A x \in Tracked : x # abort
      /\ Proper(next) /\ Proper(commit) /\ Proper(abort) /\ abort = Abort(t)
  <2>1. next \in Tracked /\ commit \in Tracked /\ \A x \in Tracked : x # abort
    BY FollowedAre
  <2>2. next # abort /\ commit # next /\ commit # abort /\ next.op = t /\ commit.op = t
    BY AskInjective DEF Ask
  <2> QED
    BY <2>1, <2>2, AskType DEF TxKinds, Proper, Abort
<1>2. rs = <<>> \/ rs = <<next>> \/ rs = <<commit>> \/ rs = <<abort>> \/ rs = <<next>> \o <<abort>>
  OBVIOUS
<1> HIDE DEF next, commit, abort
<1>3. /\ \A x : In(x, <<next>>) <=> x = next
      /\ \A x : In(x, <<commit>>) <=> x = commit
      /\ \A x : In(x, <<abort>>) <=> x = abort
      /\ \A x : ~In(x, <<>>)
      /\ \A x : One({x}, <<next>>)
      /\ \A x : One({x}, <<commit>>)
      /\ \A x : One({x}, <<abort>>)
      /\ \A x : One({x}, <<>>)
  BY FewCopies
<1>4. /\ \A x : In(x, <<next>> \o <<abort>>) <=> x = next \/ x = abort
      /\ \A x : One({x}, <<next>> \o <<abort>>)
  <2>1. next # abort
    BY <1>1
  <2> QED
    BY <2>1, TwoCopies
<1>5. /\ <<>> \in Seq(Request) /\ <<next>> \in Seq(Request) /\ <<commit>> \in Seq(Request)
      /\ <<abort>> \in Seq(Request) /\ <<next>> \o <<abort>> \in Seq(Request)
  BY <1>1, Few
<1>6. /\ rs \in Seq(Request) /\ \A x : One({x}, rs)
      /\ \A x : In(x, rs) => Proper(x)
      /\ \A x \in Tracked : In(x, rs) => x.op = t /\ x \in {next, commit}
      /\ rs = <<abort>> => In(abort, rs) /\ \A x \in Tracked : ~In(x, rs)
      /\ rs # <<commit>> => ~In(commit, rs)
  <2>1. CASE rs = <<>>
    <3>1. <<abort>> # <<>>
      OBVIOUS
    <3> QED
      BY <1>3, <1>5, <2>1, <3>1
  <2>2. CASE rs = <<next>>
    <3>1. <<abort>> # <<next>>
      BY <1>1
    <3>2. ~In(commit, rs) /\ ~In(abort, rs) /\ \A x : In(x, rs) => x = next
      BY <1>1, <1>3, <2>2
    <3> QED
      BY <1>1, <1>3, <1>5, <2>2, <3>1, <3>2
  <2>3. CASE rs = <<commit>>
    <3>1. <<abort>> # <<commit>>
      BY <1>1
    <3> QED
      BY <1>1, <1>3, <1>5, <2>3, <3>1
  <2>4. CASE rs = <<abort>>
    BY <1>1, <1>3, <1>5, <2>4
  <2>5. CASE rs = <<next>> \o <<abort>>
    <3>1. In(next, rs) /\ ~In(next, <<abort>>)
      BY <1>1, <1>3, <1>4, <2>5
    <3> QED
      BY <1>1, <1>4, <1>5, <2>5, <3>1
  <2> QED
    BY <1>2, <2>1, <2>2, <2>3, <2>4, <2>5
<1> QED
  BY <1>1, <1>6 DEF next, commit, abort

LEMMA LineAnswerRun ==
  ASSUME TypeOK, Fate, Line, NEW o \in Writes \cup Reads \cup Raws, AnswerRun(o)
  PROVE  Line'
<1>1. /\ Ask(o, "run") \in Request /\ o \in Ops /\ o \notin Txs /\ Kinds(o) = {"run"}
      /\ open \subseteq Txs
  BY KindsOf, AskType DEF TypeOK
<1>2. PICK ok \in BOOLEAN : /\ Answered(Ask(o, "run"), ok, <<>>) /\ Unanswered
                            /\ Settle(o, IF ok THEN "done" ELSE "error")
                            /\ UNCHANGED <<queue, cb, stmt, abortDue>>
  BY DEF AnswerRun
<1>3. (\A x : One({x}, <<>>) /\ ~In(x, <<>>)) /\ <<>> \in Seq(Request)
  BY FewCopies, Few
<1>4. /\ \A p \in Ops \ {o} : op'[p] = op[p]
      /\ op'[o] # op[o] => op[o] = "running" /\ op'[o] \in {"done", "error"}
  BY <1>1, <1>2 DEF Settle, TypeOK
<1>5. Posts(o, "run", <<>>)
  BY <1>3 DEF Posts
<1>6. Settles(o, "run", <<>>)
  BY <1>1, <1>3, <1>4 DEF Settles
<1>7. Alone(o)
  BY <1>2, <1>4 DEF Alone
<1> QED
  BY <1>1, <1>2, <1>3, <1>5, <1>6, <1>7, LineAnswer

LEMMA LineAnswerBegin ==
  ASSUME TypeOK, Fate, Line, NEW t \in Txs, AnswerBegin(t)
  PROVE  Line'
<1> DEFINE begin == Ask(t, "begin")
           next == Ask(t, "stmt")
           commit == Ask(t, "commit")
           rs == <<next>> \o IF t \in abortDue THEN <<Ask(t, "abort")>> ELSE <<>>
<1>1. t \in Ops /\ begin \in Request /\ Kinds(t) = {"begin", "stmt", "commit"}
  BY KindsOf, AskType DEF TxKinds
<1>2. Answered(begin, TRUE, rs) /\ Unanswered /\ UNCHANGED <<queue, stmt>>
  BY DEF AnswerBegin
<1>3. /\ rs \in Seq(Request) /\ \A x : One({x}, rs) /\ (In(x, rs) => Proper(x))
      /\ \A x \in Tracked : In(x, rs) => x = next
      /\ next.op = t
  <2>1. rs = <<next>> \/ rs = <<next>> \o <<Ask(t, "abort")>>
    <3>1. <<next>> \o <<>> = <<next>>
      OBVIOUS
    <3> QED
      BY <3>1
  <2>2. next.op = t /\ commit # next /\ rs # <<commit>>
    <3>1. next.op = t /\ commit # next
      BY AskInjective DEF Ask
    <3>2. rs[1] = next /\ <<commit>>[1] = commit
      OBVIOUS
    <3> QED
      BY <3>1, <3>2
  <2>3. /\ rs \in Seq(Request) /\ (\A x : One({x}, rs)) /\ (\A x : In(x, rs) => Proper(x))
        /\ (\A x \in Tracked : In(x, rs) => x \in {next, commit}) /\ ~In(commit, rs)
    <3> HIDE DEF rs
    <3> QED
      BY <2>1, <2>2, Continuations
  <2> HIDE DEF rs, next, commit
  <2> QED
    BY <2>2, <2>3
<1>4. Pend(begin)
  BY <1>2 DEF Answered, Pend, IsPending, In
<1>5. ~Pend(next) /\ ~Out(next) /\ ~Pend(commit) /\ ~Out(commit)
  BY <1>4 DEF Fate, TxFate
<1>6. /\ \A p \in Ops \ {t} : op'[p] = op[p]
      /\ \A p \in Txs \ {t} : cb'[p] = cb[p]
      /\ op'[t] # op[t] => op[t] = "running" /\ op'[t] = "error" /\ closed
  BY <1>1 DEF AnswerBegin, Settle, TypeOK
<1>7. \A j \in Kinds(t) : j = "begin" \/ (~Ahead(Ask(t, j)) /\ ~Pend(Ask(t, j)))
  BY <1>1, <1>5 DEF Out
<1> HIDE DEF rs, next, commit
<1>8. Posts(t, "begin", rs)
  BY <1>1, <1>3, <1>5 DEF Posts
<1>9. Settles(t, "begin", rs)
  BY <1>6, <1>7 DEF Settles
<1>10. Alone(t)
  BY <1>2, <1>6 DEF Alone
<1> QED
  BY <1>1, <1>2, <1>3, <1>8, <1>9, <1>10, LineAnswer

\* The callback goes on, returns, or fails.
LEMMA LineAnswerStmt ==
  ASSUME TypeOK, Fate, Line, NEW t \in Txs,
         AnswerStmtMore(t) \/ AnswerStmtLast(t) \/ AnswerStmtThrow(t)
  PROVE  Line'
<1> DEFINE next == Ask(t, "stmt")
           commit == Ask(t, "commit")
           abort == Ask(t, "abort")
<1>1. PICK ok \in BOOLEAN, rs \in {<<>>, <<next>>, <<commit>>, <<abort>>} :
        /\ Answered(next, ok, rs) /\ Unanswered /\ queue' = queue
        /\ \A p \in Ops \ {t} : op'[p] = op[p]
        /\ \A p \in Txs \ {t} : cb'[p] = cb[p] /\ stmt'[p] = stmt[p]
        /\ op'[t] # op[t] => op[t] = "running" /\ op'[t] = "error" /\ (closed \/ rs = <<abort>>)
  <2>1. CASE AnswerStmtMore(t)
    <3>1. PICK ok \in BOOLEAN :
            /\ Answered(next, ok, <<next>>) /\ Unanswered /\ queue' = queue
            /\ Counted(t, ok) /\ cb' = [cb EXCEPT ![t] = IF closed THEN "threw" ELSE "stmt"]
            /\ IF closed THEN Settle(t, "error") ELSE UNCHANGED op
      BY <2>1 DEF AnswerStmtMore
    <3>2. /\ \A p \in Ops \ {t} : op'[p] = op[p]
          /\ \A p \in Txs \ {t} : cb'[p] = cb[p] /\ stmt'[p] = stmt[p]
          /\ op'[t] # op[t] => op[t] = "running" /\ op'[t] = "error" /\ closed
      BY <3>1, KindsOf DEF Counted, Settle, TypeOK
    <3> QED
      BY <3>1, <3>2
  <2>2. CASE AnswerStmtLast(t)
    <3>1. PICK ok \in BOOLEAN :
            /\ Answered(next, ok, CommitOf(t)) /\ Unanswered /\ queue' = queue
            /\ Counted(t, ok) /\ cb' = [cb EXCEPT ![t] = "returned"]
            /\ IF closed THEN Settle(t, "error") ELSE UNCHANGED op
      BY <2>2 DEF AnswerStmtLast
    <3>2. CommitOf(t) \in {<<>>, <<commit>>}
      BY DEF CommitOf
    <3>3. /\ \A p \in Ops \ {t} : op'[p] = op[p]
          /\ \A p \in Txs \ {t} : cb'[p] = cb[p] /\ stmt'[p] = stmt[p]
          /\ op'[t] # op[t] => op[t] = "running" /\ op'[t] = "error" /\ closed
      BY <3>1, KindsOf DEF Counted, Settle, TypeOK
    <3> QED
      BY <3>1, <3>2, <3>3
  <2>3. CASE AnswerStmtThrow(t)
    <3>1. PICK ok \in BOOLEAN :
            /\ Answered(next, ok, AbortOf(t)) /\ Unanswered /\ Settle(t, "error") /\ queue' = queue
            /\ stmt' = [stmt EXCEPT ![t] = IF ok THEN @ + 1 ELSE @]
            /\ cb' = [cb EXCEPT ![t] = "threw"]
      BY <2>3 DEF AnswerStmtThrow, Counted
    <3>2. /\ \A p \in Ops \ {t} : op'[p] = op[p]
          /\ \A p \in Txs \ {t} : cb'[p] = cb[p] /\ stmt'[p] = stmt[p]
          /\ op'[t] # op[t] => op[t] = "running" /\ op'[t] = "error"
      BY <3>1, KindsOf DEF Settle, TypeOK
    <3>3. AbortOf(t) \in {<<>>, <<abort>>} /\ (op[t] = "running" => AbortOf(t) = <<abort>>)
      BY DEF AbortOf
    <3> QED
      BY <3>1, <3>2, <3>3
  <2> QED
    BY <2>1, <2>2, <2>3
<1>2. /\ t \in Ops /\ next \in Request /\ ~Pend(Ask(t, "begin")) /\ ~Out(Ask(t, "begin"))
      /\ ~Pend(commit) /\ ~Out(commit)
  BY <1>1, StmtAnswered
<1>3. Kinds(t) = {"begin", "stmt", "commit"}
  BY KindsOf
<1>4. /\ rs \in Seq(Request) /\ \A x : One({x}, rs) /\ (In(x, rs) => Proper(x))
      /\ \A x \in Tracked : In(x, rs) => x.op = t /\ x \in {next, commit}
      /\ rs = <<abort>> => In(Abort(t), rs) /\ \A x \in Tracked : ~In(x, rs)
  <2>1. /\ rs \in Seq(Request) /\ (\A x : One({x}, rs)) /\ (\A x : In(x, rs) => Proper(x))
        /\ \A x \in Tracked : In(x, rs) => x.op = t /\ x \in {next, commit}
        /\ rs = <<abort>> => In(Abort(t), rs) /\ \A x \in Tracked : ~In(x, rs)
    BY <1>1, Continuations
  <2> HIDE DEF next, commit, abort
  <2> QED
    BY <2>1
<1>5. \A j \in Kinds(t) : j = "stmt" \/ (~Ahead(Ask(t, j)) /\ ~Pend(Ask(t, j)))
  BY <1>2, <1>3 DEF Out
<1>6. Posts(t, "stmt", rs)
  BY <1>2, <1>3, <1>4 DEF Posts
<1>7. Settles(t, "stmt", rs)
  BY <1>1, <1>4, <1>5 DEF Settles
<1>8. Alone(t)
  BY <1>1 DEF Alone
<1> HIDE DEF commit, abort
<1> QED
  BY <1>1, <1>2, <1>4, <1>6, <1>7, <1>8, LineAnswer

LEMMA LineAnswerCommit ==
  ASSUME TypeOK, Fate, Line, NEW t \in Txs, AnswerCommit(t)
  PROVE  Line'
<1> DEFINE begin == Ask(t, "begin")
           next == Ask(t, "stmt")
           commit == Ask(t, "commit")
           abort == Ask(t, "abort")
<1>1. PICK ok \in BOOLEAN :
        /\ Answered(commit, ok, IF ok THEN <<>> ELSE <<abort>>)
        /\ Settle(t, IF ok THEN "done" ELSE "error") /\ Unanswered
        /\ UNCHANGED <<queue, cb, stmt, abortDue>>
  BY DEF AnswerCommit
<1>2. PICK rs : rs = IF ok THEN <<>> ELSE <<abort>>
  OBVIOUS
<1>3. t \in Ops /\ commit \in Request /\ Kinds(t) = {"begin", "stmt", "commit"}
  BY KindsOf, AskType DEF TxKinds
<1>4. /\ rs \in Seq(Request) /\ \A x : One({x}, rs) /\ (In(x, rs) => Proper(x))
      /\ \A x \in Tracked : ~In(x, rs)
      /\ ok = FALSE => In(Abort(t), rs)
  <2>1. (ok = TRUE /\ rs = <<>>) \/ (ok = FALSE /\ rs = <<abort>>)
    BY <1>2
  <2>2. /\ rs \in Seq(Request) /\ (\A x : One({x}, rs)) /\ (\A x : In(x, rs) => Proper(x))
        /\ rs = <<abort>> => In(Abort(t), rs) /\ \A x \in Tracked : ~In(x, rs)
    BY <2>1, Continuations
  <2>3. \A x : ~In(x, <<>>)
    BY FewCopies
  <2> HIDE DEF abort
  <2> QED
    BY <2>1, <2>2, <2>3
<1>5. Answered(commit, ok, rs) /\ Pend(commit) /\ Back(commit, ok)
  <2>0. Answered(commit, ok, rs)
    BY <1>1, <1>2
  <2>1. replies \in Seq(Reply) /\ replies # <<>> /\ Head(replies) = [req |-> commit, ok |-> ok]
    BY <2>0 DEF Answered, TypeOK
  <2>2. 1 \in DOMAIN replies /\ replies[1] = [req |-> commit, ok |-> ok]
    BY <2>1
  <2> QED
    BY <2>0, <2>2 DEF Answered, Pend, IsPending, In, Back
<1>6. ~Pend(begin) /\ ~Out(begin) /\ ~Pend(next) /\ ~Out(next)
  BY <1>5 DEF Fate, TxFate
<1>7. \A j \in Kinds(t) : j = "commit" \/ (~Ahead(Ask(t, j)) /\ ~Pend(Ask(t, j)))
  BY <1>3, <1>6 DEF Out
<1>8. /\ \A p \in Ops \ {t} : op'[p] = op[p]
      /\ op'[t] # op[t] => op[t] = "running" /\ op'[t] = IF ok THEN "done" ELSE "error"
  BY <1>1, <1>3 DEF Settle, TypeOK
<1>9. t \in open => ok = FALSE
  BY <1>5 DEF Line, Stages, Kept
<1>10. Posts(t, "commit", rs)
  BY <1>3, <1>4 DEF Posts
<1>11. Settles(t, "commit", rs)
  BY <1>4, <1>7, <1>8, <1>9 DEF Settles
<1>12. Alone(t)
  BY <1>1, <1>8 DEF Alone
<1> QED
  BY <1>1, <1>3, <1>4, <1>5, <1>10, <1>11, <1>12, LineAnswer

LEMMA LineAnswerAbort ==
  ASSUME TypeOK, Fate, Line, NEW t \in Txs, AnswerAbort(t)
  PROVE  Line'
<1>1. /\ Answered(Ask(t, "abort"), TRUE, <<>>) /\ Unanswered /\ UNCHANGED <<queue, op, cb, stmt>>
      /\ TRUE \in BOOLEAN
  BY DEF AnswerAbort, store
<1>2. t \in Ops /\ Ask(t, "abort") \in Request
  BY KindsOf, AskType DEF TxKinds
<1>3. (\A x : One({x}, <<>>) /\ ~In(x, <<>>)) /\ <<>> \in Seq(Request)
  BY FewCopies, Few
<1>4. Posts(t, "abort", <<>>) /\ Settles(t, "abort", <<>>) /\ Alone(t)
  BY <1>1, <1>3 DEF Posts, Settles, Alone
<1> QED
  BY <1>1, <1>2, <1>3, <1>4, LineAnswer

LEMMA LineReplying == TypeOK /\ Fate /\ Line /\ Replying => Line'
BY LineLateReply, LineAnswerRun, LineAnswerBegin, LineAnswerStmt, LineAnswerCommit, LineAnswerAbort
   DEF Replying

-----------------------------------------------------------------------------
(* What timers and ends do to the order.                                     *)

\* The timer of a request settles nothing but as timed out.
LEMMA LineRequestTimeout ==
  ASSUME TypeOK, Fate, Line, RequestTimeout
  PROVE  Line'
<1>0. PICK r : r = Head(pending)
  OBVIOUS
<1> DEFINE a == r.op
           abort == Ask(a, "abort")
           rs == IF r.kind = "commit" THEN <<abort>> ELSE <<>>
<1>1. pending # <<>> /\ r \in Request
  BY <1>0 DEF RequestTimeout, TypeOK
<1>2. /\ Post(rs, Tail(pending), degraded', ProbeLeft(r)) /\ Settle(a, "timeout")
      /\ UNCHANGED <<queue, fatal, closed, busy, replies, open, alive>>
  BY <1>0 DEF RequestTimeout, worker
<1>3. /\ \A p \in Ops \ {a} : op'[p] = op[p]
      /\ a \in Ops => op'[a] = op[a] \/ (op[a] = "running" /\ op'[a] = "timeout")
  BY <1>2 DEF Settle, TypeOK
<1>4. rs \in Seq(Request) /\ \A x : In(x, rs) => Proper(x)
  <2>1. (\A x : In(x, <<abort>>) <=> x = abort) /\ \A x : ~In(x, <<>>)
    <3> HIDE DEF abort
    <3> QED
      BY FewCopies
  <2>2. (r.kind = "commit" /\ rs = <<abort>>) \/ rs = <<>>
    OBVIOUS
  <2>3. r.kind = "commit" => a \in Txs
    BY <1>1 DEF Request
  <2>4. a \in Txs => abort \in Request /\ Proper(abort)
    BY AskType DEF TxKinds, Proper, Abort
  <2>5. <<>> \in Seq(Request) /\ (abort \in Request => <<abort>> \in Seq(Request))
    BY Few
  <2> HIDE DEF abort, rs
  <2>6. CASE r.kind = "commit" /\ rs = <<abort>>
    BY <2>1, <2>3, <2>4, <2>5, <2>6
  <2>7. CASE rs = <<>>
    BY <2>1, <2>5, <2>7
  <2> QED
    BY <2>2, <2>6, <2>7
<1>5. \A x \in Tracked : /\ Ahead(x)' => Ahead(x)
                         /\ Pend(x)' => Pend(x)
                         /\ Back(x, TRUE)' => Back(x, TRUE)
  BY TimeoutCopies
<1> HIDE DEF a, rs
<1>6. \A p \in Ops : \A k \in Kinds(p) : Ask(p, k) \in Tracked
  BY TrackedRequests
<1>7. \A p \in Ops \ {a} : Quiet(p)
  BY <1>3, <1>5, <1>6 DEF Quiet
<1>8. Txs \subseteq Chained /\ Chained \subseteq Ops
  BY ChainedTypes
<1>9. ASSUME a \in Chained PROVE Advances(a)
  <2>1. op'[a] = op[a] \/ (op[a] = "running" /\ op'[a] = "timeout")
    BY <1>3, <1>8, <1>9
  <2>2. \A k \in Kinds(a) : /\ Ahead(Ask(a, k))' => Ahead(Ask(a, k))
                            /\ Pend(Ask(a, k))' => Pend(Ask(a, k))
    BY <1>5, <1>6, <1>8, <1>9
  <2>3. Spent(a)'
    <3>1. Spent(a)
      BY <1>9 DEF Line, Stages
    <3> QED
      BY <2>1, <2>2, <3>1 DEF Spent
  <2> QED
    BY <2>1, <2>3 DEF Advances
<1>10. a \in Txs => (Back(Ask(a, "commit"), TRUE)' => Back(Ask(a, "commit"), TRUE))
  BY <1>5, FollowedAre
<1>11. QueueOrder'
  <2>1. Calm
    BY <1>3, <1>8 DEF Calm, Outcomes
  <2> QED
    BY <1>2, <2>1, QueueCalm DEF Line
<1> QED
  BY <1>2, <1>4, <1>7, <1>9, <1>10, <1>11, LinePosts

\* The worker is gone, or its end is seen.
LEMMA LineDead ==
  ASSUME TypeOK, Line, ~alive', inbox' = <<>>, busy' = {}, open' = {}, queue' = queue,
         \/ op' = op /\ \A r \in Tracked : Pend(r)' => Pend(r)
         \/ /\ pending' = <<>>
            /\ \A o \in Ops : op'[o] = op[o] \/ (op[o] = "running" /\ op'[o] = "error")
  PROVE  Line'
<1>1. Txs \subseteq Chained /\ Chained \subseteq Ops
  BY ChainedTypes
<1>2. QueueOrder'
  <2>1. Calm
    BY <1>1 DEF Calm, Outcomes
  <2> QED
    BY <2>1, QueueCalm DEF Line
<1>3. ASSUME NEW o \in Chained, op'[o] \in {"done", "error"}, NEW k \in Kinds(o)
      PROVE  ~Pend(Ask(o, k))'
  <2>1. CASE pending' = <<>>
    BY <2>1 DEF Pend, In
  <2>2. CASE op' = op /\ \A r \in Tracked : Pend(r)' => Pend(r)
    <3>1. Ask(o, k) \in Tracked
      BY <1>1, TrackedRequests
    <3>2. Spent(o)
      BY DEF Line, Stages
    <3> QED
      BY <1>3, <2>2, <3>1, <3>2 DEF Spent
  <2> QED
    BY <2>1, <2>2
<1>4. Inboxed' /\ DeadIsEmpty' /\ Stages'
  BY <1>3, StagesDead
<1> QED
  BY <1>2, <1>4 DEF Line

LEMMA LineEnding == TypeOK /\ Fate /\ Line /\ Ending => Line'
<1> SUFFICES ASSUME TypeOK, Fate, Line, Ending PROVE Line'
  OBVIOUS
<1>1. CASE WorkerDies
  <2>1. Gone /\ UNCHANGED <<op, queue, pending>>
    BY <1>1 DEF WorkerDies, store
  <2> QED
    BY <2>1, LineDead DEF Gone, Pend
<1>2. CASE ExitSeen
  <2>1. ~alive /\ pending' = <<>> /\ UNCHANGED <<queue, inbox, busy, open, alive>>
    BY <1>2 DEF ExitSeen, failAll, worker
  <2>2. inbox = <<>> /\ busy = {} /\ open = {}
    BY <2>1 DEF Line, DeadIsEmpty
  <2>3. \A o \in Ops : op'[o] = op[o] \/ (op[o] = "running" /\ op'[o] = "error")
    BY <1>2 DEF ExitSeen
  <2> QED
    BY <2>1, <2>2, <2>3, LineDead
<1>3. CASE Close
  <2>1. UNCHANGED <<op, queue, fatal>> /\ ~closed /\ closed'
    BY <1>3 DEF Close, store
  <2>2. CASE degraded \/ fatal
    <3>1. Gone /\ pending' = pending
      BY <1>3, <2>2 DEF Close
    <3> QED
      BY <2>1, <3>1, LineDead DEF Gone, Pend
  <2>3. CASE ~(degraded \/ fatal)
    <3>1. Send(<<CloseAsk>>, pending, degraded, probe) /\ UNCHANGED worker
      BY <1>3, <2>3 DEF Close
    <3>2. Post(<<CloseAsk>>, pending, degraded, probe)
      BY <2>1, <2>3, <3>1 DEF Post, Admits
    <3>3. <<CloseAsk>> \in Seq(Request)
      BY Few DEF CloseAsk, Ask, Request, TxKinds
    <3>4. \A x : One({x}, <<CloseAsk>>) /\ (In(x, <<CloseAsk>>) <=> x = CloseAsk)
      BY FewCopies
    <3>5. CloseAsk \notin Tracked /\ Proper(CloseAsk)
      BY FollowedAre DEF CloseAsk, Proper
    <3>6. UNCHANGED <<busy, replies, open, alive>>
      BY <3>1 DEF worker
    <3>7. \A r \in Tracked : Single(r)' /\ Same(r)
      BY <3>2, <3>3, <3>4, <3>5, <3>6, PostedCopies DEF Fate
    <3>8. \A o \in Ops : Quiet(o)
      BY <2>1, <3>7, TrackedRequests DEF Quiet, Same, Ahead
    <3>9. QueueOrder'
      BY <2>1, QueueCalm DEF Line, Calm
    <3>10. PICK a : a \notin Ops
      BY NoSetContainsEverything
    <3>11. a \notin Chained /\ a \notin Txs
      BY <3>10, ChainedTypes
    <3>12. \A x : In(x, <<CloseAsk>>) => Proper(x)
      BY <3>4, <3>5
    <3> QED
      BY <2>1, <3>2, <3>3, <3>6, <3>8, <3>9, <3>11, <3>12, LinePosts
  <2> QED
    BY <2>2, <2>3
<1>4. CASE Terminate
  <2> DEFINE n == Position(CloseAsk)
  <2>1. n \in DOMAIN pending /\ pending[n] = CloseAsk /\ pending' = RemoveAt(pending, n)
    BY <1>4 DEF Terminate, IsPending, Position, Forget
  <2>2. UNCHANGED <<op, queue>> /\ Gone /\ pending \in Seq(Request)
    BY <1>4 DEF Terminate, store, TypeOK
  <2> HIDE DEF n
  <2>3. ASSUME NEW r \in Tracked PROVE Pend(r)' <=> Pend(r)
    <3>1. One({r}, pending) /\ r # CloseAsk
      BY FollowedAre DEF Fate, Single, CloseAsk
    <3> QED
      BY <2>1, <2>2, <3>1, RemoveCopies DEF Pend
  <2> QED
    BY <2>2, <2>3, LineDead DEF Gone
<1> QED
  BY <1>1, <1>2, <1>3, <1>4, LineRequestTimeout DEF Ending

-----------------------------------------------------------------------------
(* What the worker does to the order.                                        *)

LEMMA LineDispatch ==
  ASSUME TypeOK, Fate, Line, Dispatch
  PROVE  Line'
<1>0. PICK q : q = Head(inbox)
  OBVIOUS
<1>1. /\ inbox # <<>> /\ inbox' = Tail(inbox) /\ q \in Request /\ inbox \in Seq(Request) /\ alive
      /\ UNCHANGED <<op, queue, cb, pending, fatal, closed, alive>>
  BY <1>0 DEF Dispatch, TypeOK, store
<1>2. \/ /\ q.kind \in {"run", "stmt", "commit"}
         /\ busy' = busy \cup {q} /\ open' = open /\ replies' = replies
      \/ Answer(q, FALSE) /\ busy' = busy /\ open' = open
      \/ q.kind = "begin" /\ open' = open \cup {q.op} /\ Answer(q, TRUE) /\ busy' = busy
      \/ q.kind = "abort" /\ open' = open \ {q.op} /\ Answer(q, TRUE) /\ busy' = busy
      \/ q.kind = "close" /\ Answer(q, TRUE) /\ busy' = busy /\ open' = open
  BY <1>0 DEF Dispatch
<1>3. \/ busy' = busy \cup {q} /\ replies' = replies
      \/ busy' = busy /\ \E ok \in BOOLEAN : Answer(q, ok)
  BY <1>2
<1>4. \A r \in Tracked :
        /\ Onward(r) /\ (Pend(r)' <=> Pend(r))
        /\ r = q => Ahead(r) /\ ~Back(r, TRUE)
        /\ Back(r, TRUE)' => Back(r, TRUE) \/ (r = q /\ Answer(q, TRUE))
        /\ r = q /\ Answer(q, FALSE) => ~Back(r, TRUE)'
  BY <1>0, <1>1, <1>3, MovedCopies
<1>5. In(q, inbox) /\ (\A x : In(x, Tail(inbox)) => In(x, inbox))
  <2>1. /\ DOMAIN inbox = 1..Len(inbox) /\ Len(inbox) \in Nat /\ Len(inbox) # 0 /\ q = inbox[1]
        /\ DOMAIN Tail(inbox) = 1..(Len(inbox) - 1)
        /\ \A i \in 1..(Len(inbox) - 1) : Tail(inbox)[i] = inbox[i + 1]
    BY <1>0, <1>1
  <2>2. 1 \in DOMAIN inbox
    BY <2>1
  <2>3. ASSUME NEW x, NEW i \in DOMAIN Tail(inbox), Tail(inbox)[i] = x PROVE In(x, inbox)
    <3>1. i + 1 \in DOMAIN inbox /\ inbox[i + 1] = x
      BY <2>1, <2>3
    <3> QED
      BY <3>1 DEF In
  <2> QED
    BY <2>1, <2>2, <2>3 DEF In
<1>6. Proper(q)
  BY <1>5 DEF Line, Inboxed, InBox
<1>7. /\ q.kind \in {"run", "stmt", "commit"} => q \in Tracked
      /\ q.kind = "begin" => q.op \in Txs /\ q = Ask(q.op, "begin") /\ q \in Tracked
      /\ q.kind = "commit" => q.op \in Txs /\ q = Ask(q.op, "commit")
      /\ q.kind = "abort" => q = Abort(q.op)
  <2>1. q.kind \in {"run", "stmt", "commit"} => q \in Tracked
    <3>1. \A t : Abort(t).kind = "abort" /\ CloseAsk.kind = "close"
      BY DEF Abort, CloseAsk, Ask
    <3> QED
      BY <1>6, <3>1 DEF Proper
  <2>2. /\ q.kind = "begin" => q.op \in Txs /\ q = Ask(q.op, "begin")
        /\ q.kind = "commit" => q.op \in Txs /\ q = Ask(q.op, "commit")
        /\ q.kind = "abort" => q = Abort(q.op)
    BY <1>1 DEF Request, Ask, TxKinds, Abort
  <2> QED
    BY <2>1, <2>2, FollowedAre
<1>8. QueueOrder'
  BY <1>1, QueueCalm DEF Line, Calm
<1>9. Inboxed'
  <2>1. Tracked' = Tracked /\ \A t : Abort(t)' = Abort(t)
    BY DEF Tracked, Kinds, Abort
  <2>2. \A r : InBox(r)' => InBox(r)
    BY <1>1, <1>5 DEF InBox
  <2>3. busy' \subseteq busy \cup Tracked
    BY <1>2, <1>7
  <2> QED
    BY <2>1, <2>2, <2>3 DEF Line, Inboxed, Proper
<1>10. DeadIsEmpty'
  BY <1>1 DEF Line, DeadIsEmpty
<1>11. Txs \subseteq Chained /\ Chained \subseteq Ops
  BY ChainedTypes
<1>12. \A o \in Chained : \A k \in Kinds(o) : Ask(o, k) \in Tracked
  BY <1>11, TrackedRequests
<1>13. ASSUME NEW o \in Chained PROVE Spent(o)'
  <2>1. Spent(o)
    BY DEF Line, Stages
  <2> QED
    BY <1>1, <1>4, <1>12, <2>1 DEF Spent, Onward
\* One that the worker opens is neither settled nor committed.
<1>14. ASSUME NEW t \in Txs, t \in open', t \notin open
       PROVE  /\ q = Ask(t, "begin") /\ op[t] \notin {"idle", "queued", "done", "error"}
              /\ ~Back(Ask(t, "commit"), TRUE)
  <2>1. q.kind = "begin" /\ q.op = t
    BY <1>2, <1>14
  <2>2. q = Ask(t, "begin") /\ Ahead(Ask(t, "begin")) /\ "begin" \in Kinds(t)
    BY <1>4, <1>7, <2>1, KindsOf
  <2>3. Spent(t) /\ OpFate(t) /\ TxFate(t)
    BY <1>11 DEF Line, Stages, Fate
  <2>4. op[t] \notin {"idle", "queued", "done", "error"}
    BY <2>2, <2>3 DEF Spent, OpFate, Out
  <2>5. ~Out(Ask(t, "commit"))
    BY <2>2, <2>3 DEF TxFate, Out
  <2> QED
    BY <2>2, <2>4, <2>5 DEF Out
<1>15. ASSUME NEW t \in Txs, t \in open' PROVE Abort(t) # q
  <2>1. Abort(t).kind = "abort" /\ Abort(t).op = t
    BY DEF Abort, Ask
  <2> SUFFICES ASSUME Abort(t) = q PROVE FALSE
    OBVIOUS
  <2>2. q.kind = "abort" /\ q.op = t
    BY <2>1
  <2>3. open' = open \/ open' = open \ {t}
    BY <1>2, <2>2
  <2>4. Answer(q, FALSE) => q.kind # "abort"
    <3>1. Dispatch
      OBVIOUS
    <3> QED
      BY <1>0, <1>1, <2>2, <3>1 DEF Dispatch, Known, Answer
  <2> QED
    BY <1>2, <1>15, <2>2, <2>4
<1>16. ASSUME NEW t \in Txs PROVE Kept(t)'
  <2>1. SUFFICES ASSUME t \in open'
                 PROVE  /\ op[t] \notin {"idle", "queued", "done"}
                        /\ ~Back(Ask(t, "commit"), TRUE)'
                        /\ op[t] = "error" => closed \/ InBox(Abort(t))'
    BY <1>1 DEF Kept, Abort
  <2>2. Kept(t) /\ Ask(t, "commit") \in Tracked
    BY FollowedAre DEF Line, Stages
  <2>3. ~Back(Ask(t, "commit"), TRUE)
    BY <1>14, <2>1, <2>2 DEF Kept
  <2>4. ~Back(Ask(t, "commit"), TRUE)'
    <3>1. CASE q = Ask(t, "commit")
      <4>1. q.kind = "commit"
        BY <3>1 DEF Ask
      <4>2. replies' = replies \/ Answer(q, FALSE)
        BY <1>2, <4>1
      <4> QED
        BY <1>4, <2>2, <2>3, <3>1, <4>2 DEF Back
    <3>2. CASE q # Ask(t, "commit")
      BY <1>4, <2>2, <2>3, <3>2
    <3> QED
      BY <3>1, <3>2
  <2>5. ASSUME op[t] = "error", ~closed PROVE InBox(Abort(t))'
    <3>1. In(Abort(t), inbox) /\ Abort(t) # q
      BY <1>14, <1>15, <2>1, <2>2, <2>5 DEF Kept, InBox
    <3>2. In(Abort(t), Tail(inbox))
      BY <1>0, <1>1, <3>1, InTail
    <3> QED
      BY <1>1, <3>2 DEF InBox, Abort
  <2>6. op[t] \notin {"idle", "queued", "done"}
    BY <1>14, <2>1, <2>2 DEF Kept
  <2> QED
    BY <2>4, <2>5, <2>6
<1>17. ASSUME NEW o \in Chained, NEW t \in Txs PROVE Clear(o, t)'
  <2>1. SUFFICES ASSUME o # t, op[t] = "error", t \in open'
                 PROVE  /\ op[o] = "running" => ~Inside(o)' /\ Before(Abort(t), Reqs(o), inbox')
                        /\ op[o] = "error" => o \notin open'
    BY <1>1 DEF Clear, Abort, Reqs, Kinds
  <2>2. t \in open /\ Clear(o, t)
    BY <1>14, <2>1 DEF Line, Stages
  <2>3. ASSUME op[o] = "error" PROVE o \notin open'
    <3>1. o \notin open
      BY <2>1, <2>2, <2>3 DEF Clear
    <3>2. o \in open' => o \in Txs
      BY <1>2, <1>7, <3>1
    <3> QED
      BY <1>14, <2>3, <3>1, <3>2
  <2>4. ASSUME op[o] = "running" PROVE ~Inside(o)' /\ Before(Abort(t), Reqs(o), inbox')
    <3>1. ~Inside(o) /\ Before(Abort(t), Reqs(o), inbox)
      BY <2>1, <2>2, <2>4 DEF Clear
    <3>2. q \notin Reqs(o) /\ Before(Abort(t), Reqs(o), inbox')
      BY <1>0, <1>1, <1>15, <2>1, <3>1, TailBefore
    <3>3. o \notin open'
      <4>1. o \in open' => o \in Txs
        BY <1>2, <1>7, <3>1 DEF Inside
      <4>2. o \in Txs => Ask(o, "begin") \in Reqs(o)
        BY KindsOf DEF Reqs
      <4> QED
        BY <1>14, <3>1, <3>2, <4>1, <4>2 DEF Inside
    <3>4. ASSUME NEW r \in busy', r.op = o PROVE FALSE
      <4>1. r = q /\ q \in Tracked
        BY <1>2, <1>7, <3>1, <3>4 DEF Inside
      <4>2. PICK p \in Ops : \E k \in Kinds(p) : r = Ask(p, k)
        BY <4>1 DEF Tracked
      <4>3. p = o
        BY <3>4, <4>2 DEF Ask
      <4> QED
        BY <3>2, <4>1, <4>2, <4>3 DEF Reqs
    <3> QED
      BY <3>2, <3>3, <3>4 DEF Inside
  <2> QED
    BY <2>3, <2>4
<1> QED
  BY <1>8, <1>9, <1>10, <1>13, <1>16, <1>17 DEF Line, Stages

\* Native code that ends, and a commit with its transaction.
LEMMA LineEnded ==
  ASSUME TypeOK, Fate, Line, NEW a \in Ops, NEW k \in Kinds(a), NEW ok \in BOOLEAN,
         Ended(Ask(a, k), ok), open' \subseteq open, k = "commit" /\ ok => a \notin open'
  PROVE  Line'
<1> DEFINE q == Ask(a, k)
<1>1. /\ q \in busy /\ busy' = busy \ {q} /\ Answer(q, ok)
      /\ UNCHANGED <<op, queue, pending, inbox, fatal, closed, alive>>
  BY DEF Ended, store
<1>2. q \in Tracked /\ q \in Request
  BY TrackedRequests
<1> HIDE DEF q
<1>3. \A r \in Tracked : /\ Onward(r) /\ (Pend(r)' <=> Pend(r))
                         /\ Back(r, TRUE)' => Back(r, TRUE) \/ (r = q /\ Answer(q, TRUE))
  BY <1>1, <1>2, MovedCopies
<1>4. Answer(q, TRUE) => ok = TRUE
  <2>1. Answer(q, TRUE) => [req |-> q, ok |-> TRUE] = [req |-> q, ok |-> ok]
    <3>1. [req |-> q, ok |-> TRUE] \in Reply /\ [req |-> q, ok |-> ok] \in Reply /\ replies \in Seq(Reply)
      BY <1>2 DEF Reply, TypeOK
    <3> QED
      BY <1>1, <3>1 DEF Answer
  <2> QED
    BY <2>1
<1>5. QueueOrder'
  BY <1>1, QueueCalm DEF Line, Calm
<1>6. Inboxed'
  BY <1>1 DEF Line, Inboxed, Proper, InBox, Tracked, Kinds, Abort
<1>7. DeadIsEmpty'
  BY <1>1 DEF Line, DeadIsEmpty
<1>8. Txs \subseteq Chained /\ Chained \subseteq Ops
  BY ChainedTypes
<1>9. ASSUME NEW o \in Chained PROVE Spent(o)'
  <2>1. Spent(o) /\ \A j \in Kinds(o) : Ask(o, j) \in Tracked
    BY <1>8, TrackedRequests DEF Line, Stages
  <2> QED
    BY <1>1, <1>3, <2>1 DEF Spent, Onward
<1>10. ASSUME NEW t \in Txs PROVE Kept(t)'
  <2>1. Kept(t) /\ Ask(t, "commit") \in Tracked
    BY FollowedAre DEF Line, Stages
  <2>2. Ask(t, "commit") = q => t = a /\ k = "commit"
    BY AskInjective DEF q
  <2>3. t \in open' => ~Back(Ask(t, "commit"), TRUE)'
    BY <1>3, <1>4, <2>1, <2>2 DEF Kept
  <2> QED
    BY <1>1, <2>1, <2>3 DEF Kept, InBox, Abort
<1>11. ASSUME NEW o \in Chained, NEW t \in Txs PROVE Clear(o, t)'
  <2>1. Clear(o, t)
    BY DEF Line, Stages
  <2>2. Inside(o)' => Inside(o)
    BY <1>1 DEF Inside
  <2>3. Before(Abort(t), Reqs(o), inbox') <=> Before(Abort(t), Reqs(o), inbox)
    BY <1>1
  <2> QED
    BY <1>1, <2>1, <2>2, <2>3 DEF Clear, Before, Abort, Reqs, Kinds
<1> QED
  BY <1>5, <1>6, <1>7, <1>9, <1>10, <1>11 DEF Line, Stages

LEMMA LineWorking == TypeOK /\ Fate /\ Line /\ Working => Line'
<1> SUFFICES ASSUME TypeOK, Fate, Line, Working PROVE Line'
  OBVIOUS
<1>1. ASSUME NEW o \in Reads, FinishRead(o) PROVE Line'
  <2>1. o \in Ops /\ "run" \in Kinds(o)
    BY KindsOf
  <2> QED
    BY <1>1, <2>1, LineEnded DEF FinishRead
<1>2. ASSUME NEW o \in Writes \cup Raws, FinishWrite(o) PROVE Line'
  <2>1. o \in Ops /\ "run" \in Kinds(o)
    BY KindsOf
  <2> QED
    BY <1>2, <2>1, LineEnded DEF FinishWrite
<1>3. ASSUME NEW t \in Txs, FinishStmt(t) PROVE Line'
  <2>1. t \in Ops /\ "stmt" \in Kinds(t)
    BY KindsOf
  <2> QED
    BY <1>3, <2>1, LineEnded DEF FinishStmt
<1>4. ASSUME NEW t \in Txs, FinishCommit(t) PROVE Line'
  <2>1. t \in Ops /\ "commit" \in Kinds(t)
    BY KindsOf
  <2>2. PICK ok \in BOOLEAN : Ended(Ask(t, "commit"), ok) /\ open' = IF ok THEN open \ {t} ELSE open
    BY <1>4 DEF FinishCommit
  <2>3. open' \subseteq open /\ (ok => t \notin open')
    BY <2>2
  <2> QED
    BY <2>1, <2>2, <2>3, LineEnded
<1> QED
  BY <1>1, <1>2, <1>3, <1>4, LineDispatch DEF Working

-----------------------------------------------------------------------------
(* The order of the effects.                                                 *)

LEMMA OrderKept ==
  ASSUME TypeOK, InOrder, applied' = applied, queue' = queue,
         \A o \in Chained : op[o] = "timeout" => op'[o] = "timeout"
  PROVE  InOrder'
<1>1. \A i \in DOMAIN queue : queue[i] \in Chained
  BY DEF TypeOK
<1> QED
  BY <1>1 DEF InOrder

LEMMA OrderQueue ==
  ASSUME TypeOK, Fate, InOrder, NEW o \in Chained, Queue(o)
  PROVE  InOrder'
<1>1. /\ op[o] = "idle" /\ queue' = Append(queue, o) /\ applied' = applied
      /\ \A p \in Chained : op[p] = "timeout" => op'[p] = "timeout"
  BY ChainedTypes DEF Queue, Issued, TypeOK, worker
<1>2. ~InDatabase(o)
  BY <1>1, ChainedTypes DEF Fate, OpFate
<1>3. /\ DOMAIN queue = 1..Len(queue) /\ Len(queue) \in Nat
      /\ DOMAIN queue' = 1..(Len(queue) + 1) /\ queue'[Len(queue) + 1] = o
      /\ \A i \in 1..Len(queue) : queue'[i] = queue[i] /\ queue[i] \in Chained
  BY <1>1 DEF TypeOK
<1>4. SUFFICES ASSUME NEW i \in DOMAIN queue', NEW j \in DOMAIN queue',
                      NEW k \in DOMAIN applied, NEW l \in DOMAIN applied,
                      i < j, l < k, applied[k] = queue'[i], applied[l] = queue'[j]
               PROVE  op'[queue'[i]] = "timeout"
  BY <1>1 DEF InOrder
<1>5. i # Len(queue) + 1 /\ j # Len(queue) + 1
  BY <1>2, <1>3, <1>4 DEF InDatabase
<1>6. i \in DOMAIN queue /\ j \in DOMAIN queue /\ queue'[i] = queue[i] /\ queue'[j] = queue[j]
  BY <1>3, <1>5
<1>7. op[queue[i]] = "timeout"
  BY <1>4, <1>6 DEF InOrder
<1> QED
  BY <1>1, <1>3, <1>6, <1>7

LEMMA OrderApplied ==
  ASSUME TypeOK, Fate, Line, InOrder, NEW o \in Ops, o \in Chained => End(o) \in busy,
         applied' = Append(applied, o), UNCHANGED <<op, queue>>
  PROVE  InOrder'
<1>1. /\ DOMAIN applied = 1..Len(applied) /\ Len(applied) \in Nat
      /\ DOMAIN applied' = 1..(Len(applied) + 1) /\ applied'[Len(applied) + 1] = o
      /\ \A i \in 1..Len(applied) : applied'[i] = applied[i]
  BY DEF TypeOK
<1>2. SUFFICES ASSUME NEW i \in DOMAIN queue, NEW j \in DOMAIN queue,
                      NEW k \in DOMAIN applied', NEW l \in DOMAIN applied',
                      i < j, l < k, applied'[k] = queue[i], applied'[l] = queue[j]
               PROVE  op[queue[i]] = "timeout"
  BY DEF InOrder
<1>3. l \in DOMAIN applied /\ applied[l] = queue[j]
  BY <1>1, <1>2
<1>4. CASE k \in DOMAIN applied
  BY <1>1, <1>2, <1>3, <1>4 DEF InOrder
<1>5. CASE k \notin DOMAIN applied
  <2>1. queue[i] = o /\ o \in Chained /\ queue[j] \in Chained
    BY <1>1, <1>2, <1>5 DEF TypeOK
  <2>2. op[queue[j]] \notin {"idle", "queued"}
    BY <1>3, <2>1, ChainedTypes DEF Fate, OpFate, InDatabase
  <2>3. Settled(o)
    BY <1>2, <2>1, <2>2 DEF Line, QueueOrder
  <2>4. Spent(o) /\ Ahead(End(o)) /\ \E n \in Kinds(o) : End(o) = Ask(o, n)
    BY <2>1, TrackedRequests DEF Line, Stages, Ahead
  <2> QED
    BY <2>1, <2>3, <2>4 DEF Spent, Settled, Outcomes
<1> QED
  BY <1>4, <1>5

LEMMA OrderNext == TypeOK /\ Fate /\ Line /\ InOrder /\ Next => InOrder'
<1> SUFFICES ASSUME TypeOK, Fate, Line, InOrder, Next PROVE InOrder'
  OBVIOUS
<1>1. CASE Storing
  <2>1. ASSUME NEW o \in Chained, Queue(o) PROVE InOrder'
    BY <2>1, OrderQueue
  <2>2. ASSUME ~\E o \in Chained : Queue(o) PROVE InOrder'
    <3>1. applied' = applied /\ queue' = queue
      BY <1>1, <2>2 DEF Storing, StartWrite, StartTx, TimeoutTx, Run, TimeoutRun, worker
    <3>2. \A o \in Chained : op[o] = "timeout" => op'[o] = "timeout"
      BY <1>1, <2>2, ChainedTypes, KindsOf
         DEF Storing, StartWrite, StartTx, TimeoutTx, Run, TimeoutRun, Begun, Turn, Issued, TypeOK
    <3> QED
      BY <3>1, <3>2, OrderKept
  <2> QED
    BY <2>1, <2>2
<1>2. CASE Replying
  <2>1. applied' = applied /\ queue' = queue
    BY <1>2 DEF Replying, LateReply, AnswerRun, AnswerBegin, AnswerStmtMore, AnswerStmtLast,
                AnswerStmtThrow, AnswerCommit, AnswerAbort, Unanswered, store
  <2>2. \A o \in Chained : op[o] = "timeout" => op'[o] = "timeout"
    BY <1>2, ChainedTypes
       DEF Replying, LateReply, AnswerRun, AnswerBegin, AnswerStmtMore, AnswerStmtLast,
           AnswerStmtThrow, AnswerCommit, AnswerAbort, Settle, TypeOK, store
  <2> QED
    BY <2>1, <2>2, OrderKept
<1>3. CASE Ending
  <2>1. applied' = applied /\ queue' = queue
    BY <1>3 DEF Ending, RequestTimeout, WorkerDies, ExitSeen, Close, Terminate, Gone, worker, store
  <2>2. \A o \in Chained : op[o] = "timeout" => op'[o] = "timeout"
    BY <1>3, ChainedTypes
       DEF Ending, RequestTimeout, WorkerDies, ExitSeen, Close, Terminate, Settle, TypeOK, store
  <2> QED
    BY <2>1, <2>2, OrderKept
<1>4. CASE Working
  <2>1. UNCHANGED <<op, queue>>
    BY <1>4 DEF Working, Dispatch, FinishRead, FinishWrite, FinishStmt, FinishCommit, Ended, store
  <2>2. CASE applied' = applied
    BY <2>1, <2>2, OrderKept
  <2>3. ASSUME NEW o \in Writes \cup Raws, FinishWrite(o), applied' # applied PROVE InOrder'
    <3>1. Ask(o, "run") \in busy /\ applied' = Append(applied, o)
      BY <2>3 DEF FinishWrite, Ended
    <3>2. o \in Ops /\ End(o) = Ask(o, "run")
      BY KindsOf
    <3> QED
      BY <2>1, <3>1, <3>2, OrderApplied
  <2>4. ASSUME NEW t \in Txs, FinishCommit(t), applied' # applied PROVE InOrder'
    <3>1. Ask(t, "commit") \in busy /\ applied' = Append(applied, t)
      BY <2>4 DEF FinishCommit, Ended
    <3>2. t \in Ops /\ End(t) = Ask(t, "commit")
      BY KindsOf
    <3> QED
      BY <2>1, <3>1, <3>2, OrderApplied
  <2> QED
    BY <1>4, <2>2, <2>3, <2>4 DEF Working, Dispatch, FinishRead, FinishStmt
<1> QED
  BY <1>1, <1>2, <1>3, <1>4 DEF Next

-----------------------------------------------------------------------------
(* The theorem.                                                              *)

\* Who has something in the worker runs, or has failed and is about to be aborted, or
\* has been told it timed out.
LEMMA LineParts == TypeOK /\ Fate /\ Line => WritersApart
<1> SUFFICES ASSUME TypeOK, Fate, Line PROVE WritersApart
  OBVIOUS
<1>1. ASSUME NEW o \in Chained, Inside(o), op[o] # "timeout"
      PROVE  op[o] = "running" \/ (op[o] = "error" /\ o \in open /\ o \in Txs)
  <2>1. op[o] \notin {"idle", "queued"}
    BY <1>1, NothingInside DEF Line, Stages
  <2>2. open \subseteq Txs /\ op[o] \in {"idle", "queued", "running"} \cup Outcomes
    BY ChainedTypes DEF TypeOK
  <2>3. CASE o \in open
    BY <1>1, <2>1, <2>2, <2>3 DEF Line, Stages, Kept, Outcomes
  <2>4. CASE o \notin open
    <3>1. PICK r \in busy : r.op = o
      BY <1>1, <2>4 DEF Inside
    <3>2. PICK p \in Ops : \E k \in Kinds(p) : r = Ask(p, k)
      BY <3>1 DEF Line, Inboxed, Tracked
    <3>3. PICK k \in Kinds(o) : r = Ask(o, k)
      BY <3>1, <3>2 DEF Ask
    <3>4. Ahead(Ask(o, k)) /\ Spent(o)
      BY <3>1, <3>3 DEF Ahead, Line, Stages
    <3> QED
      BY <1>1, <2>1, <2>2, <3>4 DEF Spent, Outcomes
  <2> QED
    BY <2>3, <2>4
<1>2. ASSUME NEW o \in Chained, NEW p \in Chained, o # p, Inside(o), Inside(p),
             op[o] # "timeout", op[p] # "timeout"
      PROVE  FALSE
  <2>1. /\ op[o] = "running" \/ (op[o] = "error" /\ o \in open /\ o \in Txs)
        /\ op[p] = "running" \/ (op[p] = "error" /\ p \in open /\ p \in Txs)
    BY <1>1, <1>2
  <2>2. (p \in Txs => Clear(o, p)) /\ (o \in Txs => Clear(p, o))
    BY DEF Line, Stages
  <2>3. ~(op[o] = "running" /\ op[p] = "running")
    BY <1>2, OneRuns DEF Line
  <2> QED
    BY <1>2, <2>1, <2>2, <2>3 DEF Clear
<1> QED
  BY <1>2 DEF WritersApart

LEMMA LineInitially == Init => Line /\ InOrder
<1> SUFFICES ASSUME Init PROVE Line /\ InOrder
  OBVIOUS
<1>1. /\ queue = <<>> /\ inbox = <<>> /\ busy = {} /\ open = {} /\ applied = <<>>
      /\ alive = TRUE /\ fatal = FALSE /\ \A o \in Chained : op[o] = "idle"
  BY ChainedTypes DEF Init
<1>2. \A x : ~In(x, queue) /\ ~In(x, inbox)
  BY <1>1 DEF In
<1>3. QueueOrder
  BY <1>1, <1>2 DEF QueueOrder
<1>4. Inboxed /\ DeadIsEmpty
  BY <1>1, <1>2 DEF Inboxed, DeadIsEmpty, InBox
<1>5. Stages
  BY <1>1 DEF Stages, Spent, Kept, Clear
<1>6. InOrder
  BY <1>1 DEF InOrder
<1> QED
  BY <1>3, <1>4, <1>5, <1>6 DEF Line

LEMMA LineStuttering == TypeOK /\ Fate /\ Line /\ UNCHANGED vars => Line'
<1> SUFFICES ASSUME TypeOK, Fate, Line, UNCHANGED vars PROVE Line'
  OBVIOUS
<1>1. UNCHANGED <<op, queue, pending, inbox, fatal, closed, worker>>
  BY DEF vars, store
<1>2. QueueOrder'
  BY <1>1, QueueCalm DEF Line, Calm
<1>3. PICK a : a \notin Ops
  BY NoSetContainsEverything
<1>4. a \notin Chained
  BY <1>3, ChainedTypes
<1> QED
  BY <1>1, <1>2, <1>4, LineStill

\* The write chain: one writer at a time in the worker, and effects in the order of the
\* calls, but for those whose callers were told they timed out.
THEOREM OneWriterInOrder == Spec => []ChainInOrder
<1>1. Init => Inv /\ Fate /\ Line /\ InOrder
  BY Initially, FateInitially, LineInitially
<1>2. Inv /\ Fate /\ Line /\ InOrder /\ [Next]_vars => (Inv /\ Fate /\ Line /\ InOrder)'
  <2>1. ASSUME Inv, Fate, Line, InOrder, [Next]_vars PROVE Fate' /\ Line' /\ InOrder'
    <3>1. TypeOK
      BY <2>1 DEF Inv
    <3>2. CASE Next
      BY <2>1, <3>1, <3>2, FateStoring, FateReplying, FateEnding, FateWorking,
         LineStoring, LineReplying, LineEnding, LineWorking, OrderNext DEF Next
    <3>3. CASE UNCHANGED vars
      <4>1. InOrder'
        BY <2>1, <3>1, <3>3, OrderKept DEF vars, store, worker
      <4> QED
        BY <2>1, <3>1, <3>3, <4>1, FateStuttering, LineStuttering
    <3> QED
      BY <2>1, <3>2, <3>3
  <2> QED
    BY <2>1, Inductive
<1>3. Inv /\ Fate /\ Line /\ InOrder => ChainInOrder
  BY LineParts DEF ChainInOrder, Inv
<1> QED
  BY <1>1, <1>2, <1>3, PTL DEF Spec
=============================================================================
