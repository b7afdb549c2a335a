--------------------------- MODULE GraphDatabase ---------------------------
(* The graph database of a proxy: CozoGraphStore, which queues writes and gives
   each operation a timeout, over CozoWorkerClient, which relays requests to a
   worker thread behind a circuit breaker, over the worker that owns the database.

   Nothing cancels native work: an operation whose caller was told it timed out may
   still be in the worker.  The timers of equal duration fire in the order they were
   armed; the store's (12, 60 and 120 s) fire before the client's (120 s) of the same
   operation; otherwise a timer may fire whenever it is armed.                 *)
EXTENDS Integers, Sequences, SequencesExt

CONSTANTS Writes,       \* write(): on the chain
          Txs,          \* transact(): on the chain
          Reads,        \* query(): an immutable snapshot
          Raws,         \* db.run() called directly: off the chain, no timer of the store
          Statements,   \* bound on the statements of a transaction
          DegradeAfter, \* DEGRADE_AFTER_CONSECUTIVE_TIMEOUTS
          RecycleAfter, \* PERSISTENT_DEGRADATION_TIMEOUTS
          Loads,        \* bound on the operations issued: those of one of these sets
          None

Chained == Writes \cup Txs
Ops == Chained \cup Reads \cup Raws

ASSUME DatabaseAssumption ==
  /\ Statements \in Nat \ {0} /\ DegradeAfter \in Nat \ {0} /\ RecycleAfter \in Nat
  /\ DegradeAfter <= RecycleAfter
  /\ Writes \cap Txs = {} /\ Chained \cap (Reads \cup Raws) = {} /\ Reads \cap Raws = {}

TxKinds == {"begin", "stmt", "commit", "abort"}
Request == [op : Ops \cup {None}, kind : {"run", "close"}] \cup [op : Txs, kind : TxKinds]
Ask(o, kind) == [op |-> o, kind |-> kind]
CloseAsk == Ask(None, "close")
NoRequest == Ask(None, "run")

VARIABLES op,        \* what the caller of each operation knows
          queue,     \* the operations put on writeChain, in that order
          cb,        \* the transaction's callback: what it waits for
          stmt,      \* its statements that have been answered
          abortDue,  \* the transactions whose abort() waits for their begin
          pending,   \* requests whose promise is open, in posting order
          timeouts,  \* consecutiveTimeouts, up to RecycleAfter
          degraded, probe, recycled, fatal, closed,
          inbox,     \* messages to the worker
          busy,      \* requests in native code
          replies,   \* messages from the worker
          open,      \* txs: the write transactions the worker keeps
          staged,    \* the statements each has run
          applied,   \* the operations in the database, in the order they took effect
          alive

store == <<op, queue, cb, stmt, abortDue>>
breaker == <<timeouts, degraded, recycled>>
worker == <<busy, replies, open, staged, applied, alive>>
vars == <<store, pending, probe, breaker, fatal, closed, inbox, worker>>

Outcomes == {"done", "error", "timeout"}
Settled(o) == op[o] \in Outcomes
Reply == [req : Request, ok : BOOLEAN]

TypeOK ==
  /\ op \in [Ops -> {"idle", "queued", "running"} \cup Outcomes]
  /\ queue \in Seq(Chained)
  /\ cb \in [Txs -> {"idle", "begin", "stmt", "returned", "threw"}]
  /\ stmt \in [Txs -> Nat] /\ staged \in [Txs -> Nat]
  /\ abortDue \subseteq Txs
  /\ pending \in Seq(Request) /\ inbox \in Seq(Request) /\ replies \in Seq(Reply)
  /\ probe \in Request /\ busy \subseteq Request
  /\ timeouts \in 0..RecycleAfter
  /\ degraded \in BOOLEAN /\ recycled \in BOOLEAN /\ fatal \in BOOLEAN /\ closed \in BOOLEAN
  /\ open \subseteq Txs
  /\ applied \in Seq(Ops) /\ alive \in BOOLEAN

Init ==
  /\ op = [o \in Ops |-> "idle"] /\ queue = <<>>
  /\ cb = [t \in Txs |-> "idle"] /\ stmt = [t \in Txs |-> 0] /\ abortDue = {}
  /\ pending = <<>> /\ probe = NoRequest /\ timeouts = 0
  /\ degraded = FALSE /\ recycled = FALSE /\ fatal = FALSE /\ closed = FALSE
  /\ inbox = <<>> /\ busy = {} /\ replies = <<>> /\ open = {}
  /\ staged = [t \in Txs |-> 0] /\ applied = <<>> /\ alive = TRUE

-----------------------------------------------------------------------------
(* The client.                                                               *)

\* request(), postRequest(): the guards a new request meets.
Admits(deg, prb) == ~closed /\ ~fatal /\ ~(deg /\ prb # NoRequest)

\* A request that is let through is pending, and the probe if the breaker is open.
\* pend, deg and prb are what the step has made of them before it posts.
Send(rs, pend, deg, prb) ==
  /\ pending' = pend \o rs
  /\ inbox' = IF alive THEN inbox \o rs ELSE inbox
  /\ probe' = IF deg /\ rs # <<>> THEN rs[1] ELSE prb

Post(rs, pend, deg, prb) ==
  Send(IF Admits(deg, prb) THEN rs ELSE <<>>, pend, deg, prb)

\* The probe that is left once r has been answered or has timed out.
ProbeLeft(r) == IF r = probe THEN NoRequest ELSE probe

\* A worker that is gone takes its messages, its replies under way (those that arrived
\* came before) and its open transactions with it.
Gone ==
  /\ alive' = FALSE /\ inbox' = <<>> /\ busy' = {} /\ replies' = <<>> /\ open' = {}
  /\ UNCHANGED <<staged, applied>>

-----------------------------------------------------------------------------
(* The store.                                                                *)

\* The callers of the store issue one of the loads, in any order.
Issued(o) == op[o] = "idle" /\ \E load \in Loads : {p \in Ops : op[p] # "idle"} \cup {o} \subseteq load

Queue(o) ==
  /\ Issued(o)
  /\ op' = [op EXCEPT ![o] = "queued"] /\ queue' = Append(queue, o)
  /\ UNCHANGED <<cb, stmt, abortDue, pending, probe, breaker, fatal, closed, inbox, worker>>

\* Mutant of Turn: the writes are not serialized.
AnyTurn(o) == op[o] = "queued"
\* Mutant of Turn: the chain is not kept alive on failure.
TurnIfDone(o) ==
  /\ op[o] = "queued"
  /\ \A i, j \in DOMAIN queue : j < i /\ queue[i] = o => op[queue[j]] = "done"
\* writeChain: an operation starts once all before it have settled.
Turn(o) ==
  /\ op[o] = "queued"
  /\ \A i, j \in DOMAIN queue : j < i /\ queue[i] = o => Settled(queue[j])

Begun(o) == op' = [op EXCEPT ![o] = IF Admits(degraded, probe) THEN "running" ELSE "error"]

StartWrite(w) ==
  /\ Turn(w) /\ Begun(w) /\ Post(<<Ask(w, "run")>>, pending, degraded, probe)
  /\ UNCHANGED <<queue, cb, stmt, abortDue, breaker, fatal, closed, worker>>

\* beginTx(true), and the callback up to its first statement, which awaits the begin.
StartTx(t) ==
  /\ Turn(t) /\ Begun(t) /\ Post(<<Ask(t, "begin")>>, pending, degraded, probe)
  /\ cb' = [cb EXCEPT ![t] = IF Admits(degraded, probe) THEN "begin" ELSE "threw"]
  /\ UNCHANGED <<queue, stmt, abortDue, breaker, fatal, closed, worker>>

\* query(), or a direct db.run().
Run(o) ==
  /\ Issued(o) /\ Begun(o) /\ Post(<<Ask(o, "run")>>, pending, degraded, probe)
  /\ UNCHANGED <<queue, cb, stmt, abortDue, breaker, fatal, closed, worker>>

\* The store's timer of a write or a query.
TimeoutRun(o) ==
  /\ op[o] = "running" /\ op' = [op EXCEPT ![o] = "timeout"]
  /\ UNCHANGED <<queue, cb, stmt, abortDue, pending, probe, breaker, fatal, closed,
                 inbox, worker>>

\* The timer of a transaction: its callback goes on, its abort is posted, or
\* waits for the begin.
TimeoutTx(t) ==
  /\ op[t] = "running" /\ cb[t] \in {"begin", "stmt"}
  /\ op' = [op EXCEPT ![t] = "timeout"]
  /\ abortDue' = IF cb[t] = "begin" THEN abortDue \cup {t} ELSE abortDue
  /\ Post(IF cb[t] = "begin" THEN <<>> ELSE <<Ask(t, "abort")>>, pending, degraded, probe)
  /\ UNCHANGED <<queue, cb, stmt, breaker, fatal, closed, worker>>

\* Mutant of Settle: the rejection of the request is swallowed.
SettleDone(o, outcome) == op' = [op EXCEPT ![o] = IF @ = "running" THEN "done" ELSE @]
\* The caller learns the outcome, unless it was told another before.
Settle(o, outcome) == op' = [op EXCEPT ![o] = IF @ = "running" THEN outcome ELSE @]

-----------------------------------------------------------------------------
(* Replies.                                                                  *)

IsPending(r) == \E i \in DOMAIN pending : pending[i] = r
Position(r) == CHOOSE i \in DOMAIN pending : pending[i] = r
Forget(r) == RemoveAt(pending, Position(r))

\* onMessage of a request that has timed out, or was failed.
LateReply ==
  /\ replies # <<>> /\ ~IsPending(Head(replies).req) /\ replies' = Tail(replies)
  /\ UNCHANGED <<store, pending, probe, breaker, fatal, closed, inbox,
                 busy, open, staged, applied, alive>>

\* onMessage and noteReply: any reply in time lifts the breaker.  rs is what the
\* continuation of the request posts.
Answered(r, ok, rs) ==
  /\ replies # <<>> /\ Head(replies) = [req |-> r, ok |-> ok] /\ IsPending(r)
  /\ replies' = Tail(replies) /\ timeouts' = 0 /\ degraded' = FALSE
  /\ Post(rs, Forget(r), FALSE, ProbeLeft(r))
  /\ UNCHANGED recycled

Unanswered == UNCHANGED <<fatal, closed, busy, open, staged, applied, alive>>

AnswerRun(o) ==
  \E ok \in BOOLEAN :
    /\ Answered(Ask(o, "run"), ok, <<>>) /\ Settle(o, IF ok THEN "done" ELSE "error")
    /\ UNCHANGED <<queue, cb, stmt, abortDue>> /\ Unanswered

\* Both the callback and an abort() that came early wait for the begin.
AnswerBegin(t) ==
  /\ Answered(Ask(t, "begin"), TRUE,
              <<Ask(t, "stmt")>> \o IF t \in abortDue THEN <<Ask(t, "abort")>> ELSE <<>>)
  /\ cb' = [cb EXCEPT ![t] = IF closed THEN "threw" ELSE "stmt"]
  /\ IF closed THEN Settle(t, "error") ELSE UNCHANGED op
  /\ abortDue' = abortDue \ {t}
  /\ UNCHANGED <<queue, stmt>> /\ Unanswered

Counted(t, ok) == stmt' = [stmt EXCEPT ![t] = IF ok THEN @ + 1 ELSE @]

\* The callback runs another statement.  Some callbacks swallow the failure of one, as the
\* annotations of the incremental indexer do, and go on all the same.
AnswerStmtMore(t) ==
  \E ok \in BOOLEAN :
    /\ stmt[t] + 1 < Statements
    /\ Answered(Ask(t, "stmt"), ok, <<Ask(t, "stmt")>>) /\ Counted(t, ok)
    /\ cb' = [cb EXCEPT ![t] = IF closed THEN "threw" ELSE "stmt"]
    /\ IF closed THEN Settle(t, "error") ELSE UNCHANGED op
    /\ UNCHANGED <<queue, abortDue>> /\ Unanswered

\* The callback returned: the transaction commits, unless its timer has fired.
CommitOf(t) == IF op[t] = "running" THEN <<Ask(t, "commit")>> ELSE <<>>

AnswerStmtLast(t) ==
  \E ok \in BOOLEAN :
    /\ Answered(Ask(t, "stmt"), ok, CommitOf(t)) /\ Counted(t, ok)
    /\ cb' = [cb EXCEPT ![t] = "returned"]
    /\ IF closed THEN Settle(t, "error") ELSE UNCHANGED op
    /\ UNCHANGED <<queue, abortDue>> /\ Unanswered

\* Mutant of AbortOf: a callback that throws is not aborted.
AbortNever(t) == <<>>
\* Mutant of AbortOf: it is committed, with the statements it has run.
AbortCommits(t) == IF op[t] = "running" THEN <<Ask(t, "commit")>> ELSE <<>>
\* The transaction failed in time: it is aborted.
AbortOf(t) == IF op[t] = "running" THEN <<Ask(t, "abort")>> ELSE <<>>

\* The statement failed, or the callback threw behind it.
AnswerStmtThrow(t) ==
  \E ok \in BOOLEAN :
    /\ Answered(Ask(t, "stmt"), ok, AbortOf(t)) /\ Settle(t, "error") /\ Counted(t, ok)
    /\ cb' = [cb EXCEPT ![t] = "threw"]
    /\ UNCHANGED <<queue, abortDue>> /\ Unanswered

AnswerCommit(t) ==
  \E ok \in BOOLEAN :
    /\ Answered(Ask(t, "commit"), ok, IF ok THEN <<>> ELSE <<Ask(t, "abort")>>)
    /\ Settle(t, IF ok THEN "done" ELSE "error")
    /\ UNCHANGED <<queue, cb, stmt, abortDue>> /\ Unanswered

AnswerAbort(t) ==
  /\ Answered(Ask(t, "abort"), TRUE, <<>>)
  /\ UNCHANGED store /\ Unanswered

-----------------------------------------------------------------------------
(* The client's timers, the end of the worker, the end of the client.        *)

Up(n) == IF n < RecycleAfter THEN n + 1 ELSE n

\* noteTimeout, and the rejection of the request's promise.
RequestTimeout ==
  /\ pending # <<>>
  /\ LET r == Head(pending)
         t == r.op
         failed == r.kind = "commit"
     IN /\ r.kind \in {"commit", "abort"} \/ (r.kind # "close" /\ (Settled(t) \/ t \in Raws))
        /\ timeouts' = Up(timeouts)
        /\ degraded' = (degraded \/ Up(timeouts) >= DegradeAfter)
        /\ recycled' = (recycled \/ Up(timeouts) >= RecycleAfter)
        /\ Post(IF failed THEN <<Ask(t, "abort")>> ELSE <<>>, Tail(pending),
                degraded', ProbeLeft(r))
        /\ Settle(t, "timeout")
        /\ cb' = IF r.kind \in {"begin", "stmt"} THEN [cb EXCEPT ![t] = "threw"] ELSE cb
        /\ abortDue' = IF r.kind = "begin" THEN abortDue \ {t} ELSE abortDue
  /\ UNCHANGED <<queue, stmt, fatal, closed, worker>>

WorkerDies == alive /\ Gone /\ UNCHANGED <<store, pending, probe, breaker, fatal, closed>>

Failed == {pending[i].op : i \in DOMAIN pending}

\* Mutant of failAll: the probe is not cleared.
FailPending == pending' = <<>> /\ UNCHANGED probe
failAll == pending' = <<>> /\ probe' = NoRequest

\* onWorkerDeath: every open promise is rejected, and every later request.
ExitSeen ==
  /\ ~alive /\ ~fatal /\ ~closed
  /\ fatal' = TRUE /\ failAll
  /\ op' = [o \in Ops |-> IF op[o] = "running" /\ o \in Failed THEN "error" ELSE op[o]]
  /\ cb' = [t \in Txs |-> IF cb[t] \in {"begin", "stmt"} THEN "threw" ELSE cb[t]]
  /\ abortDue' = {}
  /\ UNCHANGED <<queue, stmt, breaker, closed, inbox, worker>>

\* close(): the close op goes ahead of terminate(), unless the breaker is open.
Close ==
  /\ ~closed /\ closed' = TRUE
  /\ IF degraded \/ fatal
     THEN Gone /\ UNCHANGED <<pending, probe>>
     ELSE /\ Send(<<CloseAsk>>, pending, degraded, probe)
          /\ UNCHANGED worker
  /\ UNCHANGED <<store, breaker, fatal>>

\* The close op is answered, in time or not: terminate().
Terminate ==
  /\ IsPending(CloseAsk) /\ pending' = Forget(CloseAsk) /\ probe' = ProbeLeft(CloseAsk)
  /\ \/ /\ replies # <<>> /\ Head(replies).req = CloseAsk
        /\ timeouts' = 0 /\ degraded' = FALSE /\ UNCHANGED recycled
     \/ /\ Head(pending) = CloseAsk
        /\ timeouts' = Up(timeouts)
        /\ degraded' = (degraded \/ Up(timeouts) >= DegradeAfter)
        /\ recycled' = (recycled \/ Up(timeouts) >= RecycleAfter)
  /\ Gone /\ UNCHANGED <<store, fatal, closed>>

-----------------------------------------------------------------------------
(* The worker: a message handler runs up to its await, and goes on when the
   native call ends.                                                         *)

Answer(r, ok) == replies' = Append(replies, [req |-> r, ok |-> ok])

Known(r) == r.kind \in {"stmt", "commit"} => r.op \in open

Dispatch ==
  /\ alive /\ inbox # <<>> /\ inbox' = Tail(inbox)
  /\ LET r == Head(inbox)
     IN \/ /\ r.kind \in {"run", "stmt", "commit"} /\ Known(r)
           /\ busy' = busy \cup {r} /\ UNCHANGED <<open, replies>>
        \/ ~Known(r) /\ Answer(r, FALSE) /\ UNCHANGED <<busy, open>>
        \/ /\ r.kind = "begin" /\ open' = open \cup {r.op}
           /\ Answer(r, TRUE) /\ UNCHANGED busy
        \/ /\ r.kind = "abort" /\ open' = open \ {r.op}
           /\ Answer(r, TRUE) /\ UNCHANGED busy
        \/ r.kind = "close" /\ Answer(r, TRUE) /\ UNCHANGED <<busy, open>>
  /\ UNCHANGED <<store, pending, probe, breaker, fatal, closed, staged, applied, alive>>

\* The single-writer lock: an open transaction holds it from its first statement.  A call
\* that needs it waits, or ends with an error ("database is locked").
LockedFor(o) == \E t \in open \ {o} : staged[t] > 0

Ended(r, ok) ==
  /\ r \in busy /\ busy' = busy \ {r} /\ Answer(r, ok)
  /\ UNCHANGED <<store, pending, probe, breaker, fatal, closed, inbox, alive>>

FinishRead(o) == \E ok \in BOOLEAN : Ended(Ask(o, "run"), ok) /\ UNCHANGED <<open, staged, applied>>

FinishWrite(o) ==
  \E ok \in BOOLEAN :
    /\ ok => ~LockedFor(o)
    /\ Ended(Ask(o, "run"), ok)
    /\ applied' = IF ok THEN Append(applied, o) ELSE applied
    /\ UNCHANGED <<open, staged>>

\* A statement in flight when its transaction is aborted ends, and leaves nothing.
FinishStmt(t) ==
  \E ok \in BOOLEAN :
    /\ ok /\ t \in open => ~LockedFor(t)
    /\ Ended(Ask(t, "stmt"), ok)
    /\ staged' = IF ok /\ t \in open THEN [staged EXCEPT ![t] = @ + 1] ELSE staged
    /\ UNCHANGED <<open, applied>>

\* An abort that arrives while the commit is in native code may come too late.
FinishCommit(t) ==
  \E ok \in BOOLEAN :
    /\ ok /\ t \in open => ~LockedFor(t)
    /\ Ended(Ask(t, "commit"), ok)
    /\ applied' = IF ok THEN Append(applied, t) ELSE applied
    /\ open' = IF ok THEN open \ {t} ELSE open
    /\ UNCHANGED staged

-----------------------------------------------------------------------------
Storing ==
  \/ \E o \in Chained : Queue(o)
  \/ \E w \in Writes : StartWrite(w)
  \/ \E t \in Txs : StartTx(t) \/ TimeoutTx(t)
  \/ \E o \in Reads \cup Raws : Run(o)
  \/ \E o \in Writes \cup Reads : TimeoutRun(o)
Replying ==
  \/ LateReply
  \/ \E o \in Writes \cup Reads \cup Raws : AnswerRun(o)
  \/ \E t \in Txs : \/ AnswerBegin(t) \/ AnswerStmtMore(t) \/ AnswerStmtLast(t)
                    \/ AnswerStmtThrow(t) \/ AnswerCommit(t) \/ AnswerAbort(t)
Ending == RequestTimeout \/ WorkerDies \/ ExitSeen \/ Close \/ Terminate
Working ==
  \/ Dispatch
  \/ \E o \in Reads : FinishRead(o)
  \/ \E o \in Writes \cup Raws : FinishWrite(o)
  \/ \E t \in Txs : FinishStmt(t) \/ FinishCommit(t)

Next == Storing \/ Replying \/ Ending \/ Working

Spec == Init /\ [][Next]_vars

\* The chain moves on, and timers that are armed fire, each of them once.  Nothing is
\* assumed of the worker but that it takes its messages; native calls may never end.
Starts == (\E w \in Writes : StartWrite(w)) \/ (\E t \in Txs : StartTx(t))
Timers == (\E o \in Writes \cup Reads : TimeoutRun(o)) \/ (\E t \in Txs : TimeoutTx(t))
Fairness == /\ WF_vars(Starts) /\ WF_vars(Timers) /\ WF_vars(RequestTimeout)
            /\ WF_vars(Terminate) /\ WF_vars(ExitSeen) /\ WF_vars(Dispatch)
FairSpec == Spec /\ Fairness

-----------------------------------------------------------------------------
InDatabase(o) == \E i \in DOMAIN applied : applied[i] = o

(* Safety.                                                                   *)

\* The probe of an open breaker is a request that will be answered or will time out,
\* through replies, timeouts, the end of the worker and of the client: were it ever
\* gone, every later request would be rejected fast for good (postRequest's guard).
ProbeInFlight == probe # NoRequest => IsPending(probe)

Writing == Writes \cup Txs \cup Raws

\* A write or transaction that is reported done is in the database.
DoneIsApplied == \A o \in Writing : op[o] = "done" => InDatabase(o)

\* One that is reported failed, not timed out, is not and will not be, unless the worker
\* died before its reply.
ErrorIsNotApplied == \A o \in Writing : op[o] = "error" /\ InDatabase(o) => fatal

\* transact(): a transaction is in the database only if its callback returned, with all
\* the statements the callback was told had succeeded and none of the others, whatever
\* timed out on the way.  That is all of its statements only for a callback that does
\* not swallow the failure of one.
TxWhole ==
  \A t \in Txs : InDatabase(t) => cb[t] = "returned" /\ staged[t] = stmt[t]

\* What is in the database belongs there: no failed write, no part of a transaction.
AppliedWhole == ErrorIsNotApplied /\ TxWhole

\* What an operation of the chain has in the worker: native work, or an open transaction.
Inside(o) == o \in open \/ \E r \in busy : r.op = o

\* Of the chain's operations two are in the worker together only when the caller of
\* one has been told it timed out.
WritersApart ==
  \A o, p \in Chained : o # p /\ Inside(o) /\ Inside(p) => "timeout" \in {op[o], op[p]}

\* The chain's operations take effect in the order they were issued, but for one that
\* timed out, which a later one may overtake.
InOrder ==
  \A i, j \in DOMAIN queue, k, l \in DOMAIN applied :
    i < j /\ l < k /\ applied[k] = queue[i] /\ applied[l] = queue[j] => op[queue[i]] = "timeout"

\* The write chain: one writer at a time, in the order of the calls.
ChainInOrder == WritersApart /\ InOrder

-----------------------------------------------------------------------------
(* Liveness.                                                                 *)

\* Every operation ends for its caller, whatever the worker does: no promise of the
\* store stays open, and a failed operation does not stop the chain.
EverySettles == \A o \in Ops : (op[o] # "idle") ~> Settled(o)

\* A transaction that fails in time is discarded on the worker, and the lock with it.
FailedIsDiscarded == \A t \in Txs : (op[t] = "error") ~> (t \notin open)

\* CozoTxProxy.abort: "the tx is discarded on the worker regardless", so also when it
\* timed out.
GivenUpIsDiscarded == \A t \in Txs : (op[t] = "timeout") ~> (t \notin open)
=============================================================================
