-------------------------- MODULE BridgeRelay_proofs --------------------------
(* A request is answered once at most, whoever answers, but for the refusal that
   ends the bridge: BridgeRelay implements Conversation for any number of requests
   and of upsets.                                                            *)
EXTENDS BridgeRelay, TLAPS

\* What has not been asked is not answered; nothing is answered twice before the end.
CountsAtMostOne ==
  \A r \in Requests :
    /\ phase # "ended" => answers[r] \in {0, 1}
    /\ r \notin asked => answers[r] = 0

\* A refusal answers an initialize that was asked.
SniffedAsked == sniffed => Initialize \in asked

Open(r) == r \in asked /\ answers[r] = 0

\* A request that waits for a connection, for the proxy or for the fallback has no
\* answer yet: each of these may give one.
WaitersOpen ==
  /\ \A r \in held \cup inflight : Open(r)
  /\ pending \subseteq inflight

\* A frame of the proxy answers a request in flight or one the catalogue answered
\* before, never both, and the proxy does not answer twice.
ProxyFramesKnown ==
  /\ atProxy \cup wire \subseteq inflight \cup late
  /\ late \cap inflight = {} /\ atProxy \cap wire = {}
  /\ late \subseteq asked

\* Before and after a connection the catalogue is empty; during it nothing is held.
PhasesApart ==
  /\ phase \notin {"relaying", "dying"} =>
       pending = {} /\ late = {} /\ inflight = {} /\ timers = {} /\ atProxy = {} /\ wire = {}
  /\ phase \in {"relaying", "dying"} => held = {}

Core == CountsAtMostOne /\ SniffedAsked /\ WaitersOpen /\ ProxyFramesKnown /\ PhasesApart
IInv == TypeOK /\ Core

-----------------------------------------------------------------------------
(* Type correctness.                                                         *)

LEMMA AnsweredType ==
  ASSUME TypeOK, NEW S
  PROVE  /\ Answered(S) \in [Requests -> Nat]
         /\ \A r \in Requests :
              Answered(S)[r] = IF r \in S THEN answers[r] + 1 ELSE answers[r]
BY DEF TypeOK, Answered

LEMMA AnsweredOneType ==
  ASSUME TypeOK, NEW q \in Requests
  PROVE  Answered({q}) \in [Requests -> Nat]
BY AnsweredType

LEMMA TakeType ==
  ASSUME TypeOK, NEW r \in Requests, Take(r)
  PROVE  /\ answers' \in [Requests -> Nat]
         /\ held' \subseteq Requests /\ pending' \subseteq Requests
         /\ late' \subseteq Requests /\ inflight' \subseteq Requests
         /\ timers' \subseteq Requests /\ atProxy' \subseteq Requests
         /\ lost' \subseteq Requests
BY AnsweredOneType, ConstantsAssumption DEF TypeOK, Take, Ingest, Armed, catalog

LEMMA CleanupType ==
  ASSUME TypeOK, NEW next \in Phases, NEW S, Cleanup(next, S), upsets' \in 0..MaxUpsets,
         peer' = peer
  PROVE  TypeOK'
<1>1. answers' \in [Requests -> Nat]
  BY AnsweredType DEF Cleanup
<1>2. stdin' \in Ends
  BY DEF TypeOK, Cleanup, Ends
<1>3. missed' \in 0..(MAX_MISSED_HEARTBEATS - 1)
  BY DEF Cleanup, MAX_MISSED_HEARTBEATS
<1>4. ping' \in BOOLEAN /\ kept' \in BOOLEAN /\ sniffed' \in BOOLEAN
  BY Zenon DEF Cleanup, TypeOK
<1>5. QED
  BY <1>1, <1>2, <1>3, <1>4 DEF TypeOK, Cleanup

\* Every variable keeps its type in every step.
LEMMA TypeStep == TypeOK /\ [Next]_vars => TypeOK'
<1> SUFFICES ASSUME TypeOK, [Next]_vars PROVE TypeOK'
  OBVIOUS
<1> USE ConstantsAssumption
<1>1. ASSUME NEW r \in Requests, Ask(r) PROVE TypeOK'
  <2>1. sniffed' \in BOOLEAN
    BY <1>1, Zenon DEF Ask
  <2>2. QED
    BY <1>1, <2>1, TakeType DEF Ask, TypeOK
<1>2. ASSUME NEW r \in Requests, AskHalf(r) PROVE TypeOK'
  BY <1>2 DEF AskHalf, TypeOK, catalog, link
<1>3. ASSUME NEW r \in Requests, ProxyAnswers(r) PROVE TypeOK'
  BY <1>3 DEF ProxyAnswers, TypeOK, ide, catalog
<1>4. ASSUME NEW r \in Requests, IngestFromProxy(r) PROVE TypeOK'
  <2>1. answers' \in [Requests -> Nat]
    BY <1>4, AnsweredOneType DEF IngestFromProxy, TypeOK
  <2>2. QED
    BY <1>4, <2>1 DEF IngestFromProxy, TypeOK, ide, MAX_MISSED_HEARTBEATS
<1>5. ASSUME NEW r \in Requests, FallbackFires(r) PROVE TypeOK'
  <2>1. answers' \in [Requests -> Nat]
    BY <1>5, AnsweredOneType DEF FallbackFires, TypeOK
  <2>2. QED
    BY <1>5, <2>1 DEF FallbackFires, TypeOK, ide, link
<1>6. CASE AskRest
  <2>1. half \in Requests
    BY <1>6 DEF AskRest, TypeOK
  <2>2. CASE Take(half)
    BY <1>6, <2>1, <2>2, TakeType DEF AskRest, TypeOK
  <2>3. CASE ~Take(half)
    BY <1>6, <2>1, <2>3 DEF AskRest, TypeOK, catalog
  <2>4. QED
    BY <2>2, <2>3
<1>7. CASE IdeLeaves
  BY <1>7 DEF IdeLeaves, TypeOK, Ends, ide, catalog, link
<1>8. CASE Found
  BY <1>8 DEF Found, TypeOK, Phases, Intercepting, ide, catalog
<1>8a. CASE Refused
  <2>1. answers' \in [Requests -> Nat]
    BY <1>8a, AnsweredOneType DEF Refused, TypeOK
  <2>2. QED
    BY <1>8a, <2>1 DEF Refused, TypeOK, Phases, ide, catalog, link
<1>9. CASE Announced
  BY <1>9 DEF Announced, TypeOK, Phases, Bridging, ide, catalog, link
<1>10. CASE Connected
  BY <1>10 DEF Connected, Ingest, Armed, TypeOK, Phases, Bridging, ide
<1>11. CASE ConnectFails
  BY <1>11, CleanupType DEF ConnectFails, TypeOK, Phases
<1>12. CASE Destroyed
  BY <1>12 DEF Destroyed, TypeOK, Phases, Bridging, ide, catalog
<1>13. CASE Close
  <2>1. PICK next \in {"reporting", "failing"} : Cleanup(next, Drained)
    BY <1>13 DEF Close
  <2>2. QED
    BY <1>13, <2>1, CleanupType DEF Close, TypeOK, Phases
<1>14. CASE GraceOver
  BY <1>14, CleanupType DEF GraceOver, TypeOK, Phases
<1>15. CASE Reported \/ Wake \/ Fade
  BY <1>15 DEF Reported, Wake, Fade, TypeOK, Phases, Intercepting, ide, catalog, link
<1>16. CASE Beat \/ BeatSpared
  <2>1. missed' \in 0..(MAX_MISSED_HEARTBEATS - 1)
    BY <1>16 DEF Beat, BeatSpared, Misses, TypeOK, MAX_MISSED_HEARTBEATS
  <2>2. ping' \in BOOLEAN
    BY <1>16, Zenon DEF Beat, BeatSpared
  <2>3. QED
    BY <1>16, <2>1, <2>2 DEF Beat, BeatSpared, TypeOK, ide, catalog
<1>17. CASE BeatReaps
  BY <1>17, CleanupType DEF BeatReaps, Upset, TypeOK, Phases
<1>18. CASE Pong
  <2>1. missed' \in 0..(MAX_MISSED_HEARTBEATS - 1)
    BY <1>18 DEF Pong, MAX_MISSED_HEARTBEATS
  <2>2. ping' \in BOOLEAN
    BY <1>18, Zenon DEF Pong
  <2>3. QED
    BY <1>18, <2>1, <2>2 DEF Pong, TypeOK, ide, catalog
<1>19. CASE PeerChanges
  BY <1>19 DEF PeerChanges, Upset, TypeOK, ide, catalog
<1>20. CASE UNCHANGED vars
  BY <1>20 DEF vars, TypeOK, ide, catalog, link
<1>21. QED
  BY <1>1, <1>2, <1>3, <1>4, <1>5, <1>6, <1>7, <1>8, <1>8a, <1>9, <1>10, <1>11, <1>12, <1>13,
     <1>14, <1>15, <1>16, <1>17, <1>18, <1>19, <1>20 DEF Next

LEMMA InitType == Init => TypeOK
<1> SUFFICES ASSUME Init PROVE TypeOK
  OBVIOUS
<1>1. kept \in BOOLEAN /\ ping \in BOOLEAN /\ sniffed \in BOOLEAN
  BY Zenon DEF Init
<1>2. missed \in 0..(MAX_MISSED_HEARTBEATS - 1) /\ upsets \in 0..MaxUpsets
  BY ConstantsAssumption DEF Init, MAX_MISSED_HEARTBEATS
<1>3. answers \in [Requests -> Nat]
  BY DEF Init
<1>4. QED
  BY <1>1, <1>2, <1>3 DEF Init, TypeOK, Phases, Intercepting, Ends

\* BridgeRelay's variables have their types in every behaviour.
THEOREM TypeCorrect == Spec => []TypeOK
<1>1. Init => TypeOK
  BY InitType
<1>2. QED
  BY <1>1, TypeStep, PTL DEF Spec

-----------------------------------------------------------------------------
(* The invariant is kept.                                                    *)

Books == <<asked, answers, sniffed, held, pending, late, inflight, timers, atProxy, wire>>

\* Steps that touch no request, inside a phase or between two without a connection.
LEMMA QuietStep ==
  ASSUME Core, UNCHANGED Books, phase = "ended" => phase' = "ended",
         \/ phase' = phase
         \/ phase \notin {"relaying", "dying"} /\ phase' \notin {"relaying", "dying"}
         \/ phase = "relaying" /\ phase' = "dying"
  PROVE  Core'
BY DEF Core, Books, CountsAtMostOne, SniffedAsked, WaitersOpen, Open, ProxyFramesKnown, PhasesApart

\* A request asked just now was neither answered nor known to anyone.
LEMMA TakeStep ==
  ASSUME TypeOK, Core, NEW r \in Requests, r \notin asked,
         Take(r), asked' = asked \cup {r}, UNCHANGED <<phase, wire>>, phase # "ended",
         sniffed' => sniffed \/ r = Initialize
  PROVE  Core'
<1> USE DEF Core, CountsAtMostOne, SniffedAsked, WaitersOpen, Open, ProxyFramesKnown, PhasesApart
<1>1. CASE phase \in Intercepting /\ r \in Answerable
  <2>1. /\ answers' = Answered({r})
        /\ UNCHANGED <<held, pending, late, inflight, timers, atProxy>>
    BY <1>1 DEF Take, Intercepting, catalog
  <2>2. QED
    BY <1>1, <2>1, AnsweredType DEF TypeOK
<1>2. CASE phase \notin Intercepting \/ r \notin Answerable
  <2>1. UNCHANGED answers
    BY <1>2 DEF Take
  <2>2. CASE phase = "relaying"
    BY <1>2, <2>1, <2>2 DEF Take, Ingest, TypeOK, Intercepting
  <2>3. CASE phase # "relaying"
    BY <1>2, <2>1, <2>3 DEF Take, catalog, TypeOK, Intercepting
  <2>4. QED
    BY <2>2, <2>3
<1>3. QED
  BY <1>1, <1>2

\* The end of a connection answers requests in flight and forgets all.
LEMMA CleanupStep ==
  ASSUME TypeOK, Core, NEW next, next \notin {"relaying", "dying"}, phase # "ended",
         NEW S \in SUBSET inflight, Cleanup(next, S)
  PROVE  Core'
<1>1. \A r \in Requests : answers'[r] \in {0, 1} /\ (r \notin asked => answers'[r] = 0)
  BY AnsweredType DEF Cleanup, TypeOK, Core, CountsAtMostOne, WaitersOpen, Open
<1>2. QED
  BY <1>1 DEF Cleanup, Core, CountsAtMostOne, SniffedAsked, WaitersOpen, ProxyFramesKnown, PhasesApart

\* An answer of the proxy is passed on only for a request in flight.
LEMMA ProxyAnswerStep ==
  ASSUME TypeOK, Core, NEW r \in Requests, IngestFromProxy(r)
  PROVE  Core'
<1> USE DEF Core, CountsAtMostOne, SniffedAsked, WaitersOpen, Open, ProxyFramesKnown, PhasesApart
<1>1. CASE r \in late
  BY <1>1 DEF IngestFromProxy, TypeOK, ide
<1>2. CASE r \notin late
  <2>1. answers' = Answered({r}) /\ r \in inflight
    BY <1>2 DEF IngestFromProxy
  <2>2. QED
    BY <1>2, <2>1, AnsweredType DEF IngestFromProxy, TypeOK, ide
<1>3. QED
  BY <1>1, <1>2

\* The fallback answers for a request in flight and leaves none of it there.
LEMMA FallbackStep ==
  ASSUME TypeOK, Core, NEW r \in Requests, FallbackFires(r)
  PROVE  Core'
<1> USE DEF Core, CountsAtMostOne, SniffedAsked, WaitersOpen, Open, ProxyFramesKnown, PhasesApart
<1>1. CASE r \in pending
  <2>1. answers' = Answered({r}) /\ r \in inflight
    BY <1>1 DEF FallbackFires
  <2>2. QED
    BY <1>1, <2>1, AnsweredType DEF FallbackFires, TypeOK, ide, link
<1>2. CASE r \notin pending
  BY <1>2 DEF FallbackFires, ide, link
<1>3. QED
  BY <1>1, <1>2

LEMMA CoreStep == TypeOK /\ Core /\ [Next]_vars => Core'
<1> SUFFICES ASSUME TypeOK, Core, [Next]_vars PROVE Core'
  OBVIOUS
<1>1. ASSUME NEW r \in Requests, Ask(r) PROVE Core'
  BY <1>1, TakeStep DEF Ask, Writing
<1>2. ASSUME NEW r \in Requests, AskHalf(r) PROVE Core'
  BY <1>2, QuietStep DEF AskHalf, Books, catalog, link
<1>3. ASSUME NEW r \in Requests, ProxyAnswers(r) PROVE Core'
  BY <1>3 DEF ProxyAnswers, ide, catalog, Core, CountsAtMostOne, SniffedAsked, WaitersOpen, Open,
              ProxyFramesKnown, PhasesApart
<1>4. ASSUME NEW r \in Requests, IngestFromProxy(r) PROVE Core'
  BY <1>4, ProxyAnswerStep
<1>5. ASSUME NEW r \in Requests, FallbackFires(r) PROVE Core'
  BY <1>5, FallbackStep
<1>6. CASE AskRest
  <2>1. half \in Requests /\ half \notin asked /\ asked' = asked \cup {half}
        /\ phase # "ended" /\ phase' = phase /\ sniffed' = sniffed
    BY <1>6 DEF AskRest, Writing, TypeOK
  <2>2. CASE Take(half)
    BY <1>6, <2>1, <2>2, TakeStep DEF AskRest
  <2>3. CASE ~Take(half)
    BY <1>6, <2>1, <2>3 DEF AskRest, catalog, Core, CountsAtMostOne, SniffedAsked, WaitersOpen, Open,
                            ProxyFramesKnown, PhasesApart
  <2>4. QED
    BY <2>2, <2>3
<1>7. CASE IdeLeaves \/ Announced \/ Reported \/ Wake \/ Fade
  BY <1>7, QuietStep DEF IdeLeaves, Announced, Reported, Wake, Fade, Books, ide, catalog, link
<1>8. CASE Found
  BY <1>8, QuietStep DEF Found, Books, ide, catalog
<1>8a. CASE Refused
  <2>1. \A r \in Requests : r \notin asked => answers'[r] = 0
    BY <1>8a, AnsweredType DEF Refused, TypeOK, Core, CountsAtMostOne, SniffedAsked
  <2>2. QED
    BY <1>8a, <2>1 DEF Refused, ide, catalog, link, Core, CountsAtMostOne, SniffedAsked,
                      WaitersOpen, Open, ProxyFramesKnown, PhasesApart
<1>9. CASE Connected
  BY <1>9 DEF Connected, Ingest, ide, TypeOK, Core, CountsAtMostOne, SniffedAsked, WaitersOpen, Open,
              ProxyFramesKnown, PhasesApart
<1>10. CASE ConnectFails
  BY <1>10, CleanupStep DEF ConnectFails, Drained
<1>11. CASE Destroyed
  BY <1>11 DEF Destroyed, ide, catalog, Core, CountsAtMostOne, SniffedAsked, WaitersOpen, Open,
               ProxyFramesKnown, PhasesApart
<1>12. CASE Close
  BY <1>12, CleanupStep DEF Close, Drained
<1>13. CASE GraceOver
  BY <1>13, CleanupStep DEF GraceOver, Bridging
<1>14. CASE BeatReaps
  BY <1>14, CleanupStep DEF BeatReaps, Drained
<1>15. CASE Beat \/ BeatSpared \/ Pong \/ PeerChanges
  BY <1>15, QuietStep DEF Beat, BeatSpared, Pong, PeerChanges, Books, ide, catalog
<1>16. CASE UNCHANGED vars
  BY <1>16, QuietStep DEF vars, Books, ide, catalog, link
<1>17. QED
  BY <1>1, <1>2, <1>3, <1>4, <1>5, <1>6, <1>7, <1>8, <1>8a, <1>9, <1>10, <1>11, <1>12, <1>13,
     <1>14, <1>15, <1>16 DEF Next

LEMMA InitCore == Init => Core
BY DEF Init, Core, CountsAtMostOne, SniffedAsked, WaitersOpen, ProxyFramesKnown, PhasesApart

LEMMA Invariance == Spec => []IInv
<1>1. Init => IInv
  BY InitType, InitCore DEF IInv
<1>2. IInv /\ [Next]_vars => IInv'
  BY TypeStep, CoreStep DEF IInv
<1>3. QED
  BY <1>1, <1>2, PTL DEF Spec

-----------------------------------------------------------------------------
(* BridgeRelay implements Conversation.                                      *)

\* While nothing is answered twice, counting an answer is marking the request.
LEMMA AnsweredIsWith ==
  ASSUME TypeOK, NEW S, \A r \in Requests : r \in S => answers[r] = 0
  PROVE  Answered(S) = Promise!With(S)
BY DEF TypeOK, Answered, Promise!With

\* A step that answers requests asked and not answered before.
LEMMA AnswerRefines ==
  ASSUME TypeOK, NEW S \in SUBSET Requests, \A r \in S : Open(r),
         answers' = Answered(S), asked' = asked, phase # "ended", phase' # "ended"
  PROVE  Promise!Next
<1>1. Promise!Answer(S)
  BY AnsweredIsWith DEF Promise!Answer, Open
<1>2. QED
  BY <1>1 DEF Promise!Next

LEMMA TakeRefines ==
  ASSUME TypeOK, Core, NEW r \in Requests, r \notin asked, phase # "ended", phase' = phase,
         Take(r), asked' = asked \cup {r}
  PROVE  Promise!Next
<1>1. answers[r] = 0
  BY DEF Core, CountsAtMostOne
<1>2. CASE answers' = answers
  BY <1>2 DEF Promise!Next, Promise!Ask
<1>3. CASE answers' = Answered({r})
  BY <1>1, <1>3, AnsweredIsWith DEF Promise!Next, Promise!AskAnswered
<1>4. QED
  BY <1>2, <1>3 DEF Take

LEMMA CleanupRefines ==
  ASSUME TypeOK, Core, NEW next, NEW S \in SUBSET inflight, Cleanup(next, S),
         phase # "ended", next # "ended"
  PROVE  Promise!Next
BY AnswerRefines DEF Cleanup, TypeOK, Core, WaitersOpen

PromiseVars == <<asked, answers, phase = "ended">>

LEMMA StepRefines == IInv /\ [Next]_vars => [Promise!Next]_PromiseVars
<1> SUFFICES ASSUME TypeOK, Core, [Next]_vars, ~UNCHANGED PromiseVars PROVE Promise!Next
  BY DEF IInv
<1>1. ASSUME NEW r \in Requests, Ask(r) PROVE Promise!Next
  BY <1>1, TakeRefines DEF Ask, Writing
<1>2. CASE AskRest
  <2>1. half \in Requests /\ half \notin asked /\ asked' = asked \cup {half}
        /\ phase # "ended" /\ phase' = phase
    BY <1>2 DEF AskRest, Writing, TypeOK
  <2>2. CASE Take(half)
    BY <2>1, <2>2, TakeRefines
  <2>3. CASE ~Take(half)
    BY <1>2, <2>1, <2>3 DEF AskRest, Promise!Next, Promise!Ask
  <2>4. QED
    BY <2>2, <2>3
<1>3. ASSUME NEW r \in Requests, IngestFromProxy(r) PROVE Promise!Next
  <2>1. r \notin late /\ answers' = Answered({r}) /\ asked' = asked /\ phase = "relaying"
        /\ phase' = phase
    BY <1>3 DEF IngestFromProxy, ide, PromiseVars
  <2>2. Open(r)
    BY <1>3, <2>1 DEF IngestFromProxy, Core, ProxyFramesKnown, WaitersOpen
  <2>3. QED
    BY <2>1, <2>2, AnswerRefines
<1>4. ASSUME NEW r \in Requests, FallbackFires(r) PROVE Promise!Next
  <2>1. r \in pending /\ answers' = Answered({r}) /\ asked' = asked /\ phase' = phase
    BY <1>4 DEF FallbackFires, ide, PromiseVars
  <2>2. Open(r) /\ phase # "ended"
    BY <2>1 DEF Core, WaitersOpen, PhasesApart
  <2>3. QED
    BY <2>1, <2>2, AnswerRefines
<1>5. CASE ConnectFails \/ Close \/ BeatReaps
  BY <1>5, CleanupRefines DEF ConnectFails, Close, BeatReaps, Drained
<1>6. CASE GraceOver
  <2>1. answers' = answers
    BY <1>6 DEF GraceOver, Cleanup, Answered, TypeOK
  <2>2. QED
    BY <1>6, <2>1 DEF GraceOver, Cleanup, Bridging, Promise!Next, Promise!End
<1>7. CASE Refused
  <2>1. CASE sniffed
    <3>1. Initialize \in Requests /\ Initialize \in asked
      BY <2>1, ConstantsAssumption DEF Core, SniffedAsked
    <3>2. Answered({Initialize}) = [answers EXCEPT ![Initialize] = @ + 1]
      BY <3>1 DEF Answered, TypeOK
    <3>3. QED
      BY <1>7, <2>1, <3>1, <3>2 DEF Refused, ide, Promise!Next, Promise!Refuse
  <2>2. CASE ~sniffed
    BY <1>7, <2>2 DEF Refused, ide, Promise!Next, Promise!End
  <2>3. QED
    BY <2>1, <2>2
<1>8. CASE Found \/ Fade
  BY <1>8 DEF Found, Fade, ide, PromiseVars, Promise!Next, Promise!End
<1>9. ASSUME NEW r \in Requests, AskHalf(r) \/ ProxyAnswers(r) PROVE FALSE
  BY <1>9 DEF AskHalf, ProxyAnswers, ide, PromiseVars
<1>10. CASE IdeLeaves \/ Announced \/ Connected \/ Destroyed \/ Reported \/ Wake
  BY <1>10 DEF IdeLeaves, Announced, Connected, Destroyed, Reported, Wake, ide, PromiseVars
<1>11. CASE Beat \/ BeatSpared \/ Pong \/ PeerChanges
  BY <1>11 DEF Beat, BeatSpared, Pong, PeerChanges, ide, PromiseVars
<1>12. CASE UNCHANGED vars
  BY <1>12 DEF vars, ide, PromiseVars
<1>13. QED
  BY <1>1, <1>2, <1>3, <1>4, <1>5, <1>6, <1>7, <1>8, <1>9, <1>10, <1>11, <1>12 DEF Next

\* A request is answered once at most, by the interceptor, the proxy, the fallback
\* or the end of a connection, and never unasked; only the refusal of an old unerrd,
\* after which the bridge is silent, may answer initialize once more: every
\* behaviour of BridgeRelay is one of Conversation.
THEOREM RelayImplementsConversation == Spec => AnsweredOnce
<1>1. Init => Promise!Init
  BY DEF Init, Promise!Init
<1>2. IInv /\ [Next]_vars => [Promise!Next]_PromiseVars
  BY StepRefines
<1>3. QED
  BY <1>1, <1>2, Invariance, PTL DEF Spec, AnsweredOnce, Promise!Spec, PromiseVars

=============================================================================
