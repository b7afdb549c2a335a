----------------------------- MODULE BridgeRelay -----------------------------
(* The bridge `unerr --mcp` between one IDE (stdin, stdout) and the proxy of its
   repository (a socket that comes and goes), and who answers a request: the
   static catalogue while there is no proxy, the proxy, the catalogue again when
   the proxy is slow, or an error when the connection is lost.

   A step is one event of the bridge's event loop.  Discovery models how the
   proxy is found; here it is found, sooner or later.  A request is a frame with
   an id; notifications are left out.                                        *)
EXTENDS Naturals

CONSTANTS Requests,
          Answerable,   \* those of them that are initialize or tools/list
          Initialize,
          MaxUpsets,    \* bound: proxies that die or hang, and lost pid files
          None

ASSUME ConstantsAssumption ==
  Answerable \subseteq Requests /\ Initialize \in Answerable /\ MaxUpsets \in Nat /\ None \notin Requests

VARIABLES
  asked,     \* requests whose frame the IDE has written
  answers,   \* request -> answers on stdout
  half,      \* the request of which the IDE has written only the first part
  kept,      \* that part is where the rest of the frame will be appended
  sniffed,   \* initializeId is known
  phase,     \* where the bridge stands
  stdin,     \* the end of stdin, and who knows of it
  held,      \* frames that wait for a connection
  pending, late, inflight,   \* BridgeCatalog; late is answeredLocally
  timers,    \* fallbackTimers
  atProxy,   \* requests the proxy has from this connection
  wire,      \* its answers on their way
  peer,      \* the proxy at the other end
  missed,    \* missedHeartbeats
  ping,      \* pendingPing
  lost,      \* requests nobody will answer, see the properties
  upsets

ide == <<asked, half, kept, sniffed>>
catalog == <<pending, late, inflight, timers>>
link == <<atProxy, wire, peer, missed, ping>>
vars == <<ide, answers, phase, stdin, held, catalog, link, lost, upsets>>

(* discovering: in discoverWithRetry; announcing: in connectRepo; connecting: in
   startUdsBridge; relaying: connected; dying: the socket is destroyed and its
   close event due; reporting, failing: in disconnectRepo, after a connection
   that was healthy, or was not; sleeping: the backoff after the latter.     *)
Intercepting == {"discovering", "announcing"}
Bridging == {"connecting", "relaying", "dying"}
Phases == Intercepting \cup Bridging \cup {"reporting", "failing", "sleeping", "ended"}

\* early: stdinEndedEarly is set; leaving: stdinEndHandler of this connection has
\* run; missed: the event found no listener, or the one of a connection now over.
Ends == {"open", "early", "leaving", "missed"}

MAX_MISSED_HEARTBEATS == 3

TypeOK ==
  /\ asked \subseteq Requests /\ answers \in [Requests -> Nat]
  /\ half \in (Requests \ asked) \cup {None} /\ kept \in BOOLEAN /\ sniffed \in BOOLEAN
  /\ phase \in Phases /\ stdin \in Ends
  /\ held \subseteq Requests /\ pending \subseteq Requests /\ late \subseteq Requests
  /\ inflight \subseteq Requests /\ timers \subseteq Requests
  /\ atProxy \subseteq Requests /\ wire \subseteq Requests
  /\ peer \in {"well", "hung", "gone"}
  /\ missed \in 0..(MAX_MISSED_HEARTBEATS - 1) /\ ping \in BOOLEAN
  /\ lost \subseteq Requests /\ upsets \in 0..MaxUpsets

Init ==
  /\ asked = {} /\ answers = [r \in Requests |-> 0] /\ half = None /\ kept = FALSE /\ sniffed = FALSE
  /\ phase = "discovering" /\ stdin = "open"
  /\ held = {} /\ pending = {} /\ late = {} /\ inflight = {} /\ timers = {}
  /\ atProxy = {} /\ wire = {} /\ peer = "gone" /\ missed = 0 /\ ping = FALSE
  /\ lost = {} /\ upsets = 0

Answered(S) == [r \in Requests |-> IF r \in S THEN answers[r] + 1 ELSE answers[r]]
Upset == upsets < MaxUpsets /\ upsets' = upsets + 1

-----------------------------------------------------------------------------
(* What the IDE writes.                                                      *)

\* Mutant of Armed: one timer serves all.
ArmedOnce(S) == IF timers = {} THEN timers \cup (S \cap Answerable) ELSE timers

\* armFallback, for each request that can be answered locally.
Armed(S) == timers \cup (S \cap Answerable)

\* ingestFromIde: every frame is forwarded.
Ingest(S) ==
  /\ pending' = pending \cup (S \cap Answerable) /\ timers' = Armed(S)
  /\ inflight' = inflight \cup S /\ late' = late
  /\ atProxy' = atProxy \cup S

\* A complete frame meets the listener of the phase: the interceptor, the queue of
\* a connection not yet open, the relay; or a destroyed socket, or nobody.
Take(r) ==
  \/ /\ phase \in Intercepting /\ r \in Answerable /\ answers' = Answered({r})
     /\ UNCHANGED <<held, catalog, atProxy, lost>>
  \/ /\ phase = "connecting" \/ (phase \in Intercepting /\ r \notin Answerable)
     /\ held' = held \cup {r} /\ UNCHANGED <<answers, catalog, atProxy, lost>>
  \/ /\ phase = "relaying" /\ Ingest({r}) /\ UNCHANGED <<answers, held, lost>>
  \/ /\ phase \in {"dying", "reporting", "failing", "sleeping"}
     /\ lost' = lost \cup {r} /\ UNCHANGED <<answers, held, catalog, atProxy>>

Writing == stdin = "open" /\ phase # "ended"

\* preBufferHandler sees the id of initialize when one chunk has the whole frame.
Ask(r) ==
  /\ Writing /\ half = None /\ r \notin asked
  /\ asked' = asked \cup {r} /\ Take(r)
  /\ sniffed' = (sniffed \/ (r = Initialize /\ phase \in Intercepting))
  /\ UNCHANGED <<half, kept, phase, stdin, wire, peer, missed, ping, upsets>>

\* A chunk ends inside a frame ...
AskHalf(r) ==
  /\ Writing /\ half = None /\ r \notin asked
  /\ half' = r /\ kept' = (phase \in Intercepting \cup {"connecting", "relaying"})
  /\ UNCHANGED <<asked, sniffed, answers, phase, stdin, held, catalog, link, lost, upsets>>

\* ... and the next one has the rest.
AskRest ==
  /\ Writing /\ half # None /\ half' = None /\ asked' = asked \cup {half}
  /\ \/ kept /\ Take(half)
     \/ ~kept /\ lost' = lost \cup {half} /\ UNCHANGED <<answers, held, catalog, atProxy>>
  /\ UNCHANGED <<kept, sniffed, phase, stdin, wire, peer, missed, ping, upsets>>

\* The IDE closes stdin; the event goes to the listeners of the phase.
IdeLeaves ==
  /\ Writing
  /\ stdin' = IF phase \in Intercepting THEN "early"
              ELSE IF phase \in Bridging THEN "leaving" ELSE "missed"
  /\ UNCHANGED <<ide, answers, phase, held, catalog, link, lost, upsets>>

-----------------------------------------------------------------------------
(* From one connection to the next.                                          *)

\* Mutant of Drained: the requests in flight are forgotten.
DrainedNever == {}

\* drainInflight: each is answered with an error.
Drained == inflight

\* cleanup(): stdin_closed answers nobody.
Cleanup(next, S) ==
  /\ phase' = next /\ answers' = Answered(S)
  /\ stdin' = IF stdin = "leaving" THEN "missed" ELSE stdin
  /\ pending' = {} /\ late' = {} /\ inflight' = {} /\ timers' = {}
  /\ atProxy' = {} /\ wire' = {} /\ missed' = 0 /\ ping' = FALSE
  /\ held' = {} /\ lost' = lost \cup held /\ kept' = FALSE
  /\ UNCHANGED <<asked, half, sniffed>>

\* Discovery has a socket; a stdin that ended meanwhile ends the bridge.
Found ==
  /\ phase = "discovering"
  /\ \/ stdin = "early" /\ phase' = "ended" /\ UNCHANGED peer
     \/ stdin # "early" /\ phase' = "announcing" /\ peer' = "well"
  /\ UNCHANGED <<ide, answers, stdin, held, catalog, atProxy, wire, missed, ping, lost, upsets>>

\* An unerrd of an old build refuses the repository: the bridge answers initialize
\* with an error, although the interceptor has answered it, and exits.
Refused ==
  /\ phase = "discovering" /\ stdin # "early" /\ phase' = "ended"
  /\ answers' = IF sniffed THEN Answered({Initialize}) ELSE answers
  /\ held' = {} /\ lost' = lost \cup held
  /\ UNCHANGED <<ide, stdin, catalog, link, upsets>>

\* connectRepo returns or throws: the interceptor hands over to startUdsBridge.
Announced ==
  /\ phase = "announcing" /\ phase' = "connecting"
  /\ UNCHANGED <<ide, answers, stdin, held, catalog, link, lost, upsets>>

\* The socket connects: what was held is sent.
Connected ==
  /\ phase = "connecting" /\ peer # "gone"
  /\ phase' = "relaying" /\ Ingest(held) /\ held' = {}
  /\ UNCHANGED <<ide, answers, stdin, wire, peer, missed, ping, lost, upsets>>

\* connect_error: what was held goes with the connection.
ConnectFails ==
  /\ phase = "connecting" /\ peer = "gone" /\ Cleanup("failing", Drained)
  /\ UNCHANGED <<peer, upsets>>

\* The proxy is gone and what it had written is read, or not.
Destroyed ==
  /\ phase = "relaying" /\ peer = "gone" /\ phase' = "dying" /\ wire' = {}
  /\ UNCHANGED <<ide, answers, stdin, held, catalog, atProxy, peer, missed, ping, lost, upsets>>

\* socket_closed or, after an error, daemon_dead.
Close ==
  /\ phase = "dying" /\ \E next \in {"reporting", "failing"} : Cleanup(next, Drained)
  /\ UNCHANGED <<peer, upsets>>

\* Mutant of GraceOver: the bridge waits for the proxy to hang up.
GraceNever ==
  /\ stdin = "leaving" /\ phase \in Bridging /\ peer = "gone" /\ Cleanup("ended", {})
  /\ UNCHANGED <<peer, upsets>>

\* stdin_closed: the IDE has left and 3 s are over, or the socket ends before.
GraceOver ==
  /\ stdin = "leaving" /\ phase \in Bridging /\ Cleanup("ended", {})
  /\ UNCHANGED <<peer, upsets>>

\* disconnectRepo settles.
Reported ==
  /\ phase \in {"reporting", "failing"}
  /\ phase' = IF phase = "reporting" THEN "discovering" ELSE "sleeping"
  /\ UNCHANGED <<ide, answers, stdin, held, catalog, link, lost, upsets>>

Wake ==
  /\ phase = "sleeping" /\ stdin = "open" /\ phase' = "discovering"
  /\ UNCHANGED <<ide, answers, stdin, held, catalog, link, lost, upsets>>

\* Without stdin the timers, all unref'ed, do not keep the process alive.
Fade ==
  /\ phase \in {"sleeping", "discovering"} /\ stdin # "open" /\ phase' = "ended"
  /\ UNCHANGED <<ide, answers, stdin, held, catalog, link, lost, upsets>>

-----------------------------------------------------------------------------
(* The connection.                                                           *)

ProxyAnswers(r) ==
  /\ phase = "relaying" /\ peer = "well" /\ r \in atProxy
  /\ atProxy' = atProxy \ {r} /\ wire' = wire \cup {r}
  /\ UNCHANGED <<ide, answers, phase, stdin, held, catalog, peer, missed, ping, lost, upsets>>

\* ingestFromProxy, and the handler around it: a late answer is dropped, any other
\* is passed on and disarms the timer.
IngestFromProxy(r) ==
  /\ phase = "relaying" /\ r \in wire /\ wire' = wire \ {r}
  /\ inflight' = inflight \ {r} /\ missed' = 0
  /\ \/ /\ r \in late /\ late' = late \ {r}
        /\ UNCHANGED <<answers, pending, timers>>
     \/ /\ r \notin late /\ answers' = Answered({r})
        /\ pending' = pending \ {r} /\ timers' = timers \ {r} /\ late' = late
  /\ UNCHANGED <<ide, phase, stdin, held, atProxy, peer, ping, lost, upsets>>

\* Mutant of FallbackFires: the request stays in flight.
FallbackKeeping(r) ==
  /\ r \in timers /\ timers' = timers \ {r} /\ r \in pending
  /\ answers' = Answered({r}) /\ pending' = pending \ {r} /\ late' = late \cup {r}
  /\ UNCHANGED <<ide, phase, stdin, held, inflight, link, lost, upsets>>

\* fireFallback, 3 s after the request: the catalogue answers for the proxy, if
\* that has not answered.
FallbackFires(r) ==
  /\ r \in timers /\ timers' = timers \ {r}
  /\ \/ /\ r \in pending /\ answers' = Answered({r})
        /\ pending' = pending \ {r} /\ late' = late \cup {r} /\ inflight' = inflight \ {r}
     \/ r \notin pending /\ UNCHANGED <<answers, pending, late, inflight>>
  /\ UNCHANGED <<ide, phase, stdin, held, link, lost, upsets>>

Misses == IF ping THEN missed + 1 ELSE missed

\* The heartbeat, every 5 s: nothing to worry about yet; ...
Beat ==
  /\ phase = "relaying" /\ Misses < MAX_MISSED_HEARTBEATS
  /\ missed' = Misses /\ ping' = TRUE
  /\ UNCHANGED <<ide, answers, phase, stdin, held, catalog, atProxy, wire, peer, lost, upsets>>

\* ... three beats without a frame, but proxy.pid names a living process; ...
BeatSpared ==
  /\ phase = "relaying" /\ Misses >= MAX_MISSED_HEARTBEATS /\ peer # "gone"
  /\ missed' = 0 /\ ping' = TRUE
  /\ UNCHANGED <<ide, answers, phase, stdin, held, catalog, atProxy, wire, peer, lost, upsets>>

\* ... or it does not: daemon_dead.  That of a living proxy may have been removed
\* by the exit of another, see PidLock.
BeatReaps ==
  /\ phase = "relaying" /\ Misses >= MAX_MISSED_HEARTBEATS /\ Cleanup("reporting", Drained)
  /\ \/ peer = "gone" /\ UNCHANGED upsets
     \/ peer # "gone" /\ Upset
  /\ UNCHANGED peer

Pong ==
  /\ phase = "relaying" /\ peer = "well" /\ ping /\ ping' = FALSE /\ missed' = 0
  /\ UNCHANGED <<ide, answers, phase, stdin, held, catalog, atProxy, wire, peer, lost, upsets>>

\* The proxy dies, hangs (a long reindex) and recovers.
PeerChanges ==
  /\ \/ peer # "gone" /\ peer' = "gone" /\ Upset
     \/ peer = "well" /\ peer' = "hung" /\ Upset
     \/ peer = "hung" /\ peer' = "well" /\ UNCHANGED upsets
  /\ UNCHANGED <<ide, answers, phase, stdin, held, catalog, atProxy, wire, missed, ping, lost>>

-----------------------------------------------------------------------------

Next ==
  \/ \E r \in Requests :
       Ask(r) \/ AskHalf(r) \/ ProxyAnswers(r) \/ IngestFromProxy(r) \/ FallbackFires(r)
  \/ AskRest \/ IdeLeaves
  \/ Found \/ Refused \/ Announced \/ Connected \/ ConnectFails \/ Destroyed \/ Close \/ GraceOver
  \/ Reported \/ Wake \/ Fade
  \/ Beat \/ BeatSpared \/ BeatReaps \/ Pong \/ PeerChanges

Spec == Init /\ [][Next]_vars

\* Timers fire, sockets open, close and deliver, discovery succeeds some day (see
\* the properties of Discovery), a proxy that does not hang answers.
Fairness ==
  /\ \A r \in Requests :
       WF_vars(ProxyAnswers(r)) /\ WF_vars(IngestFromProxy(r)) /\ WF_vars(FallbackFires(r))
  /\ WF_vars(Found) /\ WF_vars(Announced) /\ WF_vars(Connected) /\ WF_vars(ConnectFails)
  /\ WF_vars(Destroyed) /\ WF_vars(Close) /\ WF_vars(GraceOver) /\ WF_vars(Reported)
  /\ WF_vars(Wake) /\ WF_vars(phase = "sleeping" /\ Fade)
FairSpec == Spec /\ Fairness

-----------------------------------------------------------------------------

\* A request is answered once at most, whoever answers: the interceptor, the proxy,
\* the fallback or the end of a connection; and never unasked.  The one exception
\* is in Conversation: the refusal of an old unerrd, as the bridge's last words.
Promise == INSTANCE Conversation WITH over <- phase = "ended"
AnsweredOnce == Promise!Spec

Settled(r) == answers[r] > 0 \/ r \in lost \/ stdin # "open"

\* Every request is answered while the IDE listens, if the proxy does not hang for
\* good: by the proxy, the catalogue or an error.  Lost are only those that were
\* written between two connections or onto a destroyed socket, that were held for
\* a connection which failed or when an old unerrd refused, or whose frame a
\* connection's end cut in two.
EveryoneAnswered ==
  []<>(peer # "hung") => \A r \in Requests : (r \in asked) ~> Settled(r)

\* initialize and tools/list are answered even by the bridge of a proxy that hangs.
CatalogueAnswers == \A r \in Answerable : (r \in asked) ~> Settled(r)

\* A bridge whose IDE leaves comes to an end, unless it leaves where nobody listens
\* or looks: between two connections, in the last moment before one, or when the
\* connection breaks within the grace period.
DetachEnds ==
  [](stdin # "missed" /\ (stdin = "early" => phase \in {"discovering", "ended"})) =>
    (stdin # "open" ~> phase = "ended")

=============================================================================
