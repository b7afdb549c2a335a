---------------------------- MODULE Entitlements ----------------------------
(* Login, plan and team conventions of one machine: three files in ~/.unerr
   (credentials, the signed entitlement cache, the conventions document) and the
   marker of auth-events.json, which unerrd's refresh job and the commands login,
   logout, whoami and conventions pull read before a request and write after it.
   Any number of commands run beside the job, in processes of their own.

   A step is what a process runs from one await to the next.  A token stands for the
   machine's login to one team.  Times are relative: the age of the claims counts
   from their issue, lead is how far max_server_time is ahead of the server's clock,
   skew how far the machine's is; network latency is small against these units.     *)
EXTENDS Integers, FiniteSets

CONSTANTS Tokens, Shells, Job, None,
          Grace,        \* how long claims are honoured: grace_until
          MaxSkew,      \* bound: how wrong the machine's clock may be
          MaxUpsets     \* bound: requests that fail, clocks set wrong, restarts, the off-switch

Procs == Shells \cup {Job}

ASSUME TokensAssumption == None \notin Tokens /\ Job \notin Shells
ASSUME BoundsAssumption ==
  Grace \in Nat /\ MaxSkew \in Nat /\ MaxUpsets \in Nat

VARIABLES creds,     \* the stored token
          cache,     \* entitlements.json
          doc,       \* the team whose conventions are stored
          marker,    \* auth-events.json has revoked_at
          skew,
          pc,        \* at which await each process is
          req,       \* its request: token, answer, and the document it has read
          revoked,   \* on the server: the machines disconnected by their team
          upsets,
          past       \* history: a login was lost, or why others' files may be about

files == <<creds, cache, doc, marker>>
world == <<skew, revoked, upsets>>
vars == <<files, world, pc, req, past>>

Answers == {"none", "ok", "unsigned", "same", "revoked", "failed"}
Asking == {"refresh", "sync", "renew", "prime", "whoami"}
Pasts == {"clean", "lost", "leftover", "inflight"}
Stations == Asking \cup {"idle", "stopped", "device", "bye"}

NoCache == [tok |-> None, signed |-> FALSE, age |-> 0, lead |-> 0]
NoRequest == [tok |-> None, ans |-> "none", existing |-> None]

Shape ==
  /\ creds \in Tokens \cup {None} /\ doc \in Tokens \cup {None}
  /\ cache \in [tok : Tokens \cup {None}, signed : BOOLEAN, age : Nat, lead : Int]
  /\ marker \in BOOLEAN
  /\ skew \in -MaxSkew..MaxSkew
  /\ pc \in [Procs -> Stations]
  /\ req \in [Procs -> [tok : Tokens \cup {None}, ans : Answers,
                        existing : Tokens \cup {None}]]
  /\ revoked \subseteq Tokens /\ upsets \in 0..MaxUpsets
  /\ past \in Pasts

\* The types, and no request without a token.
TypeOK == Shape /\ \A p \in Procs : pc[p] \in Asking => req[p].tok \in Tokens

\* A machine that was never connected; unerrd's first tick is due.
Init ==
  /\ creds = None /\ cache = NoCache /\ doc = None /\ marker = FALSE
  /\ skew = 0 /\ revoked = {} /\ upsets = 0
  /\ pc = [p \in Procs |-> "idle"] /\ req = [p \in Procs |-> NoRequest]
  /\ past = "clean"

-----------------------------------------------------------------------------
(* The plan a cache c is worth, by the machine's clock.                      *)

\* Mutant of Honoured: claims are honoured for good.
NeverLapses(c) == c.signed /\ skew >= c.lead
\* effectiveTier(): fresh or in grace, and not behind max_server_time.
Honoured(c) == c.signed /\ skew >= c.lead /\ c.age + skew <= Grace

\* loginBlocked(), with the files a step has left.
Blocked(login, c, m) == login = None \/ m \/ ~Honoured(c)

Ahead(a, b) == IF a > b THEN a ELSE b

\* refreshEntitlements() once its request is answered.
Refreshed(r) ==
  IF r.ans \in {"ok", "unsigned"}
  THEN [tok |-> r.tok, signed |-> r.ans = "ok", age |-> 0,
        lead |-> LET seen == Ahead(0, skew)
                 IN IF cache = NoCache THEN seen ELSE Ahead(cache.lead, seen)]
  ELSE cache

-----------------------------------------------------------------------------
(* What every process does.                                                  *)

Upset == upsets < MaxUpsets /\ upsets' = upsets + 1

Ask(p, station, t) ==
  /\ pc' = [pc EXCEPT ![p] = station]
  /\ req' = [req EXCEPT ![p] = [tok |-> t, ans |-> "none",
                                existing |-> IF station = "sync" THEN doc ELSE None]]

Rest(p, station) ==
  /\ pc' = [pc EXCEPT ![p] = station] /\ req' = [req EXCEPT ![p] = NoRequest]

Has(p, station) == pc[p] = station /\ req[p].ans # "none"

\* The login changes while another process has a request out for the one before.
Crosses(p) == \E q \in Procs \ {p} : pc[q] \in Asking

Erased(p, event) == past' = IF Crosses(p) THEN "inflight" ELSE event
Changed(p, event) ==
  past' = IF Crosses(p) THEN "inflight" ELSE IF past \in {"clean", "lost"} THEN event ELSE past

\* Mutant of Disconnected: any failure counts as a disconnect.
AnyFailure(r) == r.ans \in {"revoked", "failed"}
\* 401 revoked_token, and no other failure.
Disconnected(r) == r.ans = "revoked"

\* Mutant of Wiped: a revoked machine keeps its cache.
WipedNoCache == creds' = None /\ doc' = None /\ UNCHANGED cache
Wiped == creds' = None /\ cache' = NoCache /\ doc' = None

\* handleRevokedToken().
HandleRevoked(p) ==
  /\ Wiped /\ marker' = TRUE /\ Erased(p, "lost")

-----------------------------------------------------------------------------
(* unerrd's refresh job.                                                     *)

\* Mutant of Skipped: the timer is not armed again.
SkippedStops == pc' = [pc EXCEPT ![Job] = "stopped"]
Skipped == UNCHANGED pc

\* Nobody is logged in, or the telemetry off-switch is on.
JobSkips ==
  /\ pc[Job] = "idle" /\ Skipped
  /\ (creds = None /\ UNCHANGED upsets) \/ Upset
  /\ UNCHANGED <<files, skew, revoked, req, past>>

JobStarts ==
  /\ pc[Job] = "idle" /\ creds # None /\ Ask(Job, "refresh", creds)
  /\ UNCHANGED <<files, world, past>>

\* A revoked token wipes the machine and ends the timer chain.
JobRevoked ==
  /\ pc[Job] \in {"refresh", "sync"} /\ Disconnected(req[Job])
  /\ HandleRevoked(Job) /\ Rest(Job, "stopped")
  /\ UNCHANGED world

\* The plan is stored, an old marker cleared, and the conventions follow if the plan has
\* them, asked for by the client of the refresh: with its token, whatever is stored now.
JobRefreshed ==
  /\ pc[Job] = "refresh" /\ req[Job].ans \in {"ok", "unsigned"}
  /\ cache' = Refreshed(req[Job]) /\ marker' = FALSE
  /\ \/ Honoured(cache') /\ Ask(Job, "sync", req[Job].tok)
     \/ Rest(Job, "idle")
  /\ UNCHANGED <<creds, doc, world, past>>

JobFails ==
  /\ pc[Job] \in {"refresh", "sync"} /\ req[Job].ans = "failed" /\ Rest(Job, "idle")
  /\ UNCHANGED <<files, world, past>>

\* syncConventions(): a new document, or the one read before once more.
Synced(p) ==
  /\ pc[p] = "sync" /\ req[p].ans \in {"ok", "same"}
  /\ doc' = IF req[p].ans = "ok" THEN req[p].tok ELSE req[p].existing
  /\ Rest(p, "idle")
  /\ UNCHANGED <<creds, cache, marker, world, past>>

-----------------------------------------------------------------------------
(* unerr login.                                                              *)

LoginStarts(s) ==
  /\ pc[s] = "idle" /\ Blocked(creds, cache, marker)
  /\ IF creds = None THEN Rest(s, "device") ELSE Ask(s, "renew", creds)
  /\ UNCHANGED <<files, world, past>>

\* The stored login is renewed; when that does not lift the block it is dropped.
Renewed(s) ==
  /\ Has(s, "renew") /\ cache' = Refreshed(req[s])
  /\ IF Blocked(creds, cache', marker)
     THEN creds' = None /\ Rest(s, "device") /\ Changed(s, "leftover")
     ELSE Rest(s, "idle") /\ UNCHANGED <<creds, past>>
  /\ UNCHANGED <<doc, marker, world>>

\* Mutant of FreshStart: the marker of an earlier login stays.
MarkerStays == UNCHANGED marker
\* writeCredentials() clears the marker.
FreshStart == marker' = FALSE

\* The device flow, or a token given on the command line, has a login.
LoggedIn(s) ==
  /\ pc[s] = "device"
  /\ \E t \in Tokens \ revoked :
       creds' = t /\ Ask(s, "prime", t) /\ Changed(s, IF creds \in {None, t} THEN "clean" ELSE "leftover")
  /\ FreshStart
  /\ UNCHANGED <<cache, doc, world>>

\* The first refresh of a new login, or the second request of whoami.
Primed(s) ==
  /\ Has(s, "prime")
  /\ cache' = Refreshed(req[s]) /\ Rest(s, "idle")
  /\ UNCHANGED <<creds, doc, marker, world, past>>

-----------------------------------------------------------------------------
(* unerr logout, whoami, conventions pull.                                   *)

\* The server is told before the files go, for at most three seconds.
LogoutStarts(s) ==
  /\ pc[s] = "idle" /\ creds # None /\ Rest(s, "bye")
  /\ UNCHANGED <<files, world, past>>

LogoutEnds(s) ==
  /\ pc[s] = "bye" \/ (pc[s] = "idle" /\ creds = None)
  /\ Wiped /\ marker' = FALSE
  /\ Erased(s, "clean") /\ Rest(s, "idle")
  /\ UNCHANGED world

WhoamiStarts(s) ==
  /\ pc[s] = "idle" /\ creds # None /\ Ask(s, "whoami", creds)
  /\ UNCHANGED <<files, world, past>>

WhoamiAnswered(s) ==
  /\ pc[s] = "whoami" /\ req[s].ans \in {"ok", "unsigned"}
  /\ Ask(s, "prime", req[s].tok)
  /\ UNCHANGED <<files, world, past>>

\* The command is behind the login wall, and its feature behind the gate.
PullStarts(s) ==
  /\ pc[s] = "idle" /\ ~Blocked(creds, cache, marker) /\ Ask(s, "sync", creds)
  /\ UNCHANGED <<files, world, past>>

ShellRevoked(s) ==
  /\ pc[s] \in {"whoami", "sync"} /\ Disconnected(req[s])
  /\ HandleRevoked(s) /\ Rest(s, "idle")
  /\ UNCHANGED world

ShellFails(s) ==
  /\ pc[s] \in {"whoami", "sync"} /\ req[s].ans = "failed" /\ Rest(s, "idle")
  /\ UNCHANGED <<files, world, past>>

\* The device flow is denied or expires, or the user interrupts the command.
Interrupt(s) ==
  /\ pc[s] # "idle" /\ Rest(s, "idle")
  /\ UNCHANGED <<files, world, past>>

-----------------------------------------------------------------------------
(* The server, the clock, unerrd and the user's switch.                      *)

\* What the server may say to r, if the request gets through; the etag of a document
\* is its version only, which another team's document may share.
Says(r, station) ==
  IF r.tok \in revoked THEN {"revoked"}
  ELSE IF station # "sync" THEN {"ok"}
  ELSE {"ok"} \cup (IF r.existing = None THEN {} ELSE {"same"})

\* The request fails, or the server cannot sign plans.
Mishaps(r, station) ==
  {"failed"} \cup IF r.tok \in revoked \/ station = "sync" THEN {} ELSE {"unsigned"}

Answer(p) ==
  /\ pc[p] \in Asking /\ req[p].ans = "none"
  /\ \/ \E a \in Says(req[p], pc[p]) : req' = [req EXCEPT ![p].ans = a] /\ UNCHANGED upsets
     \/ \E a \in Mishaps(req[p], pc[p]) : req' = [req EXCEPT ![p].ans = a] /\ Upset
  /\ UNCHANGED <<files, skew, revoked, pc, past>>

Disconnect(t) ==
  /\ t \notin revoked /\ revoked' = revoked \cup {t}
  /\ UNCHANGED <<files, skew, upsets, pc, req, past>>

\* Past these bounds the age and the lead make no difference.
Tick ==
  /\ cache # NoCache
  /\ cache' = [cache EXCEPT !.age = IF @ <= Grace + MaxSkew /\ cache.signed THEN @ + 1 ELSE @,
                            !.lead = IF @ > -MaxSkew THEN @ - 1 ELSE @]
  /\ UNCHANGED <<creds, doc, marker, world, pc, req, past>>

\* The clock is set wrong, or right.
SetClock ==
  /\ \/ skew # 0 /\ skew' = 0 /\ UNCHANGED upsets
     \/ Upset /\ skew' \in -MaxSkew..MaxSkew
  /\ UNCHANGED <<files, revoked, pc, req, past>>

\* unerrd ends and starts again, with a job of its own.
Restart ==
  /\ pc[Job] # "idle" /\ Upset /\ Rest(Job, "idle")
  /\ UNCHANGED <<files, skew, revoked, past>>

-----------------------------------------------------------------------------
JobStep ==
  \/ JobSkips \/ JobStarts \/ JobRevoked \/ JobRefreshed \/ JobFails \/ Synced(Job)

Command(s) ==
  \/ LoginStarts(s) \/ Renewed(s) \/ LoggedIn(s) \/ Primed(s)
  \/ LogoutStarts(s) \/ LogoutEnds(s) \/ WhoamiStarts(s) \/ WhoamiAnswered(s)
  \/ PullStarts(s) \/ Synced(s) \/ ShellRevoked(s) \/ ShellFails(s) \/ Interrupt(s)

World ==
  \/ \E p \in Procs : Answer(p)
  \/ \E t \in Tokens : Disconnect(t)
  \/ Tick \/ SetClock \/ Restart

Next == JobStep \/ (\E s \in Shells : Command(s)) \/ World

Spec == Init /\ [][Next]_vars

\* Time passes, the job's timer fires, requests are answered or time out, and a login
\* goes on with the answer.
Fairness ==
  /\ WF_vars(Tick) /\ WF_vars(JobStep)
  /\ \A p \in Procs : WF_vars(Answer(p))
  /\ \A s \in Shells : WF_vars(Renewed(s) \/ Primed(s))
FairSpec == Spec /\ Fairness

-----------------------------------------------------------------------------
(* Safety.                                                                   *)

\* deleteEntitlementsCache, deleteTeamConventionsCache: no plan and no document survives
\* the login it came with.  Two ways apart, in which they do: the login changed while a
\* request for the one before was under way, and login dropped or overwrote one.
NothingOutlivesLogin ==
  past \in {"clean", "lost"} => cache.tok \in {None, creds} /\ doc \in {None, creds}

\* auth-events.json is all that tells a machine disconnected by its team from one that never
\* logged in.  A machine with a login never says it is disconnected.  One whose login was
\* wiped says so until the user logs in or out, and none other does, with one exception: if
\* a request was under way when the login changed, the job may store the answer to it after
\* the wipe, and clears the marker of a disconnected machine.
MarkerIsTrue ==
  /\ marker => creds = None
  /\ past \in {"clean", "leftover"} => ~marker
  /\ past = "lost" => marker /\ creds = None

\* A login the server honours is never wiped as revoked, but by the answer to a request of
\* an earlier login.
ValidLoginStays ==
  [][creds' = None /\ marker' /\ creds \in Tokens \ revoked => past = "inflight"]_vars

-----------------------------------------------------------------------------
(* Liveness.                                                                 *)

\* A login that lasts has a usable plan again and again, however often requests fail, unless
\* the clock is behind or the team has disconnected the machine.
LoginGetsPlan ==
  \/ []<><<creds' # creds>>_creds
  \/ []<>(creds = None \/ revoked # {} \/ skew < 0 \/ (cache.tok = creds /\ Honoured(cache)))

\* The plan of a disconnected machine lapses for good, whatever is under way and however
\* its clock is set.
RevokedLapses ==
  <>[](cache.tok \in revoked => ~Honoured(cache))

-----------------------------------------------------------------------------
(* What the repository says, and the code does not keep.                     *)

\* refreshAndDescribePlan: after a failed refresh "the daemon's periodic job will catch up".
PlanCatchesUp ==
  \/ []<><<creds' # creds>>_creds
  \/ []<>(creds \in {None, cache.tok} \cup revoked)
=============================================================================
