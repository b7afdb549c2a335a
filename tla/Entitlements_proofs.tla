------------------------ MODULE Entitlements_proofs ------------------------
(* Theorems about Entitlements, for any number of tokens, commands, upsets and any
   grace and clock error.

   NothingOutlivesLogin is not inductive: a request answered late writes the plan of
   the login it was made for.  RequestsMatch says for which histories that is the
   login of now; everything else follows from it.                                  *)
EXTENDS Entitlements, TLAPS

Calm == past # "inflight"

\* A process has a request exactly while it asks.
AskersHaveTokens ==
  \A p \in Procs :
    /\ pc[p] \in Asking => req[p].tok \in Tokens
    /\ pc[p] \notin Asking => req[p] = NoRequest

\* Unless the login changed under a request, every request is for the login of now, and
\* unless one was left behind, so is the document it has read.
RequestsMatch ==
  \A p \in Procs : pc[p] \in Asking =>
    /\ Calm => req[p].tok = creds
    /\ past \in {"clean", "lost"} => req[p].existing \in {None, creds}

\* Only machines disconnected by their team are told so.
RevokedIsTrue == \A p \in Procs : req[p].ans = "revoked" => req[p].tok \in revoked

IInv ==
  /\ Shape /\ AskersHaveTokens /\ RequestsMatch /\ RevokedIsTrue
  /\ NothingOutlivesLogin /\ MarkerIsTrue

-----------------------------------------------------------------------------
(* What Ask and Rest do to the stations and the requests.                    *)

Only(p) == \A q \in Procs : q # p => pc'[q] = pc[q] /\ req'[q] = req[q]

LEMMA AskMoves ==
  ASSUME Shape, NEW p \in Procs, NEW station \in Asking, NEW t \in Tokens,
         Ask(p, station, t)
  PROVE  /\ pc' \in [Procs -> Stations]
         /\ req' \in [Procs -> [tok : Tokens \cup {None}, ans : Answers,
                                existing : Tokens \cup {None}]]
         /\ pc'[p] = station
         /\ req'[p].tok = t /\ req'[p].ans = "none" /\ req'[p].existing \in {None, doc}
         /\ Only(p)
<1> DEFINE r == [tok |-> t, ans |-> "none",
                 existing |-> IF station = "sync" THEN doc ELSE None]
<1>1. r \in [tok : Tokens \cup {None}, ans : Answers, existing : Tokens \cup {None}]
  BY DEF Shape, Answers
<1>2. r.tok = t /\ r.ans = "none" /\ r.existing \in {None, doc}
  OBVIOUS
<1>3. req' = [req EXCEPT ![p] = r] /\ pc' = [pc EXCEPT ![p] = station]
  BY DEF Ask
<1> HIDE DEF r
<1>4. req'[p] = r /\ pc'[p] = station /\ Only(p)
  BY <1>3 DEF Shape, Only
<1> QED
  BY <1>1, <1>2, <1>3, <1>4 DEF Shape, Stations

LEMMA RestMoves ==
  ASSUME Shape, NEW p \in Procs, NEW station \in Stations, Rest(p, station)
  PROVE  /\ pc' \in [Procs -> Stations]
         /\ req' \in [Procs -> [tok : Tokens \cup {None}, ans : Answers,
                                existing : Tokens \cup {None}]]
         /\ pc'[p] = station /\ req'[p] = NoRequest /\ Only(p)
<1>1. NoRequest \in [tok : Tokens \cup {None}, ans : Answers, existing : Tokens \cup {None}]
  BY DEF NoRequest, Answers
<1>2. req' = [req EXCEPT ![p] = NoRequest] /\ pc' = [pc EXCEPT ![p] = station]
  BY DEF Rest
<1>3. req'[p] = NoRequest /\ pc'[p] = station /\ Only(p)
  BY <1>2 DEF Shape, Only
<1> QED
  BY <1>1, <1>2, <1>3 DEF Shape

LEMMA CacheIsTyped ==
  ASSUME Shape, NEW r \in [tok : Tokens \cup {None}, ans : Answers,
                            existing : Tokens \cup {None}]
  PROVE  /\ Refreshed(r) \in [tok : Tokens \cup {None}, signed : BOOLEAN, age : Nat, lead : Int]
         /\ Refreshed(r) = cache \/ Refreshed(r).tok = r.tok
<1>1. CASE r.ans \in {"ok", "unsigned"}
  <2> DEFINE seen == Ahead(0, skew)
             lead == IF cache = NoCache THEN seen ELSE Ahead(cache.lead, seen)
             c == [tok |-> r.tok, signed |-> r.ans = "ok", age |-> 0, lead |-> lead]
  <2>1. skew \in Int /\ cache.lead \in Int
    BY BoundsAssumption DEF Shape
  <2>2. lead \in Int
    BY <2>1 DEF Ahead
  <2>3. (r.ans = "ok") \in BOOLEAN /\ r.tok \in Tokens \cup {None}
    OBVIOUS
  <2>4. Refreshed(r) = c
    BY <1>1 DEF Refreshed
  <2> HIDE DEF lead, seen
  <2> QED
    BY <2>2, <2>3, <2>4
<1>2. CASE r.ans \notin {"ok", "unsigned"}
  BY <1>2 DEF Refreshed, Shape
<1> QED
  BY <1>1, <1>2

-----------------------------------------------------------------------------
(* A process that writes nothing, or is answered.                            *)

LEMMA QuietSteps ==
  ASSUME IInv, NEW p \in Procs, NEW station \in Stations \ Asking, Rest(p, station),
         UNCHANGED files, UNCHANGED past, UNCHANGED <<skew, revoked>>, upsets' \in 0..MaxUpsets
  PROVE  IInv'
<1>1. Shape /\ Shape'
  BY RestMoves DEF IInv, Shape, files
<1>2. pc'[p] = station /\ req'[p] = NoRequest /\ Only(p)
  BY RestMoves DEF IInv
<1>3. AskersHaveTokens' /\ RequestsMatch' /\ RevokedIsTrue'
  BY <1>2 DEF IInv, AskersHaveTokens, RequestsMatch, RevokedIsTrue, Only, files, NoRequest, Calm
<1> QED
  BY <1>1, <1>3 DEF IInv, NothingOutlivesLogin, MarkerIsTrue, files

LEMMA AskSteps ==
  ASSUME IInv, NEW p \in Procs, NEW station \in Asking, NEW t \in Tokens, Ask(p, station, t),
         Calm => t = creds,
         UNCHANGED files, UNCHANGED past, UNCHANGED world
  PROVE  IInv'
<1>1. Shape /\ Shape'
  BY AskMoves DEF IInv, Shape, files, world
<1>2. /\ pc'[p] = station /\ Only(p)
      /\ req'[p].tok = t /\ req'[p].ans = "none" /\ req'[p].existing \in {None, doc}
  BY AskMoves DEF IInv
<1>3. AskersHaveTokens' /\ RequestsMatch' /\ RevokedIsTrue'
  BY <1>2 DEF IInv, AskersHaveTokens, RequestsMatch, RevokedIsTrue, Only, files, world, Calm,
              NothingOutlivesLogin
<1> QED
  BY <1>1, <1>3 DEF IInv, NothingOutlivesLogin, MarkerIsTrue, files

-----------------------------------------------------------------------------
(* The steps that change the login.                                          *)

\* A wipe leaves nothing behind, but a request under way: then the history says so.
LEMMA RevokedSteps ==
  ASSUME IInv, NEW p \in Procs, NEW station \in Stations \ Asking,
         HandleRevoked(p), Rest(p, station), UNCHANGED world
  PROVE  IInv'
<1>1. /\ pc'[p] = station /\ req'[p] = NoRequest /\ Only(p)
      /\ pc' \in [Procs -> Stations]
      /\ req' \in [Procs -> [tok : Tokens \cup {None}, ans : Answers,
                             existing : Tokens \cup {None}]]
  BY RestMoves DEF IInv
<1>2. creds' = None /\ cache' = NoCache /\ doc' = None /\ marker' = TRUE
  BY DEF HandleRevoked, Wiped
<1>3. NoCache \in [tok : Tokens \cup {None}, signed : BOOLEAN, age : Nat, lead : Int]
  BY DEF NoCache
<1>4. past' = IF Crosses(p) THEN "inflight" ELSE "lost"
  BY DEF HandleRevoked, Erased
<1>5. Shape'
  BY <1>1, <1>2, <1>3, <1>4 DEF IInv, Shape, world, Pasts
<1>6. AskersHaveTokens' /\ RevokedIsTrue'
  BY <1>1 DEF IInv, AskersHaveTokens, RevokedIsTrue, Only, world, NoRequest
<1>7. RequestsMatch'
  BY <1>1, <1>4 DEF RequestsMatch, Only, Crosses, Calm
<1>8. NothingOutlivesLogin' /\ MarkerIsTrue'
  BY <1>2, <1>4 DEF NothingOutlivesLogin, MarkerIsTrue, NoCache
<1> QED
  BY <1>5, <1>6, <1>7, <1>8 DEF IInv

LEMMA LogoutSteps ==
  ASSUME IInv, NEW s \in Shells, LogoutEnds(s)
  PROVE  IInv'
<1>1. s \in Procs /\ "idle" \in Stations \ Asking
  BY DEF Procs, Stations, Asking
<1>2. /\ pc'[s] = "idle" /\ req'[s] = NoRequest /\ Only(s)
      /\ pc' \in [Procs -> Stations]
      /\ req' \in [Procs -> [tok : Tokens \cup {None}, ans : Answers,
                             existing : Tokens \cup {None}]]
  BY <1>1, RestMoves DEF IInv, LogoutEnds
<1>3. creds' = None /\ cache' = NoCache /\ doc' = None /\ marker' = FALSE
  BY DEF LogoutEnds, Wiped
<1>4. NoCache \in [tok : Tokens \cup {None}, signed : BOOLEAN, age : Nat, lead : Int]
  BY DEF NoCache
<1>5. past' = IF Crosses(s) THEN "inflight" ELSE "clean"
  BY DEF LogoutEnds, Erased
<1>6. UNCHANGED world
  BY DEF LogoutEnds
<1>7. Shape'
  BY <1>2, <1>3, <1>4, <1>5, <1>6 DEF IInv, Shape, world, Pasts
<1>8. AskersHaveTokens' /\ RevokedIsTrue'
  BY <1>1, <1>2, <1>6 DEF IInv, AskersHaveTokens, RevokedIsTrue, Only, world, NoRequest
<1>9. RequestsMatch'
  BY <1>1, <1>2, <1>5 DEF RequestsMatch, Only, Crosses, Calm
<1>10. NothingOutlivesLogin' /\ MarkerIsTrue'
  BY <1>3, <1>5 DEF NothingOutlivesLogin, MarkerIsTrue, NoCache
<1> QED
  BY <1>7, <1>8, <1>9, <1>10 DEF IInv

LEMMA LoginSteps ==
  ASSUME IInv, NEW s \in Shells, LoggedIn(s)
  PROVE  IInv'
<1>1. PICK t \in Tokens \ revoked :
        creds' = t /\ Ask(s, "prime", t) /\ Changed(s, IF creds \in {None, t} THEN "clean" ELSE "leftover")
  BY DEF LoggedIn
<1>2. s \in Procs /\ "prime" \in Asking /\ t \in Tokens /\ t # None
  BY TokensAssumption DEF Procs, Asking
<1>3. /\ pc'[s] = "prime" /\ Only(s)
      /\ req'[s].tok = t /\ req'[s].ans = "none"
      /\ pc' \in [Procs -> Stations]
      /\ req' \in [Procs -> [tok : Tokens \cup {None}, ans : Answers,
                             existing : Tokens \cup {None}]]
  BY <1>1, <1>2, AskMoves DEF IInv
<1>4. req'[s].existing = None
  BY <1>1, <1>2 DEF Ask, IInv, Shape
<1>5. marker' = FALSE /\ UNCHANGED <<cache, doc, world>>
  BY DEF LoggedIn, FreshStart
<1>6. past' = IF Crosses(s) THEN "inflight"
              ELSE IF past \in {"clean", "lost"}
                   THEN IF creds \in {None, t} THEN "clean" ELSE "leftover"
                   ELSE past
  BY <1>1 DEF Changed
<1>7. Shape'
  BY <1>1, <1>2, <1>3, <1>5, <1>6 DEF IInv, Shape, world, Pasts
<1>8. AskersHaveTokens' /\ RevokedIsTrue'
  BY <1>2, <1>3, <1>5 DEF IInv, AskersHaveTokens, RevokedIsTrue, Only, world
<1>9. RequestsMatch'
  BY <1>1, <1>2, <1>3, <1>4, <1>6 DEF RequestsMatch, Only, Crosses, Calm
<1>10. NothingOutlivesLogin'
  BY <1>1, <1>2, <1>5, <1>6 DEF IInv, NothingOutlivesLogin
<1>11. MarkerIsTrue'
  BY <1>5, <1>6 DEF IInv, MarkerIsTrue, Shape, Pasts
<1> QED
  BY <1>7, <1>8, <1>9, <1>10, <1>11 DEF IInv

\* A renewal that did not help leaves no login, and what came with it.
LEMMA RenewSteps ==
  ASSUME IInv, NEW s \in Shells, Renewed(s)
  PROVE  IInv'
<1>1. s \in Procs /\ "idle" \in Stations \ Asking /\ "device" \in Stations \ Asking
  BY DEF Procs, Stations, Asking
<1>2. /\ pc[s] = "renew" /\ pc[s] \in Asking /\ cache' = Refreshed(req[s])
      /\ UNCHANGED <<doc, marker, world>>
  BY DEF Renewed, Has, Asking
<1>3. PICK station \in {"idle", "device"} : Rest(s, station)
  BY DEF Renewed
<1>4. /\ pc'[s] \notin Asking /\ req'[s] = NoRequest /\ Only(s)
      /\ pc' \in [Procs -> Stations]
      /\ req' \in [Procs -> [tok : Tokens \cup {None}, ans : Answers,
                             existing : Tokens \cup {None}]]
  BY <1>1, <1>3, RestMoves DEF IInv
<1>5. /\ req[s] \in [tok : Tokens \cup {None}, ans : Answers, existing : Tokens \cup {None}]
      /\ req[s].tok \in Tokens /\ (Calm => req[s].tok = creds)
  BY <1>1, <1>2 DEF IInv, Shape, AskersHaveTokens, RequestsMatch
<1>6. /\ cache' \in [tok : Tokens \cup {None}, signed : BOOLEAN, age : Nat, lead : Int]
      /\ cache' = cache \/ cache'.tok = req[s].tok
  BY <1>2, <1>5, CacheIsTyped DEF IInv
<1>7. \/ creds' = None /\ past' = IF Crosses(s) THEN "inflight"
                                  ELSE IF past \in {"clean", "lost"} THEN "leftover" ELSE past
      \/ creds' = creds /\ past' = past
  BY DEF Renewed, Changed
<1>8. Shape'
  BY <1>2, <1>4, <1>6, <1>7 DEF IInv, Shape, world, Pasts
<1>9. AskersHaveTokens' /\ RevokedIsTrue'
  BY <1>1, <1>2, <1>4 DEF IInv, AskersHaveTokens, RevokedIsTrue, Only, world, NoRequest
<1>10. RequestsMatch'
  BY <1>1, <1>4, <1>7 DEF IInv, RequestsMatch, Only, Crosses, Calm
<1>11. creds \in Tokens \/ ~Calm
  BY <1>5
<1>12. NothingOutlivesLogin'
  BY <1>2, <1>5, <1>6, <1>7 DEF IInv, NothingOutlivesLogin, Calm
<1>13. MarkerIsTrue'
  BY <1>2, <1>7, <1>11, TokensAssumption DEF IInv, MarkerIsTrue, Calm
<1> QED
  BY <1>8, <1>9, <1>10, <1>12, <1>13 DEF IInv

-----------------------------------------------------------------------------
(* The steps that store an answer.                                           *)

LEMMA PrimeSteps ==
  ASSUME IInv, NEW s \in Shells, Primed(s)
  PROVE  IInv'
<1>1. s \in Procs /\ "idle" \in Stations \ Asking
  BY DEF Procs, Stations, Asking
<1>2. /\ pc[s] = "prime" /\ pc[s] \in Asking /\ cache' = Refreshed(req[s]) /\ Rest(s, "idle")
      /\ UNCHANGED <<creds, doc, marker, world, past>>
  BY DEF Primed, Has, Asking
<1>3. /\ pc'[s] \notin Asking /\ req'[s] = NoRequest /\ Only(s)
      /\ pc' \in [Procs -> Stations]
      /\ req' \in [Procs -> [tok : Tokens \cup {None}, ans : Answers,
                             existing : Tokens \cup {None}]]
  BY <1>1, <1>2, RestMoves DEF IInv
<1>4. /\ req[s] \in [tok : Tokens \cup {None}, ans : Answers, existing : Tokens \cup {None}]
      /\ Calm => req[s].tok = creds
  BY <1>1, <1>2 DEF IInv, Shape, RequestsMatch
<1>5. /\ cache' \in [tok : Tokens \cup {None}, signed : BOOLEAN, age : Nat, lead : Int]
      /\ cache' = cache \/ cache'.tok = req[s].tok
  BY <1>2, <1>4, CacheIsTyped DEF IInv
<1>6. Shape'
  BY <1>2, <1>3, <1>5 DEF IInv, Shape, world
<1>7. AskersHaveTokens' /\ RevokedIsTrue'
  BY <1>1, <1>2, <1>3 DEF IInv, AskersHaveTokens, RevokedIsTrue, Only, world, NoRequest
<1>8. RequestsMatch' /\ MarkerIsTrue'
  BY <1>1, <1>2, <1>3 DEF IInv, RequestsMatch, MarkerIsTrue, Only, Calm
<1>9. NothingOutlivesLogin'
  BY <1>2, <1>4, <1>5 DEF IInv, NothingOutlivesLogin, Calm
<1> QED
  BY <1>6, <1>7, <1>8, <1>9 DEF IInv

LEMMA RefreshSteps ==
  ASSUME IInv, JobRefreshed
  PROVE  IInv'
<1>1. Job \in Procs /\ "idle" \in Stations \ Asking /\ "sync" \in Asking
  BY DEF Procs, Stations, Asking
<1>2. /\ pc[Job] = "refresh" /\ pc[Job] \in Asking
      /\ cache' = Refreshed(req[Job]) /\ marker' = FALSE
      /\ UNCHANGED <<creds, doc, world, past>>
  BY DEF JobRefreshed, Asking
<1>3. /\ req[Job] \in [tok : Tokens \cup {None}, ans : Answers, existing : Tokens \cup {None}]
      /\ req[Job].tok \in Tokens /\ (Calm => req[Job].tok = creds)
  BY <1>1, <1>2 DEF IInv, Shape, RequestsMatch, AskersHaveTokens
<1>4. /\ cache' \in [tok : Tokens \cup {None}, signed : BOOLEAN, age : Nat, lead : Int]
      /\ cache' = cache \/ cache'.tok = req[Job].tok
  BY <1>2, <1>3, CacheIsTyped DEF IInv
<1>5. /\ Only(Job)
      /\ pc' \in [Procs -> Stations]
      /\ req' \in [Procs -> [tok : Tokens \cup {None}, ans : Answers,
                             existing : Tokens \cup {None}]]
      /\ \/ pc'[Job] \notin Asking /\ req'[Job] = NoRequest
         \/ /\ pc'[Job] \in Asking /\ req'[Job].tok = req[Job].tok /\ req'[Job].ans = "none"
            /\ req'[Job].existing \in {None, doc}
  <2>1. CASE Rest(Job, "idle")
    BY <1>1, <2>1, RestMoves DEF IInv
  <2>2. CASE Ask(Job, "sync", req[Job].tok)
    BY <1>1, <1>3, <2>2, AskMoves DEF IInv
  <2> QED
    BY <2>1, <2>2 DEF JobRefreshed
<1>6. Shape'
  BY <1>2, <1>4, <1>5 DEF IInv, Shape, world
<1>7. AskersHaveTokens' /\ RevokedIsTrue'
  BY <1>1, <1>2, <1>3, <1>5 DEF IInv, AskersHaveTokens, RevokedIsTrue, Only, world, NoRequest
<1>8. RequestsMatch'
  BY <1>1, <1>2, <1>3, <1>5 DEF IInv, RequestsMatch, NothingOutlivesLogin, Only, Calm
<1>9. NothingOutlivesLogin'
  BY <1>2, <1>3, <1>4 DEF IInv, NothingOutlivesLogin, Calm
<1>10. MarkerIsTrue'
  BY <1>2, <1>3, TokensAssumption DEF IInv, MarkerIsTrue, Calm
<1> QED
  BY <1>6, <1>7, <1>8, <1>9, <1>10 DEF IInv

LEMMA SyncSteps ==
  ASSUME IInv, NEW p \in Procs, Synced(p)
  PROVE  IInv'
<1>1. "idle" \in Stations \ Asking
  BY DEF Stations, Asking
<1>2. /\ pc[p] \in Asking /\ doc' \in {req[p].tok, req[p].existing} /\ Rest(p, "idle")
      /\ UNCHANGED <<creds, cache, marker, world, past>>
  BY DEF Synced, Asking
<1>3. /\ pc'[p] \notin Asking /\ req'[p] = NoRequest /\ Only(p)
      /\ pc' \in [Procs -> Stations]
      /\ req' \in [Procs -> [tok : Tokens \cup {None}, ans : Answers,
                             existing : Tokens \cup {None}]]
  BY <1>1, <1>2, RestMoves DEF IInv
<1>4. /\ req[p] \in [tok : Tokens \cup {None}, ans : Answers, existing : Tokens \cup {None}]
      /\ past \in {"clean", "lost"} => req[p].tok = creds /\ req[p].existing \in {None, creds}
  BY <1>2 DEF IInv, Shape, RequestsMatch, Calm
<1>5. Shape'
  BY <1>2, <1>3, <1>4 DEF IInv, Shape, world
<1>6. AskersHaveTokens' /\ RevokedIsTrue'
  BY <1>2, <1>3 DEF IInv, AskersHaveTokens, RevokedIsTrue, Only, world, NoRequest
<1>7. RequestsMatch' /\ MarkerIsTrue'
  BY <1>2, <1>3 DEF IInv, RequestsMatch, MarkerIsTrue, Only, Calm
<1>8. NothingOutlivesLogin'
  BY <1>2, <1>4 DEF IInv, NothingOutlivesLogin
<1> QED
  BY <1>5, <1>6, <1>7, <1>8 DEF IInv

-----------------------------------------------------------------------------
(* The server, the clock and unerrd.                                         *)

LEMMA AnswerSteps ==
  ASSUME IInv, NEW p \in Procs, Answer(p)
  PROVE  IInv'
<1>1. PICK a \in Answers : /\ req' = [req EXCEPT ![p].ans = a]
                           /\ a = "revoked" => req[p].tok \in revoked
  BY DEF Answer, Says, Mishaps, Answers
<1>2. UNCHANGED <<files, skew, revoked, pc, past>> /\ upsets' \in 0..MaxUpsets
  <2>1. upsets' = upsets \/ Upset
    BY DEF Answer
  <2> QED
    BY <2>1, BoundsAssumption DEF Answer, Upset, IInv, Shape
<1>3. pc[p] \in Asking
  BY DEF Answer
<1>4. req \in [Procs -> [tok : Tokens \cup {None}, ans : Answers, existing : Tokens \cup {None}]]
  BY DEF IInv, Shape
<1>5. /\ req' \in [Procs -> [tok : Tokens \cup {None}, ans : Answers, existing : Tokens \cup {None}]]
      /\ req'[p].tok = req[p].tok /\ req'[p].existing = req[p].existing /\ req'[p].ans = a
      /\ \A q \in Procs : q # p => req'[q] = req[q]
  BY <1>1, <1>4
<1>6. Shape'
  BY <1>2, <1>5 DEF IInv, Shape, files
<1>7. AskersHaveTokens' /\ RequestsMatch'
  BY <1>2, <1>3, <1>5 DEF IInv, AskersHaveTokens, RequestsMatch, files, Calm
<1>8. RevokedIsTrue'
  BY <1>1, <1>2, <1>5 DEF IInv, RevokedIsTrue
<1>9. NothingOutlivesLogin' /\ MarkerIsTrue'
  BY <1>2 DEF IInv, NothingOutlivesLogin, MarkerIsTrue, files
<1> QED
  BY <1>6, <1>7, <1>8, <1>9 DEF IInv

\* Steps in which no process moves and no file changes, but for the times in the cache.
LEMMA WorldSteps ==
  ASSUME IInv, UNCHANGED <<creds, doc, marker, pc, req, past>>,
         skew' \in -MaxSkew..MaxSkew, revoked \subseteq revoked', revoked' \subseteq Tokens,
         upsets' \in 0..MaxUpsets, cache'.tok = cache.tok,
         cache' \in [tok : Tokens \cup {None}, signed : BOOLEAN, age : Nat, lead : Int]
  PROVE  IInv'
<1>1. Shape'
  BY DEF IInv, Shape
<1>2. AskersHaveTokens' /\ RequestsMatch' /\ RevokedIsTrue'
  BY DEF IInv, AskersHaveTokens, RequestsMatch, RevokedIsTrue, Calm
<1>3. NothingOutlivesLogin' /\ MarkerIsTrue'
  BY DEF IInv, NothingOutlivesLogin, MarkerIsTrue
<1> QED
  BY <1>1, <1>2, <1>3 DEF IInv

LEMMA TickSteps ==
  ASSUME IInv, Tick
  PROVE  IInv'
<1>1. cache \in [tok : Tokens \cup {None}, signed : BOOLEAN, age : Nat, lead : Int]
  BY DEF IInv, Shape
<1>2. /\ cache' \in [tok : Tokens \cup {None}, signed : BOOLEAN, age : Nat, lead : Int]
      /\ cache'.tok = cache.tok
  <2>1. PICK a \in Nat, l \in Int : cache' = [cache EXCEPT !.age = a, !.lead = l]
    <3> DEFINE a == IF cache.age <= Grace + MaxSkew /\ cache.signed THEN cache.age + 1 ELSE cache.age
               l == IF cache.lead > -MaxSkew THEN cache.lead - 1 ELSE cache.lead
    <3>1. a \in Nat /\ l \in Int
      BY <1>1
    <3>2. cache' = [cache EXCEPT !.age = a, !.lead = l]
      BY DEF Tick
    <3> QED
      BY <3>1, <3>2
  <2> QED
    BY <1>1, <2>1
<1>3. UNCHANGED <<creds, doc, marker, skew, revoked, upsets, pc, req, past>>
  BY DEF Tick, world
<1> QED
  BY <1>2, <1>3, WorldSteps DEF IInv, Shape

-----------------------------------------------------------------------------
(* All steps.                                                                *)

LEMMA InitIInv == Init => IInv
<1> SUFFICES ASSUME Init PROVE IInv
  OBVIOUS
<1>1. NoCache \in [tok : Tokens \cup {None}, signed : BOOLEAN, age : Nat, lead : Int]
  BY DEF NoCache
<1>2. NoRequest \in [tok : Tokens \cup {None}, ans : Answers, existing : Tokens \cup {None}]
  BY DEF NoRequest, Answers
<1>3. 0 \in -MaxSkew..MaxSkew /\ 0 \in 0..MaxUpsets
  BY BoundsAssumption
<1>4. Shape
  BY <1>1, <1>2, <1>3 DEF Init, Shape, Stations, Pasts
<1> QED
  BY <1>4 DEF Init, IInv, AskersHaveTokens, RequestsMatch, RevokedIsTrue, NothingOutlivesLogin,
              MarkerIsTrue, NoCache, NoRequest, Asking

LEMMA JobKeepsIInv == IInv /\ JobStep => IInv'
<1> SUFFICES ASSUME IInv, JobStep PROVE IInv'
  OBVIOUS
<1>1. Job \in Procs /\ {"idle", "stopped"} \subseteq Stations \ Asking /\ "refresh" \in Asking
  BY DEF Procs, Stations, Asking
<1>2. CASE JobSkips
  <2>1. upsets' \in 0..MaxUpsets
    BY <1>2, BoundsAssumption DEF JobSkips, Upset, IInv, Shape
  <2>2. UNCHANGED <<creds, cache, doc, marker, pc, req, past, skew, revoked>>
    BY <1>2 DEF JobSkips, Skipped, files
  <2> QED
    BY <2>1, <2>2, WorldSteps DEF IInv, Shape
<1>3. CASE JobStarts
  <2>1. creds \in Tokens /\ Ask(Job, "refresh", creds) /\ UNCHANGED <<files, world, past>>
    BY <1>3 DEF JobStarts, IInv, Shape
  <2> QED
    BY <1>1, <2>1, AskSteps
<1>4. CASE JobRevoked
  BY <1>1, <1>4, RevokedSteps DEF JobRevoked
<1>5. CASE JobRefreshed
  BY <1>5, RefreshSteps
<1>6. CASE JobFails
  <2>1. Rest(Job, "idle") /\ UNCHANGED files /\ UNCHANGED past /\ UNCHANGED <<skew, revoked>>
        /\ upsets' \in 0..MaxUpsets
    BY <1>6 DEF JobFails, world, IInv, Shape
  <2> QED
    BY <1>1, <2>1, QuietSteps
<1>7. CASE Synced(Job)
  BY <1>1, <1>7, SyncSteps
<1> QED
  BY <1>2, <1>3, <1>4, <1>5, <1>6, <1>7 DEF JobStep

LEMMA CommandKeepsIInv ==
  ASSUME IInv, NEW s \in Shells, Command(s)
  PROVE  IInv'
<1>1. s \in Procs /\ {"idle", "device", "bye"} \subseteq Stations \ Asking
      /\ {"renew", "whoami", "prime", "sync"} \subseteq Asking
  BY DEF Procs, Stations, Asking
<1>2. CASE \/ (LoginStarts(s) /\ creds = None) \/ LogoutStarts(s) \/ ShellFails(s) \/ Interrupt(s)
  <2>1. PICK station \in {"idle", "device", "bye"} : Rest(s, station)
    BY <1>2 DEF LoginStarts, LogoutStarts, ShellFails, Interrupt
  <2>2. UNCHANGED files /\ UNCHANGED past /\ UNCHANGED <<skew, revoked>> /\ upsets' \in 0..MaxUpsets
    BY <1>2 DEF LoginStarts, LogoutStarts, ShellFails, Interrupt, world, IInv, Shape
  <2> QED
    BY <1>1, <2>1, <2>2, QuietSteps
<1>3. CASE \/ (LoginStarts(s) /\ creds # None) \/ WhoamiStarts(s) \/ PullStarts(s)
  <2>1. creds \in Tokens /\ UNCHANGED <<files, world, past>>
    BY <1>3 DEF LoginStarts, WhoamiStarts, PullStarts, Blocked, IInv, Shape
  <2>2. PICK station \in {"renew", "whoami", "sync"} : Ask(s, station, creds)
    BY <1>3 DEF LoginStarts, WhoamiStarts, PullStarts
  <2> QED
    BY <1>1, <2>1, <2>2, AskSteps
<1>4. CASE WhoamiAnswered(s)
  <2>1. /\ pc[s] \in Asking /\ Ask(s, "prime", req[s].tok) /\ UNCHANGED <<files, world, past>>
    BY <1>4 DEF WhoamiAnswered, Asking
  <2>2. req[s].tok \in Tokens /\ (Calm => req[s].tok = creds)
    BY <1>1, <2>1 DEF IInv, AskersHaveTokens, RequestsMatch
  <2> QED
    BY <1>1, <2>1, <2>2, AskSteps
<1>5. CASE ShellRevoked(s)
  BY <1>1, <1>5, RevokedSteps DEF ShellRevoked
<1>6. CASE Renewed(s)
  BY <1>6, RenewSteps
<1>7. CASE LoggedIn(s)
  BY <1>7, LoginSteps
<1>8. CASE Primed(s)
  BY <1>8, PrimeSteps
<1>9. CASE LogoutEnds(s)
  BY <1>9, LogoutSteps
<1>10. CASE Synced(s)
  BY <1>1, <1>10, SyncSteps
<1> QED
  BY <1>2, <1>3, <1>4, <1>5, <1>6, <1>7, <1>8, <1>9, <1>10 DEF Command

LEMMA WorldKeepsIInv == IInv /\ World => IInv'
<1> SUFFICES ASSUME IInv, World PROVE IInv'
  OBVIOUS
<1>1. CASE \E p \in Procs : Answer(p)
  BY <1>1, AnswerSteps
<1>2. CASE \E t \in Tokens : Disconnect(t)
  <2>1. /\ revoked \subseteq revoked' /\ revoked' \subseteq Tokens
        /\ UNCHANGED <<creds, cache, doc, marker, skew, upsets, pc, req, past>>
    BY <1>2 DEF Disconnect, files, IInv, Shape
  <2> QED
    BY <2>1, WorldSteps DEF IInv, Shape
<1>3. CASE Tick
  BY <1>3, TickSteps
<1>4. CASE SetClock
  <2>1. skew' \in -MaxSkew..MaxSkew /\ upsets' \in 0..MaxUpsets
    BY <1>4, BoundsAssumption DEF SetClock, Upset, IInv, Shape
  <2>2. UNCHANGED <<creds, cache, doc, marker, revoked, pc, req, past>>
    BY <1>4 DEF SetClock, files
  <2> QED
    BY <2>1, <2>2, WorldSteps DEF IInv, Shape
<1>5. CASE Restart
  <2>1. Job \in Procs /\ "idle" \in Stations \ Asking
    BY DEF Procs, Stations, Asking
  <2>2. upsets' \in 0..MaxUpsets
    BY <1>5, BoundsAssumption DEF Restart, Upset, IInv, Shape
  <2>3. Rest(Job, "idle") /\ UNCHANGED files /\ UNCHANGED past /\ UNCHANGED <<skew, revoked>>
    BY <1>5 DEF Restart
  <2> QED
    BY <2>1, <2>2, <2>3, QuietSteps
<1> QED
  BY <1>1, <1>2, <1>3, <1>4, <1>5 DEF World

LEMMA NextIInv == IInv /\ [Next]_vars => IInv'
<1> SUFFICES ASSUME IInv, [Next]_vars PROVE IInv'
  OBVIOUS
<1>1. CASE UNCHANGED vars
  BY <1>1 DEF vars, files, world, IInv, Shape, AskersHaveTokens, RequestsMatch, RevokedIsTrue,
              NothingOutlivesLogin, MarkerIsTrue, Calm
<1> QED
  BY <1>1, JobKeepsIInv, CommandKeepsIInv, WorldKeepsIInv DEF Next

LEMMA IInvHolds == Spec => []IInv
  BY InitIInv, NextIInv, PTL DEF Spec

-----------------------------------------------------------------------------
(* The theorems.                                                             *)

\* Files, requests and history have their types, whatever fails.
THEOREM TypeCorrect == Spec => []TypeOK
<1>1. IInv => TypeOK
  BY DEF IInv, TypeOK, AskersHaveTokens
<1> QED
  BY <1>1, IInvHolds, PTL

\* No plan and no conventions are those of an earlier login, unless the login changed
\* while a request for it was under way, or login dropped or overwrote one.
THEOREM PlansEndWithLogin == Spec => []NothingOutlivesLogin
<1>1. IInv => NothingOutlivesLogin
  BY DEF IInv
<1> QED
  BY <1>1, IInvHolds, PTL

\* A connected machine has no marker; that of a disconnected one stands until the next login
\* or logout, unless a request was under way when its login was wiped, whose late answer
\* clears it.
THEOREM MarkerTellsTheTruth == Spec => []MarkerIsTrue
<1>1. IInv => MarkerIsTrue
  BY DEF IInv
<1> QED
  BY <1>1, IInvHolds, PTL

\* Only a late answer to an earlier login wipes one that the server honours.
THEOREM LoginsAreKept == Spec => ValidLoginStays
<1> DEFINE Kept == creds' = None /\ marker' /\ creds \in Tokens \ revoked => past = "inflight"
<1>1. IInv /\ [Next]_vars => [Kept]_vars
  <2> SUFFICES ASSUME IInv, Next, creds' = None, marker', creds \in Tokens \ revoked, Calm
               PROVE  FALSE
    BY DEF Calm
  <2>1. creds # None /\ creds \in Tokens /\ creds \notin revoked /\ ~marker
    <3>1. creds # None
      BY TokensAssumption
    <3>2. ~marker
      BY <3>1 DEF IInv, MarkerIsTrue, Shape, Pasts, Calm
    <3> QED
      BY <3>1, <3>2
  <2>2. \A p \in Procs : pc[p] \in Asking => req[p].ans # "revoked"
    BY <2>1 DEF IInv, RequestsMatch, RevokedIsTrue
  <2>3. \A p \in Procs, station \in Asking : pc[p] = station => ~Disconnected(req[p])
    BY <2>2 DEF Disconnected
  <2>4. ~JobRevoked
    BY <2>3 DEF JobRevoked, Asking, Procs
  <2>5. \A s \in Shells : ~ShellRevoked(s)
    BY <2>3 DEF ShellRevoked, Asking, Procs
  <2>6. CASE JobStep
    BY <2>1, <2>4, <2>6 DEF JobStep, JobSkips, JobStarts, JobRefreshed, JobFails, Synced, files
  <2>7. CASE \E s \in Shells : Command(s)
    <3>1. PICK s \in Shells : Command(s)
      BY <2>7
    <3> QED
      BY <2>1, <2>5, <3>1, TokensAssumption
      DEF Command, LoginStarts, Renewed, LoggedIn, Primed, LogoutStarts, LogoutEnds, WhoamiStarts,
          WhoamiAnswered, PullStarts, Synced, ShellFails, Interrupt, files, FreshStart
  <2>8. CASE World
    BY <2>1, <2>8 DEF World, Answer, Disconnect, Tick, SetClock, Restart, files
  <2> QED
    BY <2>6, <2>7, <2>8 DEF Next
<1> QED
  BY <1>1, IInvHolds, PTL DEF Spec, ValidLoginStays
=============================================================================
