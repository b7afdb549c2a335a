---------------------------- MODULE Transcripts ----------------------------
(* From an agent's transcript to the rows of the event store.  Hooks leave claims, small
   files that name a session; unerrd's pass, once a minute, reads what the transcript of
   each claimed session has gained, appends its turns to the store, saves how far it got,
   and removes old claims.  Agents and hooks are processes of their own, which write
   between any two steps of a pass.

   The pass tells a transcript by its inode, the store a turn by an id of its own: here the
   file it stands in, of all that were ever made, and its place there.  A turn is what
   buildTurns() makes one of: it follows one child of each node, and the others never become
   turns at all.  The unit of time is the pass's interval, against which a pass is short.  *)
EXTENDS Naturals, Sequences, SequencesExt, FiniteSets

CONSTANTS Convs,        \* conversations of one repository, each with a file
          Sessions,     \* unerr's session ids, of proxies and bridges
          None,
          Quiet, Ttl,   \* QUIET_MS, CLAIM_TTL_MS
          Cap,          \* MAX_ROWS_PER_TICK
          MaxTurns, MaxFiles, MaxClaims, MaxUpsets   \* bounds

ASSUME MarkAssumption == None \notin Convs
ASSUME TimesAssumption == Quiet \in Nat \ {0} /\ Ttl \in Nat /\ Cap \in Nat \ {0}
ASSUME BoundsAssumption ==
  MaxTurns \in Nat /\ MaxFiles \in Nat /\ MaxClaims \in Nat /\ MaxUpsets \in Nat

VARIABLES file,      \* transcripts: inode (0: there is none), which file it is, its turns
          quiet,     \* time since the last write
          newest,    \* the transcript written last
          busy,      \* conversations at work on a prompt
          claims,    \* in the order of observed_at
          offsets,   \* offsets.json
          shipped,   \* transcript rows of the event store, by event_id
          dropped,   \* history: rows whose append failed
          pc, todo, mem, cur,   \* the pass: its station, claims, offsets, and current read
          ran,       \* a pass has begun since the last tick
          files, upsets,
          overlap,   \* history: a prompt came while claims of another conversation were kept
          missed     \* history: turns no claim may follow, or a pass or append that failed

agents == <<file, quiet, newest, busy, files>>
store == <<shipped, dropped>>
pass == <<pc, todo, mem, cur, ran>>
vars == <<agents, claims, offsets, store, pass, upsets, overlap, missed>>

NoOffset == [ino |-> 0, at |-> 0]
NoRead == [sess |-> None, conv |-> None, ino |-> 0, from |-> 0]
Offsets == [ino : 0..MaxFiles, at : Nat]
Transcript == [ino : 0..MaxFiles, gen : 0..MaxFiles, turns : 0..MaxTurns]
Rows == Sessions \X (1..MaxFiles) \X (1..MaxTurns)
Claims == [sess : Sessions, native : Convs \cup {None}, age : 0..Ttl + 1, by : Convs]

TypeOK ==
  /\ file \in [Convs -> Transcript]
  /\ quiet \in [Convs -> 0..Quiet] /\ newest \in Convs \cup {None} /\ busy \subseteq Convs
  /\ claims \in Seq(Claims) /\ Len(claims) <= MaxClaims
  /\ offsets \in [Sessions -> Offsets] /\ mem \in [Sessions -> Offsets]
  /\ shipped \subseteq Rows /\ dropped \subseteq Rows
  /\ pc \in {"idle", "next", "reading", "saved"}
  /\ todo \subseteq Claims /\ (pc = "reading" <=> cur # NoRead)
  /\ ran \in BOOLEAN /\ files \in 0..MaxFiles /\ upsets \in 0..MaxUpsets
  /\ overlap \in BOOLEAN /\ missed \in BOOLEAN

Init ==
  /\ file = [c \in Convs |-> [ino |-> 0, gen |-> 0, turns |-> 0]]
  /\ quiet = [c \in Convs |-> 0] /\ newest = None /\ busy = {} /\ claims = <<>>
  /\ offsets = [s \in Sessions |-> NoOffset] /\ mem = offsets
  /\ shipped = {} /\ dropped = {} /\ pc = "idle" /\ todo = {} /\ cur = NoRead /\ ran = FALSE
  /\ files = 0 /\ upsets = 0 /\ overlap = FALSE /\ missed = FALSE

Upset == upsets < MaxUpsets /\ upsets' = upsets + 1

-----------------------------------------------------------------------------
(* Agents and their hooks.                                                   *)

\* The hook's own claim: its agent knows the conversation, the stop hooks do not.
Enqueue(s, native, c) ==
  /\ Len(claims) < MaxClaims
  /\ claims' = Append(claims, [sess |-> s, native |-> native, age |-> 0, by |-> c])

\* A prompt, with its claim unless it is too short for one; none comes to a transcript
\* that has reached its bound.
Prompt(c) ==
  /\ c \notin busy /\ file[c].turns < MaxTurns /\ busy' = busy \cup {c}
  /\ UNCHANGED claims \/ \E s \in Sessions : Enqueue(s, c, c)
  /\ overlap' = (overlap \/ busy # {} \/ \E i \in DOMAIN claims : claims[i].by # c)
  /\ UNCHANGED <<file, quiet, newest, files, offsets, store, pass, upsets, missed>>

\* The file of c is new.  Inodes bear the number of a file, that of the first one that had
\* them: the new one's is new as well, or that of a file that is gone, or the one c's had.
NewFile(c) ==
  /\ files < MaxFiles /\ files' = files + 1
  /\ \E i \in 1..files' :
       /\ \A d \in Convs \ {c} : file[d].ino # i
       /\ file' = [file EXCEPT ![c] = [ino |-> i, gen |-> files', turns |-> 1]]

\* The agent appends a turn.
Write(c) ==
  /\ c \in busy /\ quiet' = [quiet EXCEPT ![c] = 0] /\ newest' = c
  /\ \/ file[c].ino = 0 /\ NewFile(c)
     \/ /\ file[c].ino # 0 /\ file[c].turns < MaxTurns
        /\ file' = [file EXCEPT ![c].turns = @ + 1] /\ UNCHANGED files
  /\ UNCHANGED <<busy, claims, offsets, store, pass, upsets, overlap, missed>>

\* The agent replaces its transcript by a new file, or writes it anew in place.
Replace(c) ==
  /\ c \in busy /\ file[c].ino # 0 /\ Upset /\ NewFile(c)
  /\ quiet' = [quiet EXCEPT ![c] = 0] /\ newest' = c
  /\ UNCHANGED <<busy, claims, offsets, store, pass, overlap, missed>>

\* The stop hook, or that of a subagent, under the session of the last event in the
\* repository: that of the proxy or of a bridge.
Stop(c) ==
  /\ c \in busy /\ busy' \in {busy, busy \ {c}}
  /\ \E s \in Sessions : Enqueue(s, None, c)
  /\ UNCHANGED <<file, quiet, newest, files, offsets, store, pass, upsets, overlap, missed>>

\* The user interrupts the agent: no hook follows.
Interrupt(c) ==
  /\ c \in busy /\ busy' = busy \ {c} /\ Upset /\ missed' = TRUE
  /\ UNCHANGED <<file, quiet, newest, files, claims, offsets, store, pass, overlap>>

-----------------------------------------------------------------------------
(* The pass.                                                                 *)

\* latestClaimPerSession().
Latest ==
  {claims[i] : i \in {j \in DOMAIN claims :
     \A k \in DOMAIN claims : claims[k].sess = claims[j].sess => k <= j}}

\* resolveClaudeFile(): the file named by the claim, or the newest of the repository.
Resolved(claim) ==
  LET there == {c \in Convs : file[c].ino # 0}
  IN IF claim.native # None THEN there \cap {claim.native}
     ELSE there \cap {newest}

Settled(c) == quiet[c] >= Quiet

\* Where to read on in a file: where the last read of it ended.
AnyFile(prior, ino) == prior.at                                      \* a mutant
From(prior, ino) == IF prior.ino = ino THEN prior.at ELSE 0

PassStarts ==
  /\ pc = "idle" /\ ~ran /\ ran' = TRUE
  /\ IF claims = <<>> THEN UNCHANGED <<pc, todo, mem, cur>>
     ELSE pc' = "next" /\ todo' = Latest /\ mem' = offsets /\ UNCHANGED cur
  /\ UNCHANGED <<agents, claims, offsets, store, upsets, overlap, missed>>

\* A claim without a file, or whose file is still written to, is left for a later pass.
Skip ==
  /\ pc = "next"
  /\ \E claim \in todo :
       /\ Resolved(claim) = {} \/ \E c \in Resolved(claim) : ~Settled(c)
       /\ todo' = todo \ {claim}
  /\ UNCHANGED <<agents, claims, offsets, store, pc, mem, cur, ran, upsets, overlap, missed>>

Take ==
  /\ pc = "next" /\ pc' = "reading"
  /\ \E claim \in todo : \E c \in Resolved(claim) :
       /\ Settled(c) /\ todo' = todo \ {claim}
       /\ cur' = [sess |-> claim.sess, conv |-> c, ino |-> file[c].ino,
                  from |-> From(mem[claim.sess], file[c].ino)]
  /\ UNCHANGED <<agents, claims, offsets, store, mem, ran, upsets, overlap, missed>>

\* readClaudeTranscriptIncremental(): from the head again when the file has shrunk, and at
\* most Cap turns.
Start(read, turns) == IF read.from > turns THEN 0 ELSE read.from
PastTheEnd(read, turns) == Start(read, turns) + Cap                  \* a mutant
End(read, turns) ==
  LET most == Start(read, turns) + Cap IN IF most < turns THEN most ELSE turns

Advanced(at) ==
  /\ mem' = [mem EXCEPT ![cur.sess] = [ino |-> cur.ino, at |-> at]]
  /\ pc' = "next" /\ cur' = NoRead

\* appendEvent() swallows its failures: the offset moves all the same.
AllAppended(lost) == lost = {} /\ UNCHANGED <<upsets, missed>>
SomeLost(lost) == lost # {} /\ Upset /\ missed' = TRUE

Read ==
  /\ pc = "reading"
  /\ LET f == file[cur.conv]
         new == {<<cur.sess, f.gen, n>> : n \in Start(cur, f.turns) + 1 .. End(cur, f.turns)}
     IN /\ \E lost \in SUBSET new :
             /\ AllAppended(lost) \/ SomeLost(lost)
             /\ shipped' = shipped \cup (new \ lost) /\ dropped' = dropped \cup lost
        /\ Advanced(End(cur, f.turns))
  /\ UNCHANGED <<agents, claims, offsets, todo, ran, overlap>>

ReadFails ==
  /\ pc = "reading" /\ Upset /\ missed' = TRUE /\ Advanced(cur.from)
  /\ UNCHANGED <<agents, claims, offsets, store, todo, ran, overlap>>

Save ==
  /\ pc = "next" /\ todo = {} /\ pc' = "saved" /\ offsets' = mem
  /\ UNCHANGED <<agents, claims, store, todo, mem, cur, ran, upsets, overlap, missed>>

SaveFails ==
  /\ pc = "next" /\ todo = {} /\ Upset /\ pc' = "idle" /\ mem' = offsets /\ missed' = TRUE
  /\ UNCHANGED <<agents, claims, offsets, store, todo, cur, ran, overlap>>

\* sweepStaleClaimFiles(), by age alone: claims are kept in the order of their age, so that
\* the ones that go are the first.
KeptForOnePass(claim) == claim.age = 0                               \* a mutant
Kept(claim) == claim.age <= Ttl

Sweep ==
  /\ pc = "saved" /\ pc' = "idle"
  /\ \E n \in 0..Len(claims) :
       /\ \A i \in DOMAIN claims : Kept(claims[i]) <=> i > n
       /\ claims' = SubSeq(claims, n + 1, Len(claims))
  /\ UNCHANGED <<agents, offsets, store, todo, mem, cur, ran, upsets, overlap, missed>>

\* unerrd dies, and its successor begins with a pass of its own.
Crash ==
  /\ pc # "idle" /\ Upset
  /\ pc' = "idle" /\ todo' = {} /\ cur' = NoRead /\ mem' = offsets /\ ran' = FALSE
  /\ UNCHANGED <<agents, claims, offsets, store, overlap, missed>>

\* Time passes; without a pass only when the push loop backs off, or nothing runs.
Older(n, bound) == IF n < bound THEN n + 1 ELSE n

Tick ==
  /\ pc = "idle" /\ ran' = FALSE
  /\ \/ ran /\ UNCHANGED <<upsets, missed>>
     \/ ~ran /\ Upset /\ missed' = TRUE
  /\ claims' = [i \in DOMAIN claims |-> [claims[i] EXCEPT !.age = Older(@, Ttl + 1)]]
  /\ quiet' = [c \in Convs |-> Older(quiet[c], Quiet)]
  /\ UNCHANGED <<file, newest, busy, files, offsets, store, pc, todo, mem, cur, overlap>>

-----------------------------------------------------------------------------
Agent(c) == Prompt(c) \/ Write(c) \/ Replace(c) \/ Stop(c) \/ Interrupt(c)
Pass == PassStarts \/ Skip \/ Take \/ Read \/ Save \/ Sweep
Faults == ReadFails \/ SaveFails \/ Crash

Next == (\E c \in Convs : Agent(c)) \/ Pass \/ Faults \/ Tick

Spec == Init /\ [][Next]_vars

\* The push loop comes round, a pass goes on, time passes.
FairSpec == Spec /\ WF_vars(Pass) /\ WF_vars(Tick)

-----------------------------------------------------------------------------
\* A transcript under an inode that another had before, or that was written anew in place.
Recycled(c) == file[c].ino # file[c].gen

\* transcript-drainer: "the data is handed to the durable queue before the cursor moves".
\* Every turn before a session's offset has been given to the store, though unerrd die
\* anywhere, or the file be replaced while it is read.  What the store's append lost is not
\* given again, and the offset of one file is used in another of the same inode.
NothingSkipped ==
  \A s \in Sessions, c \in Convs :
    offsets[s].ino = file[c].ino /\ ~Recycled(c) =>
      \A n \in 1..offsets[s].at : <<s, file[c].gen, n>> \in shipped \cup dropped

AllShipped(c) ==
  \A n \in 1..file[c].turns : \E s \in Sessions : <<s, file[c].gen, n>> \in shipped

\* Time and again all turns of the conversations that have stopped are shipped, though at most Cap at a time,
\* and not before the transcript is quiet, by which time a pass has left its claims alone
\* once or more: as long as no other conversation comes while its claims are kept, every
\* prompt ends with a stop hook, no pass or append comes to nothing, and the transcript's
\* inode was no other's.
FinalTurnsShip ==
  []<>(overlap \/ missed \/ \A c \in Convs : AllShipped(c) \/ c \in busy \/ Recycled(c))

-----------------------------------------------------------------------------
(* What the repository says, and the code does not keep.                     *)

\* transcript-drainer: "the byte offset advances only after the turns are durably enqueued".
Durable ==
  \A s \in Sessions, c \in Convs :
    offsets[s].ino = file[c].ino =>
      \A n \in 1..offsets[s].at : n <= file[c].turns => <<s, file[c].gen, n>> \in shipped

\* transcript-claim: "a claim is NEVER swept before its transcript is materialized".
ClaimsShip ==
  [][\A c \in Convs \ busy :
       (\E i \in DOMAIN claims : claims[i].by = c) /\ (\A i \in DOMAIN claims' : claims'[i].by # c)
         => AllShipped(c) \/ missed]_vars
=============================================================================
