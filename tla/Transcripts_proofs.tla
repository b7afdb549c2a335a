------------------------- MODULE Transcripts_proofs -------------------------
(* Theorems about Transcripts: its types, and that no turn before a saved offset was
   ever kept from the store.                                                 *)
EXTENDS Transcripts, WellFoundedInduction, TLAPS

USE MarkAssumption, TimesAssumption, BoundsAssumption

Reads == [sess : Sessions, conv : Convs, ino : 1..MaxFiles, from : Nat]

\* The types, with those of a read.
Types ==
  /\ file \in [Convs -> Transcript]
  /\ quiet \in [Convs -> 0..Quiet] /\ newest \in Convs \cup {None} /\ busy \subseteq Convs
  /\ claims \in Seq(Claims) /\ Len(claims) <= MaxClaims
  /\ offsets \in [Sessions -> Offsets] /\ mem \in [Sessions -> Offsets]
  /\ shipped \subseteq Rows /\ dropped \subseteq Rows
  /\ pc \in {"idle", "next", "reading", "saved"} /\ todo \subseteq Claims
  /\ IF pc = "reading" THEN cur \in Reads ELSE cur = NoRead
  /\ ran \in BOOLEAN /\ files \in 0..MaxFiles /\ upsets \in 0..MaxUpsets
  /\ overlap \in BOOLEAN /\ missed \in BOOLEAN
  /\ busy # {} => MaxTurns # 0

\* An inode is of one transcript at a time, and none has the number of a file to come.
OwnInode ==
  /\ \A c \in Convs : file[c].ino <= files /\ (file[c].gen = 0 <=> file[c].ino = 0)
  /\ \A c, d \in Convs : file[c].ino = file[d].ino => c = d \/ file[c].ino = 0

\* The transcript of c is the first that inode i has had.
First(c, i) == file[c].ino = i /\ file[c].gen = i

\* The turns of inode i up to n were given to the store under s, as long as its first
\* transcript is there.
Stored(s, i, n) ==
  (\E c \in Convs : First(c, i)) => \A k \in 1..n : <<s, i, k>> \in shipped \cup dropped

\* An offset, in the file or in the memory of the pass, is of an inode that was given out,
\* and what is before it was given to the store.
Sound(s, o) ==
  /\ o.ino <= files /\ (o.ino = 0 => o.at = 0)
  /\ Stored(s, o.ino, o.at)

\* So is where a read starts; its inode is, or was, that of its transcript.
ReadSound ==
  pc = "reading" =>
    /\ cur.ino <= files /\ file[cur.conv].ino # 0
    /\ \A c \in Convs : First(c, cur.ino) => c = cur.conv
    /\ Stored(cur.sess, cur.ino, cur.from)

IInv ==
  /\ Types /\ OwnInode
  /\ \A s \in Sessions : Sound(s, offsets[s]) /\ Sound(s, mem[s])
  /\ ReadSound

-----------------------------------------------------------------------------
(* Claims.                                                                   *)

LEMMA EnqueueType ==
  ASSUME Types, NEW s \in Sessions, NEW n \in Convs \cup {None}, NEW c \in Convs, Enqueue(s, n, c)
  PROVE  claims' \in Seq(Claims) /\ Len(claims') <= MaxClaims
<1> DEFINE q == [sess |-> s, native |-> n, age |-> 0, by |-> c]
<1>1. q \in Claims /\ claims' = Append(claims, q) /\ Len(claims) < MaxClaims
  BY DEF Enqueue, Claims
<1>2. claims \in Seq(Claims)
  BY DEF Types
<1> HIDE DEF q
<1> QED
  BY <1>1, <1>2

\* What is left of the claims, and the claims a while later.
LEMMA SweepType == Types /\ Sweep => claims' \in Seq(Claims) /\ Len(claims') <= MaxClaims
<1> SUFFICES ASSUME Types, Sweep PROVE claims' \in Seq(Claims) /\ Len(claims') <= MaxClaims
  OBVIOUS
<1>1. PICK n \in 0..Len(claims) : claims' = SubSeq(claims, n + 1, Len(claims))
  BY DEF Sweep
<1>2. claims \in Seq(Claims) /\ Len(claims) \in Nat /\ Len(claims) <= MaxClaims
  BY DEF Types
<1>3. \A i \in (n + 1)..Len(claims) : claims[i] \in Claims
  BY <1>2
<1> QED
  BY <1>1, <1>2, <1>3

LEMMA TickClaims == Types /\ Tick => claims' \in Seq(Claims) /\ Len(claims') <= MaxClaims
<1> SUFFICES ASSUME Types, Tick PROVE claims' \in Seq(Claims) /\ Len(claims') <= MaxClaims
  OBVIOUS
<1>1. claims' = [i \in DOMAIN claims |-> [claims[i] EXCEPT !.age = Older(@, Ttl + 1)]]
  BY DEF Tick
<1>2. claims \in Seq(Claims) /\ Len(claims) \in Nat /\ Len(claims) <= MaxClaims
      /\ DOMAIN claims = 1..Len(claims)
  BY DEF Types
<1>3. ASSUME NEW i \in DOMAIN claims PROVE claims'[i] \in Claims
  <2>1. claims[i] \in Claims
    BY <1>2
  <2>2. Older(claims[i].age, Ttl + 1) \in 0..Ttl + 1
    BY <2>1 DEF Claims, Older
  <2> QED
    BY <1>1, <2>1, <2>2 DEF Claims
<1>4. claims' \in [1..Len(claims) -> Claims]
  BY <1>1, <1>2, <1>3
<1>5. \A n \in Nat : [1..n -> Claims] \subseteq Seq(Claims)
  OBVIOUS
<1>6. claims' \in Seq(Claims) /\ DOMAIN claims' = 1..Len(claims)
  BY <1>2, <1>4, <1>5
<1>7. Len(claims') = Len(claims)
  BY <1>2, <1>6
<1> QED
  BY <1>2, <1>6, <1>7

LEMMA LatestType == Types => Latest \subseteq Claims
  BY DEF Types, Latest

-----------------------------------------------------------------------------
(* Types.                                                                    *)

LEMMA NewFileType ==
  ASSUME Types, NEW c \in busy, NewFile(c)
  PROVE  file' \in [Convs -> Transcript] /\ files' \in 0..MaxFiles
<1>1. PICK i \in 1..files' :
        file' = [file EXCEPT ![c] = [ino |-> i, gen |-> files', turns |-> 1]]
  BY DEF NewFile
<1>2. files' \in 0..MaxFiles /\ i \in 0..MaxFiles /\ 1 \in 0..MaxTurns
  BY <1>1 DEF NewFile, Types
<1> QED
  BY <1>1, <1>2 DEF Types, Transcript

LEMMA AgentTypes ==
  ASSUME Types, NEW c \in Convs, Agent(c)
  PROVE  Types'
<1>1. CASE Prompt(c)
  <2>1. claims' = claims \/ \E s \in Sessions : Enqueue(s, c, c)
    BY <1>1 DEF Prompt
  <2>2. claims' \in Seq(Claims) /\ Len(claims') <= MaxClaims
    BY <2>1, EnqueueType DEF Types
  <2>3. MaxTurns # 0 /\ busy' \subseteq Convs
    <3>1. file[c].turns \in Nat /\ file[c].turns < MaxTurns
      BY <1>1 DEF Prompt, Types, Transcript
    <3> QED
      BY <1>1, <3>1 DEF Prompt, Types
  <2> QED
    BY <1>1, <2>2, <2>3 DEF Prompt, pass, store, Types
<1>2. CASE Write(c)
  <2>1. file' \in [Convs -> Transcript] /\ files' \in 0..MaxFiles
    <3>1. CASE NewFile(c)
      BY <1>2, <3>1, NewFileType DEF Write
    <3>2. CASE /\ file[c].turns < MaxTurns /\ UNCHANGED files
               /\ file' = [file EXCEPT ![c].turns = @ + 1]
      <4>1. file[c].turns \in Nat /\ file[c].turns + 1 \in 0..MaxTurns
        BY <3>2 DEF Types, Transcript
      <4> QED
        BY <3>2, <4>1 DEF Types, Transcript
    <3> QED
      BY <1>2, <3>1, <3>2 DEF Write
  <2>2. quiet' \in [Convs -> 0..Quiet] /\ newest' \in Convs
    BY <1>2 DEF Write, Types
  <2> QED
    BY <1>2, <2>1, <2>2 DEF Write, pass, store, Types
<1>3. CASE Replace(c)
  <2>1. file' \in [Convs -> Transcript] /\ files' \in 0..MaxFiles
    BY <1>3, NewFileType DEF Replace
  <2>2. quiet' \in [Convs -> 0..Quiet] /\ newest' \in Convs
    BY <1>3 DEF Replace, Types
  <2> QED
    BY <1>3, <2>1, <2>2 DEF Replace, Upset, pass, store, Types
<1>4. CASE Stop(c)
  <2>1. claims' \in Seq(Claims) /\ Len(claims') <= MaxClaims
    BY <1>4, EnqueueType DEF Stop
  <2> QED
    BY <1>4, <2>1 DEF Stop, pass, store, Types
<1>5. CASE Interrupt(c)
  BY <1>5 DEF Interrupt, Upset, pass, store, Types
<1> QED
  BY <1>1, <1>2, <1>3, <1>4, <1>5 DEF Agent

LEMMA ResolvedType == Types => \A q \in Claims : Resolved(q) \subseteq {c \in Convs : file[c].ino # 0}
  BY DEF Types, Resolved

\* A read ends between where it started and the end of the file.
LEMMA EndType ==
  ASSUME NEW read \in Reads, NEW turns \in 0..MaxTurns
  PROVE  /\ Start(read, turns) \in {0, read.from} /\ End(read, turns) \in 0..turns
         /\ Start(read, turns) <= End(read, turns)
  BY DEF Start, End, Reads

\* A transcript that is read is there, if not always the one it was.
LEMMA ReadTypes ==
  ASSUME Types, OwnInode, pc = "reading" => file[cur.conv].ino # 0, Read
  PROVE  Types'
<1> DEFINE f == file[cur.conv]
           new == {<<cur.sess, f.gen, n>> : n \in Start(cur, f.turns) + 1 .. End(cur, f.turns)}
<1>1. pc = "reading" /\ cur \in Reads /\ cur.sess \in Sessions /\ cur.ino \in 1..MaxFiles
  BY DEF Read, Types, Reads
<1>2. f.gen \in 1..MaxFiles /\ f.turns \in 0..MaxTurns
  BY <1>1 DEF Types, OwnInode, Reads, Transcript
<1>3. PICK lost \in SUBSET new :
        /\ AllAppended(lost) \/ SomeLost(lost)
        /\ shipped' = shipped \cup (new \ lost) /\ dropped' = dropped \cup lost
        /\ Advanced(End(cur, f.turns))
  BY DEF Read
<1> HIDE DEF f
<1>4. /\ Start(cur, f.turns) \in Nat /\ End(cur, f.turns) \in Nat
      /\ End(cur, f.turns) <= MaxTurns
  BY <1>1, <1>2, EndType DEF Reads
<1>5. new \subseteq Rows
  <2>1. \A n \in Start(cur, f.turns) + 1 .. End(cur, f.turns) : n \in 1..MaxTurns
    BY <1>4
  <2> QED
    BY <1>1, <1>2, <2>1 DEF Rows
<1> HIDE DEF new
<1>6. [ino |-> cur.ino, at |-> End(cur, f.turns)] \in Offsets
  BY <1>1, <1>4 DEF Offsets
<1>7. mem' \in [Sessions -> Offsets] /\ pc' = "next" /\ cur' = NoRead
  BY <1>1, <1>3, <1>6 DEF Advanced, Types
<1>8. upsets' \in 0..MaxUpsets /\ missed' \in BOOLEAN
  <2>1. CASE AllAppended(lost)
    BY <2>1 DEF AllAppended, Types
  <2>2. CASE SomeLost(lost)
    BY <2>2 DEF SomeLost, Upset, Types
  <2> QED
    BY <1>3, <2>1, <2>2
<1> QED
  BY <1>3, <1>5, <1>7, <1>8 DEF Read, agents, store, Types

LEMMA PassTypes ==
  ASSUME Types, OwnInode, ReadSound, Pass
  PROVE  Types'
<1>1. CASE PassStarts
  <2>1. CASE UNCHANGED <<pc, todo, mem, cur>>
    BY <1>1, <2>1 DEF PassStarts, agents, store, Types
  <2>2. CASE pc' = "next" /\ todo' = Latest /\ mem' = offsets /\ UNCHANGED cur
    BY <1>1, <2>2, LatestType DEF PassStarts, agents, store, Types
  <2> QED
    BY <1>1, <2>1, <2>2 DEF PassStarts
<1>2. CASE Skip
  BY <1>2 DEF Skip, agents, store, Types
<1>3. CASE Take
  <2>1. PICK claim \in todo, c \in Convs :
          /\ c \in Resolved(claim) /\ todo' = todo \ {claim}
          /\ cur' = [sess |-> claim.sess, conv |-> c, ino |-> file[c].ino,
                     from |-> From(mem[claim.sess], file[c].ino)]
    BY <1>3, ResolvedType DEF Take, Types
  <2>2. claim \in Claims /\ claim.sess \in Sessions
    BY <2>1 DEF Types, Claims
  <2>3. file[c].ino \in 1..MaxFiles
    BY <2>1, <2>2, ResolvedType DEF Types, Transcript
  <2>4. From(mem[claim.sess], file[c].ino) \in Nat
    BY <2>2 DEF Types, Offsets, From
  <2>5. cur' \in Reads
    BY <2>1, <2>2, <2>3, <2>4 DEF Reads
  <2> QED
    BY <1>3, <2>1, <2>5 DEF Take, agents, store, Types
<1>4. CASE Read
  BY <1>4, ReadTypes DEF ReadSound
<1>5. CASE Save
  BY <1>5 DEF Save, agents, store, Types
<1>6. CASE Sweep
  BY <1>6, SweepType DEF Sweep, agents, store, Types
<1> QED
  BY <1>1, <1>2, <1>3, <1>4, <1>5, <1>6 DEF Pass

LEMMA FaultTypes ==
  ASSUME Types, Faults
  PROVE  Types'
<1>1. upsets' \in 0..MaxUpsets
  BY DEF Faults, ReadFails, SaveFails, Crash, Upset, Types
<1>2. CASE ReadFails
  <2>1. cur \in Reads /\ [ino |-> cur.ino, at |-> cur.from] \in Offsets
    BY <1>2 DEF ReadFails, Types, Reads, Offsets
  <2>2. mem' \in [Sessions -> Offsets] /\ pc' = "next" /\ cur' = NoRead
    BY <1>2, <2>1 DEF ReadFails, Advanced, Types
  <2> QED
    BY <1>1, <1>2, <2>2 DEF ReadFails, agents, store, Types
<1>3. CASE SaveFails
  BY <1>1, <1>3 DEF SaveFails, agents, store, Types
<1>4. CASE Crash
  BY <1>1, <1>4 DEF Crash, agents, store, Types
<1> QED
  BY <1>2, <1>3, <1>4 DEF Faults

LEMMA TickTypes ==
  ASSUME Types, Tick
  PROVE  Types'
<1>1. claims' \in Seq(Claims) /\ Len(claims') <= MaxClaims
  BY TickClaims
<1>2. quiet' \in [Convs -> 0..Quiet]
  BY DEF Tick, Types, Older
<1>3. (upsets' = upsets /\ missed' = missed) \/ (upsets < MaxUpsets /\ upsets' = upsets + 1 /\ missed')
  BY DEF Tick, Upset
<1>4. upsets' \in 0..MaxUpsets
  BY <1>3 DEF Types
<1>5. missed' \in BOOLEAN
  BY <1>3 DEF Types
<1> QED
  BY <1>1, <1>2, <1>4, <1>5 DEF Tick, store, Types

-----------------------------------------------------------------------------
(* What is before an offset was given to the store.                          *)

\* Files that stay, or come with an inode of their own, take nothing from what is stored.
LEMMA Undisturbed ==
  ASSUME Types, IInv, UNCHANGED <<offsets, mem, shipped, dropped, pc, cur>>,
         files <= files', files' \in Nat,
         \A c \in Convs :
           \/ file'[c].ino = file[c].ino /\ file'[c].gen = file[c].gen
           \/ /\ file'[c].gen = files' /\ files < files'
              /\ file'[c].ino \in 1..files'
              /\ \A d \in Convs \ {c} : /\ file'[d].ino = file[d].ino
                                        /\ file'[d].gen = file[d].gen
                                        /\ file[d].ino # file'[c].ino
  PROVE  (OwnInode /\ (\A s \in Sessions : Sound(s, offsets[s]) /\ Sound(s, mem[s])) /\ ReadSound)'
<1>1. /\ files \in Nat /\ \A c \in Convs : file[c].ino \in Nat /\ file[c].ino <= files
      /\ \A c \in Convs : file[c].gen = 0 <=> file[c].ino = 0
      /\ \A c, d \in Convs : file[c].ino = file[d].ino => c = d \/ file[c].ino = 0
  BY DEF Types, IInv, OwnInode, Transcript
<1>2. OwnInode'
  BY <1>1 DEF OwnInode
<1>3. ASSUME NEW i \in Nat, i <= files, NEW c \in Convs, First(c, i)'
      PROVE  First(c, i)
  BY <1>1, <1>3 DEF First
<1>4. ASSUME NEW s \in Sessions, NEW i \in Nat, i <= files, NEW n, Stored(s, i, n)
      PROVE  Stored(s, i, n)'
  BY <1>3, <1>4 DEF Stored
<1>5. ASSUME NEW s \in Sessions, NEW o \in Offsets, Sound(s, o)
      PROVE  o.ino <= files' /\ (o.ino = 0 => o.at = 0) /\ Stored(s, o.ino, o.at)'
  BY <1>1, <1>4, <1>5 DEF Sound, Offsets
<1>6. \A s \in Sessions : Sound(s, offsets[s])' /\ Sound(s, mem[s])'
  <2> SUFFICES ASSUME NEW s \in Sessions PROVE Sound(s, offsets[s])' /\ Sound(s, mem[s])'
    OBVIOUS
  <2>1. offsets[s] \in Offsets /\ mem[s] \in Offsets /\ Sound(s, offsets[s]) /\ Sound(s, mem[s])
    BY DEF Types, IInv
  <2> QED
    BY <1>5, <2>1 DEF Sound
<1>7. ReadSound'
  <2> SUFFICES ASSUME pc = "reading" PROVE ReadSound'
    BY DEF ReadSound
  <2>1. /\ cur \in Reads /\ cur.ino \in Nat /\ cur.sess \in Sessions /\ cur.conv \in Convs
        /\ cur.ino <= files /\ file[cur.conv].ino # 0
        /\ \A c \in Convs : First(c, cur.ino) => c = cur.conv
        /\ Stored(cur.sess, cur.ino, cur.from)
    BY DEF Types, IInv, ReadSound, Reads
  <2>2. Stored(cur.sess, cur.ino, cur.from)'
    BY <1>4, <2>1
  <2>3. \A c \in Convs : First(c, cur.ino)' => c = cur.conv
    BY <1>3, <2>1
  <2>4. file'[cur.conv].ino # 0
    BY <1>1, <2>1
  <2> QED
    BY <1>1, <2>1, <2>2, <2>3, <2>4 DEF ReadSound
<1> QED
  BY <1>2, <1>6, <1>7

LEMMA AgentStores ==
  ASSUME IInv, NEW c \in Convs, Agent(c)
  PROVE  IInv'
<1>1. Types /\ files \in Nat /\ UNCHANGED <<offsets, mem, shipped, dropped, pc, cur>>
  <2>1. Types /\ files \in Nat
    BY DEF IInv, Types
  <2>2. UNCHANGED <<offsets, mem, shipped, dropped, pc, cur>>
    BY DEF Agent, Prompt, Write, Replace, Stop, Interrupt, pass, store
  <2> QED
    BY <2>1, <2>2
<1>2. CASE Prompt(c) \/ Stop(c) \/ Interrupt(c)
  <2>1. UNCHANGED <<file, files>>
    BY <1>2 DEF Prompt, Stop, Interrupt
  <2> QED
    BY <1>1, <2>1, Undisturbed, AgentTypes DEF IInv
<1>3. CASE Write(c) \/ Replace(c)
  <2>1. CASE NewFile(c)
    <3>1. PICK i \in 1..files' :
            /\ \A d \in Convs \ {c} : file[d].ino # i
            /\ file' = [file EXCEPT ![c] = [ino |-> i, gen |-> files', turns |-> 1]]
      BY <2>1 DEF NewFile
    <3>2. files' = files + 1 /\ DOMAIN file = Convs
      BY <1>1, <2>1 DEF NewFile, Types
    <3>3. /\ file'[c].ino = i /\ file'[c].gen = files'
          /\ \A d \in Convs \ {c} : file'[d] = file[d]
      BY <3>1, <3>2
    <3> QED
      BY <1>1, <3>1, <3>2, <3>3, Undisturbed, AgentTypes DEF IInv
  <2>2. CASE files' = files /\ file' = [file EXCEPT ![c].turns = @ + 1]
    <3>1. DOMAIN file = Convs /\ \A d \in Convs : file[d] \in Transcript
      BY <1>1 DEF Types
    <3>2. \A d \in Convs : file'[d].ino = file[d].ino /\ file'[d].gen = file[d].gen
      BY <2>2, <3>1 DEF Transcript
    <3> QED
      BY <1>1, <2>2, <3>2, Undisturbed, AgentTypes DEF IInv
  <2> QED
    BY <1>3, <2>1, <2>2 DEF Write, Replace
<1> QED
  BY <1>2, <1>3 DEF Agent

\* The pass takes over the offsets, or saves its own, or drops them.
LEMMA OffsetsTaken ==
  ASSUME IInv, Types', UNCHANGED <<file, files, store>>,
         offsets' \in {offsets, mem}, mem' \in {offsets, mem}, UNCHANGED <<pc, cur>> \/ pc' # "reading"
  PROVE  IInv'
<1>1. OwnInode' /\ ReadSound'
  BY DEF IInv, OwnInode, ReadSound, Stored, First, store
<1>2. ASSUME NEW s \in Sessions PROVE Sound(s, offsets[s])' /\ Sound(s, mem[s])'
  BY DEF IInv, Sound, Stored, First, store
<1> QED
  BY <1>1, <1>2 DEF IInv

LEMMA TakeStores ==
  ASSUME IInv, Take
  PROVE  ReadSound'
<1>1. PICK claim \in todo, c \in Convs :
        /\ c \in Resolved(claim)
        /\ cur' = [sess |-> claim.sess, conv |-> c, ino |-> file[c].ino,
                   from |-> From(mem[claim.sess], file[c].ino)]
  BY ResolvedType DEF Take, IInv, Types
<1>2. claim \in Claims /\ claim.sess \in Sessions
  BY <1>1 DEF IInv, Types, Claims
<1>3. file[c].ino # 0 /\ file[c].ino <= files /\ UNCHANGED <<file, files, store>>
  BY <1>1, <1>2, ResolvedType DEF IInv, OwnInode, Take, agents, store
<1>4. \A d \in Convs : First(d, file[c].ino) => d = c
  BY <1>3 DEF IInv, OwnInode, First
<1>5. Stored(claim.sess, file[c].ino, From(mem[claim.sess], file[c].ino))
  <2>1. CASE mem[claim.sess].ino = file[c].ino
    BY <1>2, <2>1 DEF IInv, Sound, From
  <2>2. CASE mem[claim.sess].ino # file[c].ino
    BY <2>2 DEF From, Stored
  <2> QED
    BY <2>1, <2>2
<1> DEFINE q == claim.sess
           i == file[c].ino
           n == From(mem[claim.sess], file[c].ino)
<1>6. cur'.sess = q /\ cur'.conv = c /\ cur'.ino = i /\ cur'.from = n
  BY <1>1
<1> QED
  BY <1>3, <1>4, <1>5, <1>6 DEF ReadSound, Stored, First, store

LEMMA ReadStores ==
  ASSUME IInv, Read \/ ReadFails, Types'
  PROVE  IInv'
<1>1. /\ Types /\ ReadSound /\ pc = "reading" /\ cur \in Reads /\ cur.sess \in Sessions
      /\ UNCHANGED <<file, files, offsets>> /\ pc' = "next"
      /\ shipped \cup dropped \subseteq shipped' \cup dropped'
  BY DEF IInv, Types, Reads, Read, ReadFails, Advanced, agents, store
<1>2. ASSUME NEW s \in Sessions, NEW i, NEW n, Stored(s, i, n) PROVE Stored(s, i, n)'
  BY <1>1, <1>2 DEF Stored, First
<1>3. OwnInode' /\ ReadSound'
  BY <1>1 DEF IInv, OwnInode, ReadSound
<1>4. PICK q \in Sessions, j \in 1..MaxFiles : q = cur.sess /\ j = cur.ino
  BY <1>1 DEF Reads
<1>5. PICK at \in Nat : mem' = [mem EXCEPT ![q] = [ino |-> j, at |-> at]] /\ Stored(q, j, at)'
  <2>1. CASE ReadFails
    <3>1. PICK at \in Nat : at = cur.from
      BY <1>1 DEF Reads
    <3>2. mem' = [mem EXCEPT ![q] = [ino |-> j, at |-> at]]
      BY <1>4, <2>1, <3>1 DEF ReadFails, Advanced
    <3>3. Stored(q, j, at)
      BY <1>1, <1>4, <3>1 DEF ReadSound
    <3> QED
      BY <1>2, <3>2, <3>3
  <2>2. CASE Read
    <3> DEFINE f == file[cur.conv]
    <3>1. f.turns \in 0..MaxTurns
      BY <1>1 DEF Types, Reads, Transcript
    <3>2. PICK b \in Nat, e \in Nat :
            b \in {0, cur.from} /\ b = Start(cur, f.turns) /\ e = End(cur, f.turns)
      BY <1>1, <3>1, EndType DEF Reads
    <3> DEFINE new == {<<q, f.gen, n>> : n \in b + 1 .. e}
    <3>3. /\ shipped' \cup dropped' = shipped \cup dropped \cup new
          /\ mem' = [mem EXCEPT ![q] = [ino |-> j, at |-> e]]
      BY <1>4, <2>2, <3>2 DEF Read, Advanced
    <3>4. ASSUME NEW c \in Convs, First(c, j), NEW n \in 1..e
          PROVE  <<q, j, n>> \in shipped' \cup dropped'
      <4>1. f.gen = j
        BY <1>1, <1>4, <3>4 DEF ReadSound, First
      <4>2. CASE n <= b
        BY <1>1, <1>4, <3>2, <3>4, <4>2 DEF ReadSound, Stored, Reads
      <4>3. CASE n > b
        <5>1. n \in b + 1 .. e
          BY <4>3
        <5> QED
          BY <3>3, <4>1, <5>1
      <4> QED
        BY <4>2, <4>3
    <3>5. Stored(q, j, e)'
      BY <1>1, <3>4 DEF Stored, First
    <3> QED
      BY <3>3, <3>5
  <2> QED
    BY <2>1, <2>2
<1>6. ASSUME NEW s \in Sessions PROVE Sound(s, offsets[s])' /\ Sound(s, mem[s])'
  <2>1. Sound(s, offsets[s]) /\ Sound(s, mem[s])
    BY DEF IInv
  <2>2. Sound(s, offsets[s])'
    BY <1>1, <2>1 DEF Sound, Stored, First, store
  <2>3. CASE s = q
    <3>1. mem'[s] = [ino |-> j, at |-> at]
      BY <1>1, <1>5, <2>3 DEF Types
    <3>2. j <= files /\ j # 0
      BY <1>1, <1>4 DEF ReadSound
    <3> QED
      BY <1>1, <1>5, <2>2, <2>3, <3>1, <3>2 DEF Sound, Stored, First, store
  <2>4. CASE s # q
    <3>1. mem'[s] = mem[s]
      BY <1>1, <1>5, <2>4 DEF Types
    <3> QED
      BY <1>1, <2>1, <2>2, <3>1 DEF Sound, Stored, First, store
  <2> QED
    BY <2>3, <2>4
<1> QED
  BY <1>1, <1>3, <1>6 DEF IInv

LEMMA Inductive == IInv /\ [Next]_vars => IInv'
<1> SUFFICES ASSUME IInv, [Next]_vars PROVE IInv'
  OBVIOUS
<1>1. Types /\ ReadSound
  BY DEF IInv
<1>2. CASE \E c \in Convs : Agent(c)
  BY <1>2, AgentStores
<1>3. CASE Pass
  <2>1. Types'
    BY <1>1, <1>3, PassTypes DEF IInv
  <2>2. CASE Read
    BY <2>1, <2>2, ReadStores
  <2>3. CASE Take
    <3>1. ReadSound' /\ UNCHANGED <<file, files, store, offsets, mem>>
      BY <2>3, TakeStores DEF Take, agents
    <3>2. OwnInode' /\ \A s \in Sessions : Sound(s, offsets[s])' /\ Sound(s, mem[s])'
      BY <3>1 DEF IInv, OwnInode, Sound, Stored, First, store
    <3> QED
      BY <2>1, <3>1, <3>2 DEF IInv
  <2>4. CASE PassStarts \/ Skip \/ Save \/ Sweep
    <3>1. /\ UNCHANGED <<file, files, store>> /\ offsets' \in {offsets, mem}
          /\ mem' \in {offsets, mem} /\ (UNCHANGED <<pc, cur>> \/ pc' # "reading")
      BY <2>4 DEF PassStarts, Skip, Save, Sweep, agents
    <3> QED
      BY <2>1, <3>1, OffsetsTaken
  <2> QED
    BY <1>3, <2>2, <2>3, <2>4 DEF Pass
<1>4. CASE Faults
  <2>1. Types'
    BY <1>1, <1>4, FaultTypes
  <2>2. CASE ReadFails
    BY <2>1, <2>2, ReadStores
  <2>3. CASE SaveFails \/ Crash
    <3>1. /\ UNCHANGED <<file, files, store, offsets>> /\ mem' = offsets /\ pc' # "reading"
      BY <2>3 DEF SaveFails, Crash, agents
    <3> QED
      BY <2>1, <3>1, OffsetsTaken
  <2> QED
    BY <1>4, <2>2, <2>3 DEF Faults
<1>5. CASE Tick
  <2>1. UNCHANGED <<file, files, store, offsets, mem, pc, cur>>
    BY <1>5 DEF Tick
  <2> QED
    BY <1>1, <1>5, <2>1, TickTypes, OffsetsTaken
<1>6. CASE UNCHANGED vars
  <2>1. Types' /\ UNCHANGED <<file, files, store, offsets, mem, pc, cur>>
    BY <1>1, <1>6 DEF vars, agents, pass, store, Types
  <2> QED
    BY <2>1, OffsetsTaken
<1> QED
  BY <1>2, <1>3, <1>4, <1>5, <1>6 DEF Next

LEMMA InitHolds == Init => IInv
<1> SUFFICES ASSUME Init PROVE IInv
  OBVIOUS
<1>1. NoOffset \in Offsets /\ [ino |-> 0, gen |-> 0, turns |-> 0] \in Transcript
  BY DEF NoOffset, Offsets, Transcript
<1>2. <<>> \in Seq(Claims) /\ Len(<<>>) = 0
  OBVIOUS
<1>3. Types
  <2>1. file \in [Convs -> Transcript]
    BY <1>1 DEF Init
  <2>2. quiet \in [Convs -> 0..Quiet] /\ 0 \in 0..MaxFiles /\ 0 \in 0..MaxUpsets
    BY DEF Init
  <2>3. offsets \in [Sessions -> Offsets] /\ mem \in [Sessions -> Offsets]
    BY <1>1 DEF Init
  <2>4. claims \in Seq(Claims) /\ Len(claims) <= MaxClaims
    BY <1>2 DEF Init
  <2> QED
    BY <2>1, <2>2, <2>3, <2>4 DEF Init, Types
<1> QED
  BY <1>3 DEF Init, IInv, OwnInode, Sound, Stored, ReadSound, NoOffset

\* Files and claims, offsets and the store, and the pass keep their types.
THEOREM TypeCorrect == Spec => []TypeOK
<1>1. IInv => TypeOK
  <2> SUFFICES ASSUME Types PROVE TypeOK
    BY DEF IInv
  <2>1. pc = "reading" => cur # NoRead
    BY DEF Types, Reads, NoRead
  <2> QED
    BY <2>1 DEF Types, TypeOK
<1> QED
  BY InitHolds, Inductive, <1>1, PTL DEF Spec

\* What a saved offset has passed was given to the store, which may have lost it, though
\* unerrd die at any point of a pass, and the file be replaced, or grow, while it is read; if
\* the file is the first that its inode has had (transcript-drainer.ts, event-store.ts).
THEOREM CursorBehindStore == Spec => []NothingSkipped
<1>1. IInv => NothingSkipped
  BY DEF IInv, Sound, Stored, First, Recycled, NothingSkipped
<1> QED
  BY InitHolds, Inductive, <1>1, PTL DEF Spec

-----------------------------------------------------------------------------
(* The order of the claims: a check of the model, not of the code.           *)

\* Who came first is the oldest.
OldestFirst ==
  \A i, j \in DOMAIN claims : i < j => claims[j].age <= claims[i].age

LEMMA ClaimAges ==
  ASSUME Types
  PROVE  \A i \in DOMAIN claims : claims[i] \in Claims /\ claims[i].age \in 0..Ttl + 1
<1>1. \A i \in DOMAIN claims : claims[i] \in Claims
  BY DEF Types
<1> QED
  BY <1>1 DEF Claims

LEMMA EnqueueOrder ==
  ASSUME Types, OldestFirst, NEW s, NEW n, NEW c, Enqueue(s, n, c)
  PROVE  OldestFirst'
<1> DEFINE q == [sess |-> s, native |-> n, age |-> 0, by |-> c]
<1>1. claims' = Append(claims, q) /\ claims \in Seq(Claims) /\ q.age = 0
  BY DEF Enqueue, Types
<1>2. \A i \in DOMAIN claims : claims[i].age \in Nat
  BY ClaimAges
<1> HIDE DEF q
<1>3. /\ DOMAIN claims' = DOMAIN claims \cup {Len(claims) + 1} /\ claims'[Len(claims) + 1] = q
      /\ \A i \in DOMAIN claims : claims'[i] = claims[i] /\ i <= Len(claims) /\ i \in Nat
  BY <1>1
<1> QED
  BY <1>1, <1>2, <1>3 DEF OldestFirst

LEMMA SweepOrder == Types /\ OldestFirst /\ Sweep => OldestFirst'
<1> SUFFICES ASSUME Types, OldestFirst, Sweep PROVE OldestFirst'
  OBVIOUS
<1>1. PICK n \in 0..Len(claims) : claims' = SubSeq(claims, n + 1, Len(claims))
  BY DEF Sweep
<1>2. claims \in Seq(Claims) /\ Len(claims) \in Nat
  BY DEF Types
<1>3. \A i \in DOMAIN claims' : i \in Nat /\ n + i \in DOMAIN claims /\ claims'[i] = claims[n + i]
  BY <1>1, <1>2
<1> QED
  BY <1>3 DEF OldestFirst

LEMMA TickOrder == Types /\ OldestFirst /\ Tick => OldestFirst'
<1> SUFFICES ASSUME Types, OldestFirst, Tick PROVE OldestFirst'
  OBVIOUS
<1>1. claims' = [i \in DOMAIN claims |-> [claims[i] EXCEPT !.age = Older(@, Ttl + 1)]]
  BY DEF Tick
<1>2. \A i \in DOMAIN claims : claims[i] \in Claims /\ claims[i].age \in 0..Ttl + 1
  BY ClaimAges
<1>3. DOMAIN claims' = DOMAIN claims
      /\ \A i \in DOMAIN claims : claims'[i].age = Older(claims[i].age, Ttl + 1)
  BY <1>1, <1>2 DEF Claims
<1>4. \A a, b \in 0..Ttl + 1 : a <= b => Older(a, Ttl + 1) <= Older(b, Ttl + 1)
  BY DEF Older
<1> QED
  BY <1>2, <1>3, <1>4 DEF OldestFirst

LEMMA OrderKept == Types /\ OldestFirst /\ [Next]_vars => OldestFirst'
<1> SUFFICES ASSUME Types, OldestFirst, [Next]_vars PROVE OldestFirst'
  OBVIOUS
<1>1. CASE UNCHANGED claims
  BY <1>1 DEF OldestFirst
<1>2. CASE \E c \in Convs : Prompt(c) \/ Stop(c)
  BY <1>1, <1>2, EnqueueOrder DEF Prompt, Stop
<1>3. CASE Sweep \/ Tick
  BY <1>3, SweepOrder, TickOrder
<1> QED
  BY <1>1, <1>2, <1>3 DEF Next, Agent, Write, Replace, Interrupt, Pass, PassStarts, Skip, Take,
     Read, Save, Faults, ReadFails, SaveFails, Crash, vars

\* There is a place before which every claim is old and after which none is.
LEMMA CutExists ==
  ASSUME Types, OldestFirst
  PROVE  \E n \in 0..Len(claims) : \A i \in DOMAIN claims : Kept(claims[i]) <=> i > n
<1> DEFINE T == {n \in 0..Len(claims) : \A i \in DOMAIN claims : i > n => Kept(claims[i])}
<1>1. Len(claims) \in Nat /\ DOMAIN claims = 1..Len(claims)
      /\ \A i \in DOMAIN claims : claims[i].age \in Nat
  BY ClaimAges DEF Types
<1>2. T \subseteq Nat /\ Len(claims) \in T
  BY <1>1
<1>3. \A x, y \in Nat : y < x => <<y, x>> \in OpToRel(<, Nat)
  BY DEF OpToRel
<1> HIDE DEF T
<1>4. PICK n \in T : \A m \in T : ~(<<m, n>> \in OpToRel(<, Nat))
  BY <1>2, WFMin, NatLessThanWellFounded
<1>5. \A m \in T : ~(m < n)
  BY <1>2, <1>3, <1>4
<1>6. ASSUME NEW i \in DOMAIN claims, i <= n PROVE ~Kept(claims[i])
  <2> SUFFICES ASSUME Kept(claims[i]) PROVE FALSE
    OBVIOUS
  <2>1. \A j \in DOMAIN claims : j > i - 1 => Kept(claims[j])
    BY <1>1 DEF OldestFirst, Kept
  <2>2. n \in Nat /\ i - 1 \in 0..Len(claims) /\ i - 1 < n
    BY <1>1, <1>2, <1>6
  <2>3. i - 1 \in T
    BY <2>1, <2>2 DEF T
  <2> QED
    BY <1>5, <2>2, <2>3
<1>7. n \in 0..Len(claims) /\ \A i \in DOMAIN claims : i > n => Kept(claims[i])
  BY DEF T
<1> QED
  BY <1>1, <1>6, <1>7

\* Sweep always has the one place to cut that it asks for, so that it takes away the claims
\* whose age is beyond CLAIM_TTL_MS, as the code does file by file, and never blocks the pass.
LEMMA SweepIsByAge ==
  Spec => [](\E n \in 0..Len(claims) : \A i \in DOMAIN claims : Kept(claims[i]) <=> i > n)
<1>1. Init => OldestFirst
  BY DEF Init, OldestFirst
<1>2. IInv /\ OldestFirst /\ [Next]_vars => OldestFirst'
  BY OrderKept DEF IInv
<1>3. IInv /\ OldestFirst =>
        \E n \in 0..Len(claims) : \A i \in DOMAIN claims : Kept(claims[i]) <=> i > n
  BY CutExists DEF IInv
<1> QED
  BY InitHolds, Inductive, <1>1, <1>2, <1>3, PTL DEF Spec
=============================================================================
