------------------------ MODULE IndexDirectoryProofs ------------------------
(***************************************************************************)
(* Theorems of IndexDirectory, for all settings and bounds: what create    *)
(* made, no kill and no failing file operation takes away unseen.          *)
(***************************************************************************)
EXTENDS IndexDirectory, Functions, SequenceTheorems, TLAPS

USE IndexDirectoryAssumption DEF IndexDirectoryAssumption
-----------------------------------------------------------------------------
(***************************************************************************)
(* What a file holds when it is whole.                                     *)
(***************************************************************************)
Holds(f) ==
  CASE f \in {"layout.tmp", "layout.meta"}             -> Metadata
    [] f \in {"config.tmp", "config", "config.bak"}    -> Mixed
    [] f = "texts"                                     -> Nat
    [] OTHER                                           -> Marks

Typed(d) == \A f \in DOMAIN d : d[f] \in Holds(f) \cup {Torn}

(***************************************************************************)
(* The steps that each operation may have left.                            *)
(***************************************************************************)
Dirs == {"root", "centroids", "shards", "wal"}

Temp(f) ==
  CASE f = "layout.meta" -> "layout.tmp"
    [] f = "config"      -> "config.tmp"
    [] f = "vectors"     -> "vectors.tmp"
    [] OTHER             -> "postings.tmp"

SavesLayout == {"create", "created", "open", "undo"}
Replays     == {"replay", "recoverReplay", "attempt"}
MakesIndex  == {"create", "recovery"}
MakesDirs   == {"mkdirs", "recover"} \cup MakesIndex

Written(o) == {f \in {"layout.tmp", "config.tmp", "shardex.meta", "texts", "vectors.tmp", "postings.tmp", "lock"} :
  \/ f = "layout.tmp" /\ o \in SavesLayout
  \/ f = "config.tmp" /\ o \in {"create", "update"}
  \/ f = "shardex.meta" /\ o \in MakesIndex \cup Replays \cup {"shard"}
  \/ f = "texts" /\ o \in MakesIndex
  \/ f \in {"vectors.tmp", "postings.tmp"} /\ o = "shard"
  \/ f = "lock" /\ o = "recover"}

Renamed(o) == {f \in {"layout.meta", "config", "vectors", "postings"} :
  \/ f = "layout.meta" /\ o \in SavesLayout
  \/ f = "config" /\ o \in {"create", "update"}
  \/ f \in {"vectors", "postings"} /\ o = "shard"}

IsStep(t, o) ==
  \/ t.do = "write" /\ t.to \in Written(o) /\ t.content \in Holds(t.to) /\ (t.to = "texts" => t.content = 0)
  \/ t.do = "rename" /\ t.to \in Renamed(o) /\ t.from = Temp(t.to)
  \/ t.do = "copy" /\ o = "update" /\ t.to = "config.bak" /\ t.from = "config"
  \/ t.do = "copy" /\ o = "restore" /\ t.to = "config" /\ t.from = "config.bak"
  \/ t.do = "remove" /\ o = "recovered" /\ t.to = "lock"
  \/ t.do = "mkdir" /\ o \in MakesDirs /\ t.to \in Dirs

AreSteps(s, o) == s \in Seq(Range(s)) /\ \A t \in Range(s) : IsStep(t, o)

(***************************************************************************)
(* A step that reads a file finds it whole: it is on disk, or a step       *)
(* before puts it there, and no step in between takes it away.             *)
(***************************************************************************)
Reads(t)    == t.do \in {"copy", "rename"}
Takes(t, f) == t.do = "rename" /\ t.from = f
Fills(t, f) == t.do \in {"write", "copy"} /\ t.to = f

Provided(d, s, i, f) ==
  \/ /\ Sound(d, f)
     /\ \A k \in 1..i - 1 : ~Takes(s[k], f)
  \/ \E j \in 1..i - 1 : Fills(s[j], f) /\ \A k \in j + 1..i - 1 : ~Takes(s[k], f)

Runnable(d, s) == \A i \in 1..Len(s) : Reads(s[i]) => Provided(d, s, i, s[i].from)
-----------------------------------------------------------------------------
(***************************************************************************)
(* The invariant.                                                          *)
(***************************************************************************)
Creating == {"mkdirs", "create", "created"}
InUse    == {"shard", "update", "restore", "attempt"}
Starting == {"open", "undo", "replay", "recover", "recovery", "recoverReplay", "recovered"}

\* Whole on disk, or a step puts it there.
Coming(f) == Sound(disk, f) \/ \E t \in Range(todo) : t.to = f

WorkInv ==
  /\ Typed(disk) /\ stored \in Nat /\ diverted \in Nat
  /\ DOMAIN proc = {"open", "index", "config"} /\ proc.open \in BOOLEAN
  /\ op \in Creating \cup InUse \cup Starting \cup {"idle"}
  /\ op \in Creating \cup Starting => ~proc.open
  /\ op \in {"mkdirs", "create", "update", "restore"} => held \in Mixed
  /\ op \in {"mkdirs", "create"} => held \in Config
  /\ op \in {"open", "undo", "replay"} => held \in Metadata
  /\ AreSteps(todo, op) /\ Runnable(disk, todo)

\* What only a rename puts in its place is whole.
RenamedInv == \A f \in {"layout.meta", "vectors", "postings"} : f \in DOMAIN disk => Sound(disk, f)

\* create: the directories are empty, then everything is there or comes, and
\* nothing was stored yet.  Only an index with metadata is opened.
Made == Dirs \cup {"layout.meta", "config", "shardex.meta", "texts"}
CreateInv ==
  /\ op \in Creating => ~created /\ stored = 0 /\ diverted = 0
  /\ op = "mkdirs" => DOMAIN disk \subseteq Dirs /\ \A f \in Dirs : Coming(f)
  /\ op \in {"create", "created"} =>
       /\ \A f \in Made : Coming(f)
       /\ "texts" \in DOMAIN disk => disk["texts"] \in {0, Torn}
  /\ proc.open \/ op \in {"open", "replay"} \/ stored # 0 \/ diverted # 0 => "layout.meta" \in DOMAIN disk

\* Once created, the files stay.
MadeInv == created => Made \ {"config"} \subseteq DOMAIN disk

\* The settings or their backup are whole, and no step touches the one needed.
ConfigInv ==
  created =>
    \/ op # "restore" /\ Sound(disk, "config")
    \/ op # "update" /\ Sound(disk, "config.bak")

\* The text files are whole where the code relies on them; if not they come
\* with this recovery.
TextsInv ==
  /\ (proc.open \/ op \in {"replay", "recoverReplay", "recovered"}) /\ "texts" \in DOMAIN disk => Sound(disk, "texts")
  /\ op = "recovery" /\ "texts" \in DOMAIN disk => Coming("texts")
  /\ created /\ ~recreated =>
       /\ Sound(disk, "texts") /\ disk["texts"] = stored - diverted
       /\ \A t \in Range(todo) : t.to # "texts"

\* The lock tells of text files that are torn, and of a recovery.
LockInv ==
  /\ created /\ ~Sound(disk, "texts") => "lock" \in DOMAIN disk \/ unlocked
  /\ created /\ op \in {"recover", "recovery"} =>
       "lock" \in DOMAIN disk \/ unlocked \/ \E t \in Range(todo) : t.to = "lock"

DirectoryInv == WorkInv /\ RenamedInv /\ CreateInv /\ MadeInv /\ ConfigInv /\ TextsInv /\ LockInv
-----------------------------------------------------------------------------
(***************************************************************************)
(* Lists of steps.                                                         *)
(***************************************************************************)
\* A list is made of steps if each of its places is.
LEMMA StepsByPlace ==
  ASSUME NEW S, NEW s \in Seq(S), NEW o, \A i \in 1..Len(s) : IsStep(s[i], o)
  PROVE  AreSteps(s, o)
<1>1. s \in Seq(Range(s))
  BY SeqOfRange
<1>2. ASSUME NEW t \in Range(s) PROVE IsStep(t, o)
  <2>1. PICK i \in 1..Len(s) : t = s[i]
    BY DEF Range
  <2> QED BY <2>1
<1> QED BY <1>1, <1>2 DEF AreSteps

\* Nothing is left.
LEMMA NoSteps ==
  ASSUME NEW d, NEW o
  PROVE  AreSteps(<<>>, o) /\ Runnable(d, <<>>) /\ Range(<<>>) = {}
<1>1. <<>> \in Seq({}) /\ Len(<<>>) = 0
  OBVIOUS
<1>2. \A t : t \notin Range(<<>>)
  BY DEF Range
<1>3. <<>> \in Seq(Range(<<>>))
  OBVIOUS
<1> QED BY <1>1, <1>2, <1>3 DEF Runnable, AreSteps

\* The next step and the ones after it.
LEMMA NextStep ==
  ASSUME NEW s, NEW o, AreSteps(s, o), s # <<>>
  PROVE  /\ IsStep(Head(s), o) /\ AreSteps(Tail(s), o)
         /\ Range(s) = {Head(s)} \cup Range(Tail(s))
         /\ Len(s) \in Nat \ {0} /\ Len(Tail(s)) = Len(s) - 1 /\ Head(s) = s[1]
         /\ \A i \in 1..Len(s) - 1 : Tail(s)[i] = s[i + 1]
         /\ \A i \in 1..Len(s) : s[i] \in Range(s)
<1>1. s \in Seq(Range(s)) /\ \A t \in Range(s) : IsStep(t, o)
  BY DEF AreSteps
<1> DEFINE S == Range(s)
<1>2. PICK h, r : h = Head(s) /\ r = Tail(s)
  OBVIOUS
<1>3. s \in Seq(S)
  BY <1>1
<1> HIDE DEF S
<1>4. /\ Len(s) \in Nat \ {0} /\ DOMAIN s = 1..Len(s)
      /\ h = s[1] /\ r \in Seq(S) /\ Len(r) = Len(s) - 1
      /\ \A i \in 1..Len(s) - 1 : r[i] = s[i + 1]
      /\ \A i \in 1..Len(s) : s[i] \in S
  BY <1>2, <1>3
<1>5. <<h>> \in Seq(S) /\ s = <<h>> \o r /\ Range(<<h>>) = {h}
  BY <1>2, <1>3, <1>4 DEF Range
<1>6. Range(s) = {h} \cup Range(r)
  <2>1. PICK u : u = <<h>>
    OBVIOUS
  <2>2. u \in Seq(S) /\ r \in Seq(S)
    BY <1>4, <1>5, <2>1
  <2>3. Range(u \o r) = Range(u) \cup Range(r)
    BY <2>2, RangeConcatenation
  <2> QED BY <1>5, <2>1, <2>3
<1>7. IsStep(h, o)
  BY <1>1, <1>6
<1>8. AreSteps(r, o)
  <2>1. r \in Seq(Range(r))
    BY <1>4, SeqOfRange
  <2> QED BY <1>1, <1>6, <2>1 DEF AreSteps
<1> QED BY <1>2, <1>4, <1>6, <1>7, <1>8 DEF S
-----------------------------------------------------------------------------
(***************************************************************************)
(* What a step does to each file.                                          *)
(***************************************************************************)
\* A whole content is not torn.
LEMMA WholeIsSound ==
  ASSUME NEW f, NEW c \in Holds(f)
  PROVE  c # Torn
BY DEF Holds

\* Only the file put in place and the one renamed change.
Same(d, e, f) == (f \in DOMAIN e <=> f \in DOMAIN d) /\ (f \in DOMAIN d => e[f] = d[f])

Temps == {"layout.tmp", "config.tmp", "vectors.tmp", "postings.tmp"}

Effect(d, e, t) ==
  /\ \A f : f # t.to /\ ~Takes(t, f) => Same(d, e, f)
  /\ \A f : Takes(t, f) => f \notin DOMAIN e
  /\ t.do # "remove" => Sound(e, t.to)
  /\ t.do = "write" => e[t.to] = t.content

LEMMA DoneFacts ==
  ASSUME NEW d, NEW o, NEW t, Typed(d), IsStep(t, o), Reads(t) => Sound(d, t.from)
  PROVE  Typed(Done(d, t)) /\ Effect(d, Done(d, t), t)
<1>0. PICK e, f : e = Done(d, t) /\ f = t.to
  OBVIOUS
<1>1. ASSUME NEW c \in Holds(f), e = With(d, f, c), t.do \notin {"remove", "rename"},
             t.do = "write" => c = t.content
      PROVE  Typed(e) /\ Effect(d, e, t)
  <2>1. c # Torn
    BY WholeIsSound
  <2>2. /\ DOMAIN e = DOMAIN d \cup {f} /\ e[f] = c
        /\ \A g \in DOMAIN d : g # f => e[g] = d[g]
    BY <1>1 DEF With
  <2>3. Effect(d, e, t)
    BY <1>0, <1>1, <2>1, <2>2 DEF Effect, Same, Sound, Takes
  <2>4. Typed(e)
    BY <1>1, <2>2 DEF Typed
  <2> QED BY <2>3, <2>4
<1>2. CASE t.do = "write"
  <2>1. e = With(d, f, t.content) /\ t.content \in Holds(f)
    BY <1>0, <1>2 DEF Done, IsStep
  <2> QED BY <1>0, <1>1, <1>2, <2>1
<1>3. CASE t.do = "copy"
  <2>1. PICK c : c = d[t.from]
    OBVIOUS
  <2>2. e = With(d, f, c) /\ t.from \in DOMAIN d /\ c # Torn
    BY <1>0, <1>3, <2>1 DEF Done, Reads, Sound
  <2>3. c \in Holds(f)
    <3>1. {t.from, f} = {"config", "config.bak"}
      BY <1>0, <1>3 DEF IsStep
    <3> QED BY <2>1, <2>2, <3>1 DEF Typed, Holds
  <2> QED BY <1>0, <1>1, <1>3, <2>2, <2>3
<1>4. CASE t.do = "rename"
  <2>1. PICK w, c, r : w = With(d, f, c) /\ c = d[t.from] /\ r = t.from
    OBVIOUS
  <2>2. e = Without(w, {r}) /\ r \in DOMAIN d /\ c # Torn
    BY <1>0, <1>4, <2>1 DEF Done, Reads, Sound
  <2>3. r # f /\ Holds(r) = Holds(f)
    BY <1>0, <1>4, <2>1 DEF IsStep, Renamed, Temp, Holds
  <2>4. /\ DOMAIN w = DOMAIN d \cup {f} /\ w[f] = c
        /\ \A g \in DOMAIN d : g # f => w[g] = d[g]
    BY <2>1 DEF With
  <2>5. DOMAIN e = DOMAIN w \ {r} /\ \A g \in DOMAIN w \ {r} : e[g] = w[g]
    BY <2>2 DEF Without
  <2>6. Effect(d, e, t)
    BY <1>0, <1>4, <2>1, <2>2, <2>3, <2>4, <2>5 DEF Effect, Same, Sound, Takes
  <2>7. c \in Holds(f)
    BY <2>1, <2>2, <2>3 DEF Typed
  <2>8. ASSUME NEW g \in DOMAIN e PROVE e[g] \in Holds(g) \cup {Torn}
    BY <2>4, <2>5, <2>7 DEF Typed
  <2>9. Typed(e)
    BY <2>8 DEF Typed
  <2> QED BY <1>0, <2>6, <2>9
<1>5. CASE t.do = "remove"
  <2>1. e = Without(d, {f})
    BY <1>0, <1>5 DEF Done
  <2>2. DOMAIN e = DOMAIN d \ {f} /\ \A g \in DOMAIN d \ {f} : e[g] = d[g]
    BY <2>1 DEF Without
  <2>3. Effect(d, e, t)
    BY <1>0, <1>5, <2>2 DEF Effect, Same, Takes
  <2>4. Typed(e)
    BY <2>2 DEF Typed
  <2> QED BY <1>0, <2>3, <2>4
<1>6. CASE t.do = "mkdir"
  <2>1. e = With(d, f, "dir") /\ "dir" \in Holds(f)
    BY <1>0, <1>6 DEF Done, IsStep, Dirs, Holds, Marks
  <2> QED BY <1>0, <1>1, <1>6, <2>1
<1> QED BY <1>2, <1>3, <1>4, <1>5, <1>6 DEF IsStep

\* A step that reads a file finds it.
LEMMA NextStepReads ==
  ASSUME NEW d, NEW o, NEW s, AreSteps(s, o), s # <<>>, Runnable(d, s), Reads(Head(s))
  PROVE  Sound(d, Head(s).from)
<1>1. Len(s) \in Nat \ {0} /\ Head(s) = s[1]
  BY NextStep
<1>2. Provided(d, s, 1, s[1].from)
  BY <1>1 DEF Runnable
<1> QED BY <1>1, <1>2 DEF Provided

\* The steps after the one done find theirs.
LEMMA RunnableTail ==
  ASSUME NEW d, NEW o, NEW s, Typed(d), AreSteps(s, o), s # <<>>, Runnable(d, s)
  PROVE  Runnable(Done(d, Head(s)), Tail(s))
<1>1. PICK h, r, e : h = Head(s) /\ r = Tail(s) /\ e = Done(d, h)
  OBVIOUS
<1>2. /\ IsStep(h, o) /\ Len(s) \in Nat \ {0} /\ Len(r) = Len(s) - 1 /\ h = s[1]
      /\ \A i \in 1..Len(s) - 1 : r[i] = s[i + 1]
  BY <1>1, NextStep
<1>3. Effect(d, e, h)
  BY <1>1, <1>2, NextStepReads, DoneFacts
<1> SUFFICES ASSUME NEW i \in 1..Len(s) - 1, Reads(r[i])
             PROVE  Provided(e, r, i, r[i].from)
  BY <1>1, <1>2 DEF Runnable
<1>4. PICK f : f = r[i].from
  OBVIOUS
<1>5. r[i] = s[i + 1] /\ i + 1 \in 1..Len(s)
  BY <1>2
<1>6. Provided(d, s, i + 1, f)
  BY <1>4, <1>5 DEF Runnable
<1>7. \A k \in 1..i - 1 : r[k] = s[k + 1] /\ k + 1 \in 1..i
  BY <1>2
<1>8. CASE Sound(d, f) /\ \A k \in 1..i : ~Takes(s[k], f)
  <2>1. ~Takes(h, f)
    BY <1>2, <1>8
  <2>2. Sound(e, f)
    <3>1. CASE h.to = f
      <4>1. h.do # "remove"
        <5>1. f # "lock"
          BY <1>4, <1>5, NextStep DEF AreSteps, Reads, IsStep, Temp
        <5> QED BY <1>2, <3>1, <5>1 DEF IsStep
      <4> QED BY <1>3, <3>1, <4>1 DEF Effect
    <3>2. CASE h.to # f
      BY <1>3, <1>8, <2>1, <3>2 DEF Effect, Same, Sound
    <3> QED BY <3>1, <3>2
  <2>3. \A k \in 1..i - 1 : ~Takes(r[k], f)
    BY <1>7, <1>8
  <2> QED BY <1>4, <2>2, <2>3 DEF Provided
<1>9. ASSUME NEW j \in 1..i, Fills(s[j], f), \A k \in j + 1..i : ~Takes(s[k], f)
      PROVE  Provided(e, r, i, f)
  <2>1. CASE j = 1
    <3>1. Sound(e, f)
      BY <1>2, <1>3, <1>9, <2>1 DEF Fills, Effect
    <3>2. \A k \in 1..i - 1 : k + 1 \in j + 1..i
      BY <2>1
    <3>3. \A k \in 1..i - 1 : ~Takes(r[k], f)
      BY <1>7, <1>9, <3>2
    <3> QED BY <3>1, <3>3 DEF Provided
  <2>2. CASE j # 1
    <3>1. j - 1 \in 1..i - 1 /\ r[j - 1] = s[j]
      BY <1>2, <2>2
    <3>2. \A k \in (j - 1) + 1..i - 1 : k \in 1..i - 1 /\ k + 1 \in j + 1..i
      BY <2>2
    <3>3. \A k \in (j - 1) + 1..i - 1 : ~Takes(r[k], f)
      BY <1>7, <1>9, <3>2
    <3> QED BY <1>9, <3>1, <3>3 DEF Provided
  <2> QED BY <2>1, <2>2
<1>10. (i + 1) - 1 = i
  OBVIOUS
<1> QED BY <1>4, <1>6, <1>8, <1>9, <1>10 DEF Provided

\* A step that empties its target and stops there can be done again.
LEMMA RunnableEmptied ==
  ASSUME NEW d, NEW o, NEW s, Typed(d), AreSteps(s, o), s # <<>>, Runnable(d, s),
         Head(s).do \in {"write", "copy"}
  PROVE  Runnable(With(d, Head(s).to, Torn), s)
<1>1. PICK h, e : h = Head(s) /\ e = With(d, h.to, Torn)
  OBVIOUS
<1>2. IsStep(h, o) /\ Len(s) \in Nat \ {0} /\ h = s[1]
  BY <1>1, NextStep
<1>3. \A g : g # h.to => Same(d, e, g)
  <2>1. PICK x : x = h.to
    OBVIOUS
  <2>2. DOMAIN e = DOMAIN d \cup {x} /\ \A g \in DOMAIN d : g # x => e[g] = d[g]
    BY <1>1, <2>1 DEF With
  <2> QED BY <2>1, <2>2 DEF Same
<1> SUFFICES ASSUME NEW i \in 1..Len(s), Reads(s[i])
             PROVE  Provided(e, s, i, s[i].from)
  BY <1>1 DEF Runnable
<1>4. PICK f : f = s[i].from
  OBVIOUS
<1>5. Provided(d, s, i, f)
  BY <1>4 DEF Runnable
<1>6. CASE \E j \in 1..i - 1 : Fills(s[j], f) /\ \A k \in j + 1..i - 1 : ~Takes(s[k], f)
  BY <1>4, <1>6 DEF Provided
<1>7. CASE Sound(d, f) /\ \A k \in 1..i - 1 : ~Takes(s[k], f)
  <2>1. CASE f # h.to
    BY <1>3, <1>4, <1>7, <2>1 DEF Provided, Same, Sound
  <2>2. CASE f = h.to
    <3>1. i # 1
      BY <1>1, <1>2, <1>4, <2>2 DEF IsStep, Reads
    <3>2. 1 \in 1..i - 1 /\ \A k \in 2..i - 1 : k \in 1..i - 1
      BY <3>1
    <3>3. Fills(s[1], f)
      BY <1>1, <1>2, <2>2 DEF Fills
    <3>4. 1 \in 1..i - 1 /\ \A k \in 1 + 1..i - 1 : ~Takes(s[k], f)
      BY <1>7, <3>2
    <3> QED BY <1>4, <3>3, <3>4 DEF Provided
  <2> QED BY <2>1, <2>2
<1> QED BY <1>5, <1>6, <1>7 DEF Provided
-----------------------------------------------------------------------------
(***************************************************************************)
(* The lists that the operations begin with.                               *)
(***************************************************************************)
LEMMA SaveIsList ==
  ASSUME NEW d, NEW m \in Metadata, NEW o \in SavesLayout
  PROVE  AreSteps(Save(m), o) /\ Runnable(d, Save(m))
<1>1. PICK a, b, s : a = Write("layout.tmp", m) /\ b = Rename("layout.tmp", "layout.meta") /\ s = Save(m)
  OBVIOUS
<1>2. s = <<a, b>> /\ s \in Seq({a, b}) /\ Len(s) = 2 /\ s[1] = a /\ s[2] = b
  BY <1>1 DEF Save
<1>3. IsStep(a, o) /\ IsStep(b, o)
  BY <1>1 DEF IsStep, Write, Rename, Written, Renamed, Holds, Temp
<1>4. AreSteps(s, o)
  <2>1. \A i \in 1..Len(s) : IsStep(s[i], o)
    BY <1>2, <1>3
  <2> QED BY <1>2, <2>1, StepsByPlace
<1>5. Provided(d, s, 2, "layout.tmp") /\ ~Reads(a) /\ b.from = "layout.tmp"
  BY <1>1, <1>2 DEF Provided, Fills, Takes, Reads, Write, Rename
<1>6. Runnable(d, s)
  BY <1>2, <1>5 DEF Runnable
<1> QED BY <1>1, <1>4, <1>6

\* A list that reads no file can always run.
LEMMA WritesRun ==
  ASSUME NEW d, NEW s, \A i \in 1..Len(s) : ~Reads(s[i])
  PROVE  Runnable(d, s)
BY DEF Runnable

LEMMA ReplayIsList ==
  ASSUME NEW d, NEW e, NEW o \in Replays, NEW listed, NEW l \in Replay(d, listed)
  PROVE  AreSteps(l, o) /\ Runnable(e, l)
<1>1. CASE l = <<>>
  BY <1>1, NoSteps
<1>2. CASE l = <<Write("shardex.meta", "ok")>>
  <2>1. PICK a, s : a = Write("shardex.meta", "ok") /\ s = l
    OBVIOUS
  <2>2. s = <<a>> /\ s \in Seq({a}) /\ Len(s) = 1 /\ s[1] = a
    <3>1. s = <<a>>
      BY <1>2, <2>1
    <3> QED BY <3>1
  <2>3. IsStep(a, o) /\ ~Reads(a)
    BY <2>1 DEF IsStep, Write, Written, Holds, Marks, Reads
  <2>4. AreSteps(s, o)
    <3>1. \A i \in 1..Len(s) : IsStep(s[i], o)
      BY <2>2, <2>3
    <3> QED BY <2>2, <3>1, StepsByPlace
  <2>5. Runnable(e, s)
    BY <2>2, <2>3, WritesRun
  <2> QED BY <2>1, <2>4, <2>5
<1> QED BY <1>1, <1>2 DEF Replay

LEMMA CreateShardIsList ==
  ASSUME NEW d
  PROVE  AreSteps(CreateShard, "shard") /\ Runnable(d, CreateShard)
<1>1. PICK a, b, x, y, z, s :
        /\ a = Write("vectors.tmp", "ok") /\ b = Write("postings.tmp", "ok")
        /\ x = Rename("vectors.tmp", "vectors") /\ y = Rename("postings.tmp", "postings")
        /\ z = Write("shardex.meta", "ok") /\ s = CreateShard
  OBVIOUS
<1>2. /\ s = <<a, b, x, y, z>> /\ s \in Seq({a, b, x, y, z}) /\ Len(s) = 5
      /\ s[1] = a /\ s[2] = b /\ s[3] = x /\ s[4] = y /\ s[5] = z
  BY <1>1 DEF CreateShard
<1>3. IsStep(a, "shard") /\ IsStep(b, "shard") /\ IsStep(x, "shard") /\ IsStep(y, "shard") /\ IsStep(z, "shard")
  BY <1>1 DEF IsStep, Write, Rename, Written, Renamed, Holds, Marks, Temp
<1>4. AreSteps(s, "shard")
  <2>1. \A i \in 1..Len(s) : IsStep(s[i], "shard")
    BY <1>2, <1>3
  <2> QED BY <1>2, <2>1, StepsByPlace
<1>5. /\ ~Reads(a) /\ ~Reads(b) /\ ~Reads(z)
      /\ x.from = "vectors.tmp" /\ y.from = "postings.tmp"
  BY <1>1 DEF Reads, Write, Rename
<1>6. Provided(d, s, 3, "vectors.tmp")
  BY <1>1, <1>2 DEF Provided, Fills, Takes, Write
<1>7. Provided(d, s, 4, "postings.tmp")
  BY <1>1, <1>2 DEF Provided, Fills, Takes, Write, Rename
<1>8. Runnable(d, s)
  BY <1>2, <1>5, <1>6, <1>7 DEF Runnable
<1> QED BY <1>1, <1>4, <1>8

LEMMA CreateIndexIsList ==
  ASSUME NEW d
  PROVE  /\ AreSteps(CreateIndex, "recovery") /\ Runnable(d, CreateIndex)
         /\ \E t \in Range(CreateIndex) : t.to = "texts"
<1>1. PICK a, b, x, y, s :
        /\ a = Mkdir("root") /\ b = Mkdir("shards") /\ x = Write("shardex.meta", "ok")
        /\ y = Write("texts", 0) /\ s = CreateIndex
  OBVIOUS
<1>2. /\ s = <<a, b, x, y>> /\ s \in Seq({a, b, x, y}) /\ Len(s) = 4
      /\ s[1] = a /\ s[2] = b /\ s[3] = x /\ s[4] = y /\ DOMAIN s = 1..4
  BY <1>1 DEF CreateIndex
<1>3. /\ IsStep(a, "recovery") /\ IsStep(b, "recovery") /\ IsStep(x, "recovery") /\ IsStep(y, "recovery")
      /\ ~Reads(a) /\ ~Reads(b) /\ ~Reads(x) /\ ~Reads(y) /\ y.to = "texts"
  BY <1>1 DEF IsStep, Write, Mkdir, Written, Holds, Marks, Dirs, MakesDirs, MakesIndex, Reads
<1>4. AreSteps(s, "recovery")
  <2>1. \A i \in 1..Len(s) : IsStep(s[i], "recovery")
    BY <1>2, <1>3
  <2> QED BY <1>2, <2>1, StepsByPlace
<1>5. Runnable(d, s)
  <2>1. \A i \in 1..Len(s) : ~Reads(s[i])
    BY <1>2, <1>3
  <2> QED BY <2>1, WritesRun
<1>6. y \in Range(s)
  BY <1>2 DEF Range
<1> QED BY <1>1, <1>3, <1>4, <1>5, <1>6

LEMMA MkdirsIsList ==
  ASSUME NEW d
  PROVE  /\ AreSteps(Mkdirs, "mkdirs") /\ Runnable(d, Mkdirs)
         /\ \A f \in Dirs : \E t \in Range(Mkdirs) : t.to = f
<1>1. PICK a, b, x, y, s :
        /\ a = Mkdir("root") /\ b = Mkdir("centroids") /\ x = Mkdir("shards") /\ y = Mkdir("wal")
        /\ s = Mkdirs
  OBVIOUS
<1>2. /\ s = <<a, b, x, y>> /\ s \in Seq({a, b, x, y}) /\ Len(s) = 4
      /\ s[1] = a /\ s[2] = b /\ s[3] = x /\ s[4] = y /\ DOMAIN s = 1..4
  BY <1>1 DEF Mkdirs
<1>3. /\ IsStep(a, "mkdirs") /\ IsStep(b, "mkdirs") /\ IsStep(x, "mkdirs") /\ IsStep(y, "mkdirs")
      /\ ~Reads(a) /\ ~Reads(b) /\ ~Reads(x) /\ ~Reads(y)
      /\ a.to = "root" /\ b.to = "centroids" /\ x.to = "shards" /\ y.to = "wal"
  BY <1>1 DEF IsStep, Mkdir, Dirs, MakesDirs, Reads
<1>4. AreSteps(s, "mkdirs")
  <2>1. \A i \in 1..Len(s) : IsStep(s[i], "mkdirs")
    BY <1>2, <1>3
  <2> QED BY <1>2, <2>1, StepsByPlace
<1>5. Runnable(d, s)
  <2>1. \A i \in 1..Len(s) : ~Reads(s[i])
    BY <1>2, <1>3
  <2> QED BY <2>1, WritesRun
<1>6. a \in Range(s) /\ b \in Range(s) /\ x \in Range(s) /\ y \in Range(s)
  BY <1>2 DEF Range
<1> QED BY <1>1, <1>3, <1>4, <1>5, <1>6 DEF Dirs

LEMMA RecoverIsList ==
  ASSUME NEW d
  PROVE  /\ AreSteps(Lock \o Mkdirs, "recover") /\ Runnable(d, Lock \o Mkdirs)
         /\ "root" \in DOMAIN disk => \E t \in Range(Lock \o Mkdirs) : t.to = "lock"
<1>1. PICK a, b, x, y, l, s :
        /\ a = Mkdir("root") /\ b = Mkdir("centroids") /\ x = Mkdir("shards") /\ y = Mkdir("wal")
        /\ l = Write("lock", "held") /\ s = Lock \o Mkdirs
  OBVIOUS
<1>2. /\ IsStep(a, "recover") /\ IsStep(b, "recover") /\ IsStep(x, "recover") /\ IsStep(y, "recover")
      /\ IsStep(l, "recover")
      /\ ~Reads(a) /\ ~Reads(b) /\ ~Reads(x) /\ ~Reads(y) /\ ~Reads(l) /\ l.to = "lock"
  BY <1>1 DEF IsStep, Mkdir, Write, Dirs, MakesDirs, Written, Holds, Marks, Reads
<1>3. CASE "root" \notin DOMAIN disk
  <2>1. /\ s = <<a, b, x, y>> /\ s \in Seq({a, b, x, y}) /\ Len(s) = 4
        /\ s[1] = a /\ s[2] = b /\ s[3] = x /\ s[4] = y
    BY <1>1, <1>3 DEF Mkdirs, Lock
  <2>2. \A i \in 1..Len(s) : IsStep(s[i], "recover") /\ ~Reads(s[i])
    BY <1>2, <2>1
  <2>3. AreSteps(s, "recover") /\ Runnable(d, s)
    BY <2>1, <2>2, StepsByPlace, WritesRun
  <2> QED BY <1>1, <1>3, <2>3
<1>4. CASE "root" \in DOMAIN disk
  <2>1. /\ s \in Seq({l, a, b, x, y}) /\ Len(s) = 5
        /\ s[1] = l /\ s[2] = a /\ s[3] = b /\ s[4] = x /\ s[5] = y /\ DOMAIN s = 1..5
    <3>1. Lock = <<l>> /\ Mkdirs = <<a, b, x, y>>
      BY <1>1, <1>4 DEF Mkdirs, Lock
    <3>2. s = <<l>> \o <<a, b, x, y>>
      BY <1>1, <3>1
    <3> QED BY <3>2
  <2>2. \A i \in 1..Len(s) : IsStep(s[i], "recover") /\ ~Reads(s[i])
    BY <1>2, <2>1
  <2>3. AreSteps(s, "recover") /\ Runnable(d, s)
    BY <2>1, <2>2, StepsByPlace, WritesRun
  <2>4. l \in Range(s)
    BY <2>1 DEF Range
  <2> QED BY <1>1, <1>2, <2>3, <2>4
<1> QED BY <1>3, <1>4

\* One list after the other.
LEMMA ListsJoin ==
  ASSUME NEW S, NEW s \in Seq(S), NEW t \in Seq(S), NEW u, u = s \o t
  PROVE  /\ u \in Seq(S) /\ Len(u) = Len(s) + Len(t) /\ DOMAIN u = 1..Len(s) + Len(t)
         /\ \A i \in 1..Len(s) : u[i] = s[i]
         /\ \A i \in 1..Len(t) : u[Len(s) + i] = t[i]
OBVIOUS

\* create: the files that must be there are among those put in place.
CreateList(c) ==
  Save(Meta(c, TRUE, FALSE)) \o SaveConfig(c) \o CreateIndex \o Save(Meta(c, TRUE, FALSE))

LEMMA CreateIsList ==
  ASSUME NEW d, NEW c \in Config, "config" \notin DOMAIN disk
  PROVE  /\ AreSteps(CreateList(c), "create") /\ Runnable(d, CreateList(c))
         /\ \A f \in Made \ Dirs : \E t \in Range(CreateList(c)) : t.to = f
<1>1. PICK a, b, p, q, x, y, z, w, s :
        /\ a = Write("layout.tmp", Meta(c, TRUE, FALSE)) /\ b = Rename("layout.tmp", "layout.meta")
        /\ p = Write("config.tmp", c) /\ q = Rename("config.tmp", "config")
        /\ x = Mkdir("root") /\ y = Mkdir("shards") /\ z = Write("shardex.meta", "ok")
        /\ w = Write("texts", 0) /\ s = CreateList(c)
  OBVIOUS
<1>2. s = ((<<a, b>> \o <<p, q>>) \o <<x, y, z, w>>) \o <<a, b>>
  BY <1>1 DEF CreateList, Save, SaveConfig, CreateIndex
<1> DEFINE S == {a, b, p, q, x, y, z, w}
<1>3. /\ s \in Seq(S) /\ Len(s) = 10
      /\ s[1] = a /\ s[2] = b /\ s[3] = p /\ s[4] = q /\ s[5] = x /\ s[6] = y /\ s[7] = z /\ s[8] = w
      /\ s[9] = a /\ s[10] = b /\ DOMAIN s = 1..10
  <2>1. PICK u : u = <<a, b>> \o <<p, q>>
    OBVIOUS
  <2>2. u \in Seq(S) /\ Len(u) = 4 /\ u[1] = a /\ u[2] = b /\ u[3] = p /\ u[4] = q
    BY <2>1
  <2>3. PICK m, n, v : m = <<x, y, z, w>> /\ n = <<a, b>> /\ v = u \o m
    OBVIOUS
  <2>4. /\ m \in Seq(S) /\ Len(m) = 4 /\ m[1] = x /\ m[2] = y /\ m[3] = z /\ m[4] = w
        /\ n \in Seq(S) /\ Len(n) = 2 /\ n[1] = a /\ n[2] = b
    BY <2>3
  <2>5. s = v \o n
    BY <1>2, <2>1, <2>3
  <2> HIDE DEF S
  <2>6. /\ v \in Seq(S) /\ Len(v) = 8
        /\ \A i \in 1..4 : v[i] = u[i] /\ v[4 + i] = m[i]
    <3>1. u \in Seq(S) /\ m \in Seq(S) /\ v = u \o m
      BY <2>2, <2>3, <2>4
    <3>2. /\ v \in Seq(S) /\ Len(v) = Len(u) + Len(m)
          /\ \A i \in 1..Len(u) : v[i] = u[i]
          /\ \A i \in 1..Len(m) : v[Len(u) + i] = m[i]
      BY <3>1, ListsJoin
    <3> QED BY <2>2, <2>4, <3>2
  <2>7. /\ v[1] = a /\ v[2] = b /\ v[3] = p /\ v[4] = q
        /\ v[4 + 1] = x /\ v[4 + 2] = y /\ v[4 + 3] = z /\ v[4 + 4] = w
    BY <2>2, <2>4, <2>6
  <2>8. /\ s \in Seq(S) /\ Len(s) = 10 /\ DOMAIN s = 1..10
        /\ \A i \in 1..8 : s[i] = v[i]
        /\ \A i \in 1..2 : s[8 + i] = n[i]
    <3>1. v \in Seq(S) /\ n \in Seq(S) /\ s = v \o n
      BY <2>4, <2>5, <2>6
    <3>2. /\ s \in Seq(S) /\ Len(s) = Len(v) + Len(n) /\ DOMAIN s = 1..Len(v) + Len(n)
          /\ \A i \in 1..Len(v) : s[i] = v[i]
          /\ \A i \in 1..Len(n) : s[Len(v) + i] = n[i]
      BY <3>1, ListsJoin
    <3> QED BY <2>4, <2>6, <3>2
  <2>9. s[8 + 1] = a /\ s[8 + 2] = b
    BY <2>4, <2>8
  <2> QED BY <2>7, <2>8, <2>9
<1>4. /\ IsStep(a, "create") /\ IsStep(b, "create") /\ IsStep(p, "create") /\ IsStep(q, "create")
      /\ IsStep(x, "create") /\ IsStep(y, "create") /\ IsStep(z, "create") /\ IsStep(w, "create")
  <2>1. Meta(c, TRUE, FALSE) \in Metadata /\ c \in Mixed
    BY DEF Meta, Metadata
  <2> QED BY <1>1, <2>1 DEF IsStep, Write, Rename, Mkdir, Written, Renamed, Holds, Marks, Temp, Dirs, MakesDirs,
             MakesIndex, SavesLayout
<1>5. AreSteps(s, "create")
  <2>1. \A i \in 1..10 : IsStep(s[i], "create")
    BY <1>3, <1>4
  <2> QED BY <1>3, <2>1, StepsByPlace
<1>6. /\ ~Reads(a) /\ ~Reads(p) /\ ~Reads(x) /\ ~Reads(y) /\ ~Reads(z) /\ ~Reads(w)
      /\ b.from = "layout.tmp" /\ q.from = "config.tmp"
      /\ Fills(a, "layout.tmp") /\ Fills(p, "config.tmp")
      /\ b.to = "layout.meta" /\ q.to = "config" /\ z.to = "shardex.meta" /\ w.to = "texts"
  BY <1>1 DEF Reads, Fills, Write, Rename, Mkdir
<1>7. Provided(d, s, 2, "layout.tmp")
  BY <1>3, <1>6 DEF Provided
<1>8. Provided(d, s, 4, "config.tmp")
  BY <1>3, <1>6 DEF Provided
<1>9. Provided(d, s, 10, "layout.tmp")
  BY <1>3, <1>6 DEF Provided
<1>10. Runnable(d, s)
  BY <1>3, <1>6, <1>7, <1>8, <1>9 DEF Runnable
<1>11. b \in Range(s) /\ q \in Range(s) /\ z \in Range(s) /\ w \in Range(s)
  BY <1>3 DEF Range
<1> QED BY <1>1, <1>5, <1>6, <1>10, <1>11 DEF Made

LEMMA UpdateIsList ==
  ASSUME NEW c \in Mixed, Sound(disk, "config")
  PROVE  AreSteps(SaveConfig(c), "update") /\ Runnable(disk, SaveConfig(c))
<1>1. PICK a, p, q, s :
        /\ a = Copy("config", "config.bak") /\ p = Write("config.tmp", c) /\ q = Rename("config.tmp", "config")
        /\ s = SaveConfig(c)
  OBVIOUS
<1>2. /\ s \in Seq({a, p, q}) /\ Len(s) = 3 /\ s[1] = a /\ s[2] = p /\ s[3] = q
  <2>1. s = <<a>> \o <<p, q>>
    BY <1>1 DEF SaveConfig, Sound
  <2> QED BY <2>1
<1>3. IsStep(a, "update") /\ IsStep(p, "update") /\ IsStep(q, "update")
  BY <1>1 DEF IsStep, Copy, Write, Rename, Written, Renamed, Holds, Temp
<1>4. AreSteps(s, "update")
  <2>1. \A i \in 1..Len(s) : IsStep(s[i], "update")
    BY <1>2, <1>3
  <2> QED BY <1>2, <2>1, StepsByPlace
<1>5. Provided(disk, s, 1, "config") /\ a.from = "config"
  BY <1>1 DEF Provided, Copy
<1>6. Provided(disk, s, 3, "config.tmp") /\ q.from = "config.tmp" /\ ~Reads(p)
  BY <1>1, <1>2 DEF Provided, Fills, Reads, Write, Rename
<1>7. Runnable(disk, s)
  BY <1>2, <1>5, <1>6 DEF Runnable
<1> QED BY <1>1, <1>4, <1>7

LEMMA RestoreIsList ==
  ASSUME Sound(disk, "config.bak")
  PROVE  /\ AreSteps(<<Copy("config.bak", "config")>>, "restore")
         /\ Runnable(disk, <<Copy("config.bak", "config")>>)
<1>1. PICK a, s : a = Copy("config.bak", "config") /\ s = <<a>>
  OBVIOUS
<1>2. s \in Seq({a}) /\ Len(s) = 1 /\ s[1] = a
  BY <1>1
<1>3. IsStep(a, "restore") /\ a.from = "config.bak" /\ Provided(disk, s, 1, "config.bak")
  BY <1>1 DEF IsStep, Copy, Provided
<1>4. AreSteps(s, "restore")
  BY <1>2, <1>3, StepsByPlace
<1>5. Runnable(disk, s)
  BY <1>2, <1>3 DEF Runnable
<1> QED BY <1>1, <1>4, <1>5

LEMMA UnlockIsList ==
  ASSUME NEW d
  PROVE  AreSteps(<<Remove("lock")>>, "recovered") /\ Runnable(d, <<Remove("lock")>>)
<1>1. PICK a, s : a = Remove("lock") /\ s = <<a>>
  OBVIOUS
<1>2. s \in Seq({a}) /\ Len(s) = 1 /\ s[1] = a
  BY <1>1
<1>3. IsStep(a, "recovered") /\ ~Reads(a)
  BY <1>1 DEF IsStep, Remove, Reads
<1>4. AreSteps(s, "recovered")
  BY <1>2, <1>3, StepsByPlace
<1>5. Runnable(d, s)
  BY <1>2, <1>3, WritesRun
<1> QED BY <1>1, <1>4, <1>5
-----------------------------------------------------------------------------
(***************************************************************************)
(* The steps of an operation keep the invariant.                           *)
(***************************************************************************)
LEMMA FileStepKeeps ==
  ASSUME DirectoryInv, FileStep
  PROVE  DirectoryInv'
<1>0. PICK h : h = Head(todo)
  OBVIOUS
<1>1. /\ todo # <<>> /\ disk' = Done(disk, h) /\ todo' = Tail(todo)
      /\ UNCHANGED <<op, held, proc, bounds, created, stored, diverted, recreated, unlocked, updated>>
  BY <1>0 DEF FileStep, Busy, ghosts
<1>2. Typed(disk) /\ AreSteps(todo, op) /\ Runnable(disk, todo)
  BY DEF DirectoryInv, WorkInv
<1>3. IsStep(h, op) /\ AreSteps(todo', op) /\ Range(todo) = {h} \cup Range(todo')
  BY <1>0, <1>1, <1>2, NextStep
<1>4. Typed(disk') /\ Effect(disk, disk', h)
  BY <1>0, <1>1, <1>2, <1>3, NextStepReads, DoneFacts
<1>5. Runnable(disk', todo')
  BY <1>0, <1>1, <1>2, RunnableTail
<1>6. WorkInv'
  BY <1>1, <1>3, <1>4, <1>5 DEF DirectoryInv, WorkInv
<1>7. ASSUME NEW f, f \notin Temps \cup {"lock"}
      PROVE  /\ f \in DOMAIN disk => f \in DOMAIN disk'
             /\ f # h.to => Same(disk, disk', f)
             /\ f = h.to => Sound(disk', f)
             /\ Sound(disk, f) => Sound(disk', f)
             /\ Coming(f) => Coming(f)'
  <2>1. ~Takes(h, f)
    BY <1>3, <1>7 DEF Takes, IsStep, Renamed, Temp, Temps
  <2>2. f = h.to => Sound(disk', f)
    BY <1>3, <1>4, <1>7 DEF Effect, IsStep
  <2>3. f # h.to => Same(disk, disk', f)
    BY <1>4, <2>1 DEF Effect
  <2>4. Sound(disk, f) => Sound(disk', f)
    BY <2>2, <2>3 DEF Same, Sound
  <2>5. Coming(f) => Coming(f)'
    BY <1>3, <2>2, <2>4 DEF Coming
  <2>6. f \in DOMAIN disk => f \in DOMAIN disk'
    BY <2>2, <2>3 DEF Same, Sound
  <2> QED BY <2>2, <2>3, <2>4, <2>5, <2>6
<1>8. Made \cap (Temps \cup {"lock"}) = {} /\ "config.bak" \notin Temps \cup {"lock"}
      /\ {"vectors", "postings"} \cap (Temps \cup {"lock"}) = {}
  BY DEF Made, Dirs, Temps
<1>9. "texts" \in Made /\ "config" \in Made /\ Dirs \subseteq Made /\ "layout.meta" \in Made
  BY DEF Made
<1>10. RenamedInv'
  <2> SUFFICES ASSUME NEW f \in {"layout.meta", "vectors", "postings"}, f \in DOMAIN disk'
               PROVE  Sound(disk', f)
    BY DEF RenamedInv
  <2>1. f \notin Temps \cup {"lock"}
    BY <1>8, <1>9
  <2> QED BY <1>7, <2>1 DEF DirectoryInv, RenamedInv, Same
<1>11. CreateInv'
  <2>1. op = "mkdirs" => DOMAIN disk' \subseteq Dirs
    <3> SUFFICES ASSUME op = "mkdirs", NEW f \in DOMAIN disk' PROVE f \in Dirs
      OBVIOUS
    <3>1. h.do = "mkdir" /\ h.to \in Dirs
      BY <1>3 DEF IsStep, Written, Renamed, MakesIndex, SavesLayout, Replays
    <3>2. CASE f # h.to
      <4>1. Same(disk, disk', f)
        BY <1>4, <3>1, <3>2 DEF Effect, Takes
      <4> QED BY <4>1 DEF DirectoryInv, CreateInv, Same
    <3> QED BY <3>1, <3>2
  <2>2. \A f \in Made : Coming(f) => Coming(f)'
    BY <1>7, <1>8
  <2>3. op \in {"create", "created"} /\ "texts" \in DOMAIN disk' => disk'["texts"] \in {0, Torn}
    <3>1. CASE h.to = "texts"
      <4>1. h.do = "write" /\ h.content = 0
        BY <1>3, <3>1 DEF IsStep, Renamed, Dirs
      <4> QED BY <1>4, <3>1, <4>1 DEF Effect
    <3>2. CASE h.to # "texts"
      BY <1>7, <1>8, <1>9, <3>2 DEF DirectoryInv, CreateInv, Same
    <3> QED BY <3>1, <3>2
  <2>4. "layout.meta" \in DOMAIN disk => "layout.meta" \in DOMAIN disk'
    BY <1>7, <1>8, <1>9
  <2> QED BY <1>1, <1>9, <2>1, <2>2, <2>3, <2>4 DEF DirectoryInv, CreateInv
<1>12. MadeInv'
  BY <1>1, <1>7, <1>8 DEF DirectoryInv, MadeInv
<1>13. ConfigInv'
  BY <1>1, <1>7, <1>8, <1>9 DEF DirectoryInv, ConfigInv
<1>14. /\ "texts" \in DOMAIN disk' => Sound(disk', "texts") \/ "texts" \in DOMAIN disk
       /\ Sound(disk, "texts") => Sound(disk', "texts")
       /\ Coming("texts") => Coming("texts")'
       /\ h.to # "texts" => Same(disk, disk', "texts")
  BY <1>7, <1>8, <1>9 DEF Same
<1>15. TextsInv'
  <2>1. /\ (proc.open \/ op \in {"replay", "recoverReplay", "recovered"}) /\ "texts" \in DOMAIN disk'
           => Sound(disk', "texts")
        /\ op = "recovery" /\ "texts" \in DOMAIN disk' => Coming("texts")'
    BY <1>14 DEF DirectoryInv, TextsInv, Coming
  <2>2. created /\ ~recreated =>
          /\ Sound(disk', "texts") /\ disk'["texts"] = stored - diverted
          /\ \A t \in Range(todo') : t.to # "texts"
    <3> SUFFICES ASSUME created, ~recreated
                 PROVE  /\ Sound(disk', "texts") /\ disk'["texts"] = stored - diverted
                        /\ \A t \in Range(todo') : t.to # "texts"
      OBVIOUS
    <3>1. /\ Sound(disk, "texts") /\ disk["texts"] = stored - diverted
          /\ \A t \in Range(todo) : t.to # "texts"
      BY DEF DirectoryInv, TextsInv
    <3>2. Same(disk, disk', "texts") /\ \A t \in Range(todo') : t.to # "texts"
      BY <1>3, <1>14, <3>1
    <3> QED BY <1>14, <3>1, <3>2 DEF Same, Sound
  <2> QED BY <1>1, <2>1, <2>2 DEF TextsInv
<1>16. created /\ "lock" \in DOMAIN disk => "lock" \in DOMAIN disk' \/ (op = "recovered" /\ Sound(disk', "texts"))
  <2> SUFFICES ASSUME created, "lock" \in DOMAIN disk, "lock" \notin DOMAIN disk'
               PROVE  op = "recovered" /\ Sound(disk', "texts")
    OBVIOUS
  <2>1. ~Takes(h, "lock")
    BY <1>3 DEF Takes, IsStep, Renamed, Temp
  <2>2. h.do = "remove"
    BY <1>4, <2>1 DEF Effect, Same, Sound
  <2>3. op = "recovered"
    BY <1>3, <2>2 DEF IsStep
  <2>4. "texts" \in DOMAIN disk
    BY <1>9 DEF DirectoryInv, MadeInv
  <2> QED BY <1>14, <2>3, <2>4 DEF DirectoryInv, TextsInv
<1>17. LockInv'
  <2>1. created /\ ~Sound(disk', "texts") => "lock" \in DOMAIN disk' \/ unlocked
    BY <1>14, <1>16 DEF DirectoryInv, LockInv
  <2>2. ASSUME created, op \in {"recover", "recovery"}
        PROVE  "lock" \in DOMAIN disk' \/ unlocked \/ \E t \in Range(todo') : t.to = "lock"
    <3>1. h.to = "lock" => "lock" \in DOMAIN disk'
      BY <1>3, <1>4, <2>2 DEF IsStep, Effect, Sound
    <3> QED BY <1>3, <1>16, <2>2, <3>1 DEF DirectoryInv, LockInv
  <2> QED BY <1>1, <2>1, <2>2 DEF LockInv
<1> QED BY <1>6, <1>10, <1>11, <1>12, <1>13, <1>15, <1>17 DEF DirectoryInv

LEMMA FileEmptiedKeeps ==
  ASSUME DirectoryInv, FileEmptied
  PROVE  DirectoryInv'
<1>0. PICK h, x : h = Head(todo) /\ x = h.to
  OBVIOUS
<1>1. /\ todo # <<>> /\ disk' = With(disk, x, Torn) /\ h.do \in {"write", "copy"}
      /\ UNCHANGED <<todo, op, held, proc, bounds, created, stored, diverted, recreated, unlocked, updated>>
  BY <1>0 DEF FileEmptied, Busy, ghosts
<1>2. Typed(disk) /\ AreSteps(todo, op) /\ Runnable(disk, todo)
  BY DEF DirectoryInv, WorkInv
<1>3. IsStep(h, op) /\ h \in Range(todo)
  BY <1>0, <1>1, <1>2, NextStep
<1>4. /\ DOMAIN disk' = DOMAIN disk \cup {x} /\ disk'[x] = Torn
      /\ \A g \in DOMAIN disk : g # x => disk'[g] = disk[g]
  BY <1>1 DEF With
<1>5. Runnable(disk', todo')
  BY <1>0, <1>1, <1>2, RunnableEmptied
<1>6. WorkInv'
  <2>1. Typed(disk')
    BY <1>2, <1>4 DEF Typed
  <2> QED BY <1>1, <1>5, <2>1 DEF DirectoryInv, WorkInv
<1>7. \A f : f # x => (Sound(disk, f) <=> Sound(disk', f)) /\ (f \in DOMAIN disk' => f \in DOMAIN disk)
  BY <1>4 DEF Sound
<1>8. \A f : Coming(f) => Coming(f)'
  <2> SUFFICES ASSUME NEW f, Coming(f) PROVE Coming(f)'
    OBVIOUS
  <2>1. CASE f = x
    BY <1>0, <1>1, <1>3, <2>1 DEF Coming
  <2>2. CASE f # x
    BY <1>1, <1>7, <2>2 DEF Coming
  <2> QED BY <2>1, <2>2
<1>9. /\ x \notin {"layout.meta", "vectors", "postings"}
      /\ op # "mkdirs"
      /\ x = "config" => op = "restore"
      /\ x = "config.bak" => op = "update"
      /\ x = "texts" => op \in MakesIndex
  BY <1>0, <1>1, <1>3 DEF IsStep, Written, MakesIndex, SavesLayout, Replays
<1>10. RenamedInv'
  BY <1>7, <1>9 DEF DirectoryInv, RenamedInv
<1>11. CreateInv'
  <2>1. "texts" \in DOMAIN disk' /\ op \in {"create", "created"} => disk'["texts"] \in {0, Torn}
    BY <1>4 DEF DirectoryInv, CreateInv
  <2>2. "layout.meta" \in DOMAIN disk => "layout.meta" \in DOMAIN disk'
    BY <1>4
  <2> QED BY <1>1, <1>8, <1>9, <2>1, <2>2 DEF DirectoryInv, CreateInv
<1>12. MadeInv'
  BY <1>1, <1>4 DEF DirectoryInv, MadeInv
<1>13. ConfigInv'
  BY <1>1, <1>7, <1>9 DEF DirectoryInv, ConfigInv
<1>14. x = "texts" => ~proc.open /\ op \notin {"replay", "recoverReplay", "recovered"} /\ (created => recreated)
  <2>1. x = "texts" /\ created => recreated
    BY <1>0, <1>3 DEF DirectoryInv, TextsInv
  <2> QED BY <1>9, <2>1 DEF DirectoryInv, WorkInv, MakesIndex, Creating, Starting
<1>15. TextsInv'
  <2>1. /\ (proc.open \/ op \in {"replay", "recoverReplay", "recovered"}) /\ "texts" \in DOMAIN disk'
           => Sound(disk', "texts")
    BY <1>7, <1>14 DEF DirectoryInv, TextsInv
  <2>2. op = "recovery" /\ "texts" \in DOMAIN disk' => Coming("texts")'
    <3>1. CASE x = "texts"
      BY <1>0, <1>1, <1>3, <3>1 DEF Coming
    <3> QED BY <1>7, <1>8, <3>1 DEF DirectoryInv, TextsInv
  <2>3. created /\ ~recreated =>
          /\ Sound(disk', "texts") /\ disk'["texts"] = stored - diverted
          /\ \A t \in Range(todo) : t.to # "texts"
    BY <1>4, <1>7, <1>14 DEF DirectoryInv, TextsInv, Sound
  <2> QED BY <1>1, <2>1, <2>2, <2>3 DEF TextsInv
<1>16. LockInv'
  <2>1. created /\ x = "texts" => op = "recovery"
    BY <1>9 DEF DirectoryInv, CreateInv, MakesIndex, Creating
  <2>2. op = "recovery" => \A t \in Range(todo) : t.to # "lock"
    BY <1>2 DEF AreSteps, IsStep, Written, Renamed, Dirs
  <2>3. created /\ x = "texts" => "lock" \in DOMAIN disk \/ unlocked
    BY <2>1, <2>2 DEF DirectoryInv, LockInv
  <2>4. created /\ ~Sound(disk', "texts") => "lock" \in DOMAIN disk' \/ unlocked
    BY <1>4, <1>7, <2>3 DEF DirectoryInv, LockInv
  <2> QED BY <1>1, <1>4, <2>4 DEF DirectoryInv, LockInv
<1> QED BY <1>6, <1>10, <1>11, <1>12, <1>13, <1>15, <1>16 DEF DirectoryInv

\* What a failing operation deletes is no file that must stay.
LEMMA CleanedUpFacts ==
  ASSUME NEW h, IsStep(h, op), op # "create", NEW e, e = CleanedUp(h)
  PROVE  /\ DOMAIN e \subseteq DOMAIN disk
         /\ \A f \in DOMAIN e : e[f] = disk[f]
         /\ \A f \in DOMAIN disk : f \notin Temps \cup {"vectors"} => f \in DOMAIN e
         /\ GoesOn(h) => e = disk
<1>1. CASE op = "shard"
  <2>1. CASE h.to = "postings.tmp"
    <3>1. e = Without(disk, {"vectors.tmp"})
      BY <1>1, <2>1 DEF CleanedUp
    <3> QED BY <1>1, <3>1 DEF Without, Temps, GoesOn, LockFails
  <2>2. CASE h.to = "vectors"
    <3>1. e = Without(disk, {"vectors.tmp", "postings.tmp"})
      BY <1>1, <2>2 DEF CleanedUp
    <3> QED BY <1>1, <3>1 DEF Without, Temps, GoesOn, LockFails
  <2>3. CASE h.to = "postings"
    <3>1. e = Without(disk, {"vectors", "postings.tmp"})
      BY <1>1, <2>3 DEF CleanedUp
    <3> QED BY <1>1, <3>1 DEF Without, Temps, GoesOn, LockFails
  <2>4. CASE h.to \notin {"postings.tmp", "vectors", "postings"}
    BY <1>1, <2>4 DEF CleanedUp
  <2> QED BY <2>1, <2>2, <2>3, <2>4
<1>2. CASE op # "shard" /\ h.do = "rename"
  <2>1. PICK r : r = h.from
    OBVIOUS
  <2>2. e = Without(disk, {r})
    BY <1>2, <2>1 DEF CleanedUp
  <2>3. r \in Temps
    BY <1>2, <2>1 DEF IsStep, Renamed, Temp, Temps
  <2>4. ~GoesOn(h)
    BY <1>2 DEF IsStep, Renamed, SavesLayout, GoesOn, LockFails
  <2> QED BY <2>2, <2>3, <2>4 DEF Without
<1>3. CASE op # "shard" /\ h.do # "rename"
  BY <1>3 DEF CleanedUp
<1> QED BY <1>1, <1>2, <1>3

\* An operation that ends where it is, and may leave temporary files or files
\* of a shard behind or out.
LEMMA EndsKeeps ==
  ASSUME DirectoryInv, op \notin Creating, op' = "idle", todo' = <<>>,
         UNCHANGED <<created, stored, diverted, recreated>>, unlocked => unlocked',
         proc' \in {proc, Closed},
         Typed(disk'), DOMAIN disk' \subseteq DOMAIN disk \cup {"log"},
         \A f \in DOMAIN disk : f \notin Temps \cup {"vectors", "postings", "log"} => f \in DOMAIN disk',
         \A f \in DOMAIN disk' : f # "log" => disk'[f] = disk[f]
  PROVE  DirectoryInv'
<1>1. WorkInv'
  <2>1. DOMAIN proc' = {"open", "index", "config"} /\ proc'.open \in BOOLEAN
    <3>1. CASE proc' = proc
      BY <3>1 DEF DirectoryInv, WorkInv
    <3>2. CASE proc' = Closed
      BY <3>2 DEF Closed
    <3> QED BY <3>1, <3>2
  <2>2. AreSteps(todo', op') /\ Runnable(disk', todo')
    BY NoSteps
  <2> QED BY <2>1, <2>2 DEF DirectoryInv, WorkInv, Creating, Starting
<1>2. \A f : f \notin Temps \cup {"vectors", "postings", "log"} => (Sound(disk, f) <=> Sound(disk', f))
  BY DEF Sound
<1>3. Made \cap (Temps \cup {"vectors", "postings", "log"}) = {}
  BY DEF Made, Dirs, Temps
<1>4. "texts" \in Made /\ "config" \in Made /\ "lock" \notin Temps /\ "config.bak" \notin Temps
  BY DEF Made, Temps
<1>5. /\ Sound(disk, "texts") <=> Sound(disk', "texts")
      /\ "texts" \in DOMAIN disk' <=> "texts" \in DOMAIN disk
      /\ "texts" \in DOMAIN disk' => disk'["texts"] = disk["texts"]
  BY <1>2, <1>3, <1>4
<1>6. RenamedInv'
  <2> SUFFICES ASSUME NEW f \in {"layout.meta", "vectors", "postings"}, f \in DOMAIN disk'
               PROVE  Sound(disk', f)
    BY DEF RenamedInv
  <2> QED BY DEF DirectoryInv, RenamedInv, Sound
<1>7. CreateInv'
  <2>1. "layout.meta" \in DOMAIN disk => "layout.meta" \in DOMAIN disk'
    BY <1>3 DEF Made
  <2>2. proc'.open => proc.open
    BY DEF Closed
  <2> QED BY <2>1, <2>2 DEF DirectoryInv, CreateInv, Creating
<1>8. MadeInv'
  BY <1>3 DEF DirectoryInv, MadeInv
<1>9. ConfigInv'
  BY <1>2, <1>3, <1>4 DEF DirectoryInv, ConfigInv
<1>10. TextsInv'
  <2>1. proc'.open => proc.open
    BY DEF Closed
  <2>2. proc'.open /\ "texts" \in DOMAIN disk' => Sound(disk', "texts")
    BY <1>5, <2>1 DEF DirectoryInv, TextsInv
  <2>3. \A t \in Range(todo') : t.to # "texts"
    BY NoSteps
  <2> QED BY <1>5, <2>2, <2>3 DEF DirectoryInv, TextsInv, Sound
<1>11. LockInv'
  BY <1>4, <1>5 DEF DirectoryInv, LockInv
<1> QED BY <1>1, <1>6, <1>7, <1>8, <1>9, <1>10, <1>11 DEF DirectoryInv

LEMMA FileFailsKeeps ==
  ASSUME DirectoryInv, FileFails
  PROVE  DirectoryInv'
<1>0. PICK h : h = Head(todo)
  OBVIOUS
<1>1. /\ todo # <<>> /\ disk' = CleanedUp(h)
      /\ unlocked' = (unlocked \/ LockFails(h))
      /\ UNCHANGED <<proc, created, stored, diverted, recreated, updated>>
  BY <1>0 DEF FileFails, Busy
<1>2. Typed(disk) /\ AreSteps(todo, op) /\ Runnable(disk, todo)
  BY DEF DirectoryInv, WorkInv
<1>3. IsStep(h, op) /\ AreSteps(Tail(todo), op) /\ Range(todo) = {h} \cup Range(Tail(todo))
  BY <1>0, <1>1, <1>2, NextStep
<1>4. unlocked => unlocked'
  BY <1>1
<1>5. CASE GoesOn(h)
  <2>1. op' = op /\ held' = held /\ todo' = Tail(todo)
    BY <1>0, <1>5 DEF FileFails
  <2>2. op \in Replays \cup {"recover"}
    BY <1>5 DEF GoesOn, LockFails, Replays
  <2>3. disk' = disk
    BY <1>1, <1>3, <1>5, <2>2, CleanedUpFacts DEF Replays
  <2>4. Runnable(disk', todo')
    <3> SUFFICES ASSUME NEW i \in 1..Len(todo') PROVE ~Reads(todo'[i])
      BY WritesRun
    <3>1. todo'[i] \in Range(todo')
      <4>1. PICK r : r = todo'
        OBVIOUS
      <4>2. r \in Seq(Range(r)) /\ i \in 1..Len(r)
        BY <1>3, <2>1, <4>1 DEF AreSteps
      <4>3. r[i] \in Range(r)
        BY <4>2, ElementOfSeq
      <4> QED BY <4>1, <4>3
    <3>2. IsStep(todo'[i], op)
      BY <1>3, <2>1, <3>1 DEF AreSteps
    <3> QED BY <2>2, <3>2 DEF IsStep, Renamed, SavesLayout, Replays, Reads
  <2>5. WorkInv'
    BY <1>1, <1>3, <2>1, <2>3, <2>4 DEF DirectoryInv, WorkInv
  <2>6. RenamedInv' /\ CreateInv' /\ MadeInv' /\ ConfigInv'
    <3>1. op \notin Creating
      BY <2>2 DEF Replays, Creating
    <3> QED BY <1>1, <2>1, <2>3, <3>1 DEF DirectoryInv, RenamedInv, CreateInv, MadeInv, ConfigInv, Creating
  <2>7. TextsInv'
    BY <1>1, <1>3, <2>1, <2>2, <2>3 DEF DirectoryInv, TextsInv, Replays
  <2>8. LockInv'
    <3>1. op = "recover" => unlocked'
      BY <1>1, <1>5 DEF GoesOn
    <3>2. op # "recovery"
      BY <2>2 DEF Replays
    <3> QED BY <1>1, <1>4, <2>1, <2>3, <3>1, <3>2 DEF DirectoryInv, LockInv
  <2> QED BY <2>5, <2>6, <2>7, <2>8 DEF DirectoryInv
<1>6. CASE ~GoesOn(h) /\ op \in Creating
  <2>1. op' = "idle" /\ todo' = <<>>
    BY <1>0, <1>6 DEF FileFails, Return
  <2>2. ~created /\ stored = 0 /\ diverted = 0 /\ ~proc.open
    BY <1>6 DEF DirectoryInv, CreateInv, WorkInv
  <2>3. Typed(disk') /\ \A f \in DOMAIN disk' : f \in DOMAIN disk /\ disk'[f] = disk[f]
    <3>1. CASE op = "create"
      <4>1. disk' = [f \in {} |-> Torn]
        BY <1>1, <3>1 DEF CleanedUp
      <4> QED BY <4>1 DEF Typed
    <3>2. CASE op # "create"
      BY <1>1, <1>2, <1>3, <3>2, CleanedUpFacts DEF Typed
    <3> QED BY <3>1, <3>2
  <2>4. AreSteps(todo', op') /\ Runnable(disk', todo') /\ \A t \in Range(todo') : t.to # "texts"
    BY <2>1, NoSteps
  <2>5. WorkInv'
    BY <1>1, <2>1, <2>3, <2>4 DEF DirectoryInv, WorkInv, Creating, Starting
  <2>6. RenamedInv'
    BY <2>3 DEF DirectoryInv, RenamedInv, Sound
  <2>7. CreateInv' /\ MadeInv' /\ ConfigInv' /\ LockInv'
    BY <1>1, <2>1, <2>2 DEF CreateInv, MadeInv, ConfigInv, LockInv, Creating
  <2>8. TextsInv'
    BY <1>1, <2>1, <2>2 DEF TextsInv
  <2> QED BY <2>5, <2>6, <2>7, <2>8 DEF DirectoryInv
<1>7. CASE ~GoesOn(h) /\ op \notin Creating
  <2>1. op' = "idle" /\ todo' = <<>>
    BY <1>0, <1>7 DEF FileFails, Return
  <2>2. /\ DOMAIN disk' \subseteq DOMAIN disk
        /\ \A f \in DOMAIN disk' : disk'[f] = disk[f]
        /\ \A f \in DOMAIN disk : f \notin Temps \cup {"vectors"} => f \in DOMAIN disk'
    BY <1>1, <1>3, <1>7, CleanedUpFacts DEF Creating
  <2>3. Typed(disk')
    BY <1>2, <2>2 DEF Typed
  <2> QED BY <1>1, <1>4, <1>7, <2>1, <2>2, <2>3, EndsKeeps
<1> QED BY <1>5, <1>6, <1>7

LEMMA KillKeeps ==
  ASSUME DirectoryInv, Kill
  PROVE  DirectoryInv'
<1>1. /\ op' = "idle" /\ todo' = <<>> /\ proc' = Closed
      /\ UNCHANGED <<created, stored, diverted, recreated, unlocked>>
  BY DEF Kill, Return, ghosts
<1>2. /\ Typed(disk') /\ DOMAIN disk' \subseteq DOMAIN disk \cup {"log"}
      /\ DOMAIN disk \subseteq DOMAIN disk'
      /\ \A f \in DOMAIN disk' : f # "log" => disk'[f] = disk[f]
  <2>1. CASE disk' = disk
    BY <2>1 DEF DirectoryInv, WorkInv
  <2>2. CASE disk' # disk
    <3>1. PICK c : c \in {"later bad", "first bad"} /\ disk' = With(disk, "log", c)
      BY <2>2 DEF Kill
    <3>2. /\ DOMAIN disk' = DOMAIN disk \cup {"log"} /\ disk'["log"] = c
          /\ \A f \in DOMAIN disk : f # "log" => disk'[f] = disk[f]
      BY <3>1 DEF With
    <3>3. c \in Holds("log")
      BY <3>1 DEF Holds, Marks
    <3>4. Typed(disk')
      BY <3>2, <3>3 DEF DirectoryInv, WorkInv, Typed
    <3> QED BY <3>2, <3>4
  <2> QED BY <2>1, <2>2
<1>3. CASE op \notin Creating
  BY <1>1, <1>2, <1>3, EndsKeeps
<1>4. CASE op \in Creating
  <2>1. ~created /\ stored = 0 /\ diverted = 0
    BY <1>4 DEF DirectoryInv, CreateInv
  <2>2. AreSteps(todo', op') /\ Runnable(disk', todo')
    BY <1>1, NoSteps
  <2>3. WorkInv'
    BY <1>1, <1>2, <2>2 DEF DirectoryInv, WorkInv, Creating, Starting, Closed
  <2>4. RenamedInv'
    BY <1>2 DEF DirectoryInv, RenamedInv, Sound
  <2>5. CreateInv' /\ MadeInv' /\ ConfigInv' /\ LockInv'
    BY <1>1, <2>1 DEF CreateInv, MadeInv, ConfigInv, LockInv, Creating, Closed
  <2>6. TextsInv'
    BY <1>1, <2>1 DEF TextsInv, Closed
  <2> QED BY <2>3, <2>4, <2>5, <2>6 DEF DirectoryInv
<1> QED BY <1>3, <1>4
-----------------------------------------------------------------------------
(***************************************************************************)
(* create keeps the invariant.                                             *)
(***************************************************************************)
\* When nothing is left to do, what was coming is there.
LEMMA NothingComes ==
  ASSUME NEW f, todo = <<>>, Coming(f)
  PROVE  Sound(disk, f)
BY NoSteps DEF Coming

LEMMA CreateKeeps ==
  ASSUME NEW c \in Config, DirectoryInv, Create(c)
  PROVE  DirectoryInv'
<1>1. /\ ~proc.open /\ DOMAIN disk \subseteq {"root"} /\ op = "idle" /\ held' = c
      /\ op' = "mkdirs" /\ todo' = Mkdirs
      /\ UNCHANGED <<disk, proc, created, stored, diverted, recreated, unlocked>>
  BY DEF Create, Begin, Idle, ghosts
<1>2. /\ AreSteps(todo', op') /\ Runnable(disk', todo')
      /\ \A f \in Dirs : \E t \in Range(todo') : t.to = f
  BY <1>1, MkdirsIsList
<1>3. "texts" \notin DOMAIN disk /\ ~created
  BY <1>1 DEF DirectoryInv, MadeInv, Made, Dirs
<1>4. WorkInv'
  BY <1>1, <1>2 DEF DirectoryInv, WorkInv, Creating
<1>5. RenamedInv'
  BY <1>1 DEF DirectoryInv, RenamedInv
<1>6. CreateInv'
  <2>1. DOMAIN disk \subseteq Dirs
    BY <1>1 DEF Dirs
  <2>2. \A f \in Dirs : Coming(f)'
    BY <1>2 DEF Coming
  <2> QED BY <1>1, <1>3, <2>1, <2>2 DEF DirectoryInv, CreateInv
<1>7. MadeInv' /\ ConfigInv' /\ TextsInv' /\ LockInv'
  BY <1>1, <1>3 DEF MadeInv, ConfigInv, TextsInv, LockInv
<1> QED BY <1>4, <1>5, <1>6, <1>7 DEF DirectoryInv

LEMMA CreateFilesKeeps ==
  ASSUME DirectoryInv, CreateFiles
  PROVE  DirectoryInv'
<1>1. /\ op = "mkdirs" /\ todo = <<>> /\ op' = "create" /\ todo' = CreateList(held)
      /\ UNCHANGED <<disk, held, proc, created, stored, diverted, recreated, unlocked>>
  BY DEF CreateFiles, CreateList, ghosts
<1>2. /\ held \in Config /\ DOMAIN disk \subseteq Dirs /\ ~created /\ ~proc.open
      /\ \A f \in Dirs : Sound(disk, f)
  BY <1>1, NothingComes DEF DirectoryInv, WorkInv, CreateInv, Creating
<1>3. "config" \notin DOMAIN disk /\ "texts" \notin DOMAIN disk
  BY <1>2 DEF Dirs
<1>4. /\ AreSteps(todo', op') /\ Runnable(disk', todo')
      /\ \A f \in Made \ Dirs : \E t \in Range(todo') : t.to = f
  BY <1>1, <1>2, <1>3, CreateIsList
<1>5. WorkInv'
  BY <1>1, <1>4 DEF DirectoryInv, WorkInv, Creating
<1>6. RenamedInv'
  BY <1>1 DEF DirectoryInv, RenamedInv
<1>7. CreateInv'
  <2>1. \A f \in Made : Coming(f)'
    BY <1>1, <1>2, <1>4 DEF Coming
  <2> QED BY <1>1, <1>2, <1>3, <2>1 DEF DirectoryInv, CreateInv, Creating
<1>8. MadeInv' /\ ConfigInv' /\ TextsInv' /\ LockInv'
  BY <1>1, <1>2 DEF MadeInv, ConfigInv, TextsInv, LockInv
<1> QED BY <1>5, <1>6, <1>7, <1>8 DEF DirectoryInv

LEMMA CreateSettlesKeeps ==
  ASSUME DirectoryInv, CreateSettles
  PROVE  DirectoryInv'
<1>1. /\ op = "create" /\ todo = <<>> /\ op' = "created" /\ todo' = Save(MarkInactive(disk["layout.meta"]))
      /\ UNCHANGED <<disk, held, proc, created, stored, diverted, recreated, unlocked>>
  BY DEF CreateSettles, ghosts
<1>2. /\ ~created /\ ~proc.open /\ \A f \in Made : Sound(disk, f)
  BY <1>1, NothingComes DEF DirectoryInv, WorkInv, CreateInv, Creating
<1>3. disk["layout.meta"] \in Metadata
  <2>1. "layout.meta" \in Made
    BY DEF Made
  <2> QED BY <1>2, <2>1 DEF DirectoryInv, WorkInv, Typed, Holds, Sound
<1>4. MarkInactive(disk["layout.meta"]) \in Metadata
  BY <1>3 DEF MarkInactive, Metadata
<1>5. AreSteps(todo', op') /\ Runnable(disk', todo')
  BY <1>1, <1>4, SaveIsList DEF SavesLayout
<1>6. WorkInv'
  BY <1>1, <1>5 DEF DirectoryInv, WorkInv, Creating
<1>7. RenamedInv'
  BY <1>1 DEF DirectoryInv, RenamedInv
<1>8. CreateInv'
  <2>1. \A f \in Made : Coming(f)'
    BY <1>1, <1>2 DEF Coming
  <2> QED BY <1>1, <1>2, <2>1 DEF DirectoryInv, CreateInv, Creating
<1>9. MadeInv' /\ ConfigInv' /\ TextsInv' /\ LockInv'
  BY <1>1, <1>2 DEF MadeInv, ConfigInv, TextsInv, LockInv
<1> QED BY <1>6, <1>7, <1>8, <1>9 DEF DirectoryInv

LEMMA CreateReturnsKeeps ==
  ASSUME DirectoryInv, CreateReturns
  PROVE  DirectoryInv'
<1>1. /\ op = "created" /\ todo = <<>> /\ op' = "idle" /\ todo' = <<>>
      /\ proc' = [open |-> TRUE, index |-> "real", config |-> held]
      /\ UNCHANGED <<disk, stored, diverted, recreated, unlocked>>
  BY DEF CreateReturns, Return
<1>2. /\ \A f \in Made : Sound(disk, f)
      /\ stored = 0 /\ diverted = 0
      /\ "texts" \in DOMAIN disk => disk["texts"] \in {0, Torn}
  BY <1>1, NothingComes DEF DirectoryInv, CreateInv, Creating
<1>3. Sound(disk, "texts") /\ disk["texts"] = 0 /\ Sound(disk, "config")
  BY <1>2 DEF Made, Sound
<1>4. AreSteps(todo', op') /\ Runnable(disk', todo') /\ \A t \in Range(todo') : t.to # "texts"
  BY <1>1, NoSteps
<1>5. WorkInv'
  BY <1>1, <1>4 DEF DirectoryInv, WorkInv, Creating, Starting
<1>6. RenamedInv'
  BY <1>1 DEF DirectoryInv, RenamedInv
<1>7. CreateInv'
  BY <1>1, <1>2 DEF CreateInv, Creating, Made, Sound
<1>8. MadeInv'
  BY <1>1, <1>2 DEF MadeInv, Sound
<1>9. ConfigInv' /\ LockInv'
  BY <1>1, <1>3 DEF ConfigInv, LockInv
<1>10. TextsInv'
  BY <1>1, <1>2, <1>3, <1>4 DEF TextsInv
<1> QED BY <1>5, <1>6, <1>7, <1>8, <1>9, <1>10 DEF DirectoryInv
-----------------------------------------------------------------------------
(***************************************************************************)
(* The other operations keep the invariant.                                *)
(***************************************************************************)
\* An operation that goes on to its next part, begins or ends.
Moves ==
  /\ UNCHANGED <<disk, created, stored, diverted, recreated, unlocked>>
  /\ op \notin Creating /\ op' \in InUse \cup (Starting \ {"recovery"}) \cup {"idle"}
  /\ DOMAIN proc' = {"open", "index", "config"} /\ proc'.open \in BOOLEAN
  /\ op' \in Starting => ~proc'.open
  /\ proc'.open \/ op' \in {"open", "replay"} => "layout.meta" \in DOMAIN disk
  /\ op' \in {"update", "restore"} => held' \in Mixed
  /\ op' \in {"open", "undo", "replay"} => held' \in Metadata
  /\ AreSteps(todo', op') /\ Runnable(disk, todo')
  /\ op' = "restore" => Sound(disk, "config.bak")
  /\ op' = "update" => Sound(disk, "config")
  /\ (proc'.open \/ op' \in {"replay", "recoverReplay", "recovered"}) /\ "texts" \in DOMAIN disk
       => Sound(disk, "texts")
  /\ op' = "recover" /\ "root" \in DOMAIN disk => \E t \in Range(todo') : t.to = "lock"

LEMMA MovesKeeps ==
  ASSUME DirectoryInv, Moves
  PROVE  DirectoryInv'
<1> USE DEF Moves
<1>1. WorkInv'
  BY DEF DirectoryInv, WorkInv, Creating, InUse, Starting
<1>2. op' \notin Creating /\ op' # "recovery"
  BY DEF Creating, InUse, Starting
<1>3. RenamedInv' /\ CreateInv' /\ MadeInv'
  BY <1>2 DEF DirectoryInv, RenamedInv, CreateInv, MadeInv, Creating
<1>4. ConfigInv'
  BY DEF DirectoryInv, ConfigInv
<1>5. \A t \in Range(todo') : t.to # "texts"
  BY <1>2 DEF AreSteps, IsStep, Written, Renamed, Dirs, MakesIndex, Creating
<1>6. TextsInv'
  BY <1>2, <1>5 DEF DirectoryInv, TextsInv
<1>7. LockInv'
  <2>1. created => "root" \in DOMAIN disk
    BY DEF DirectoryInv, MadeInv, Made, Dirs
  <2> QED BY <1>2, <2>1 DEF DirectoryInv, LockInv
<1> QED BY <1>1, <1>3, <1>4, <1>6, <1>7 DEF DirectoryInv

LEMMA OpenKeeps ==
  ASSUME DirectoryInv, Open
  PROVE  DirectoryInv'
<1>1. /\ ~proc.open /\ Sound(disk, "layout.meta") /\ op = "idle" /\ op' = "open"
      /\ held' = MarkActive(disk["layout.meta"]) /\ todo' = Save(held')
      /\ UNCHANGED <<disk, proc, created, stored, diverted, recreated, unlocked>>
  BY DEF Open, Readable, Begin, Idle, ghosts
<1>2. disk["layout.meta"] \in Metadata
  BY <1>1 DEF DirectoryInv, WorkInv, Typed, Holds, Sound
<1>3. held' \in Metadata
  BY <1>1, <1>2 DEF MarkActive, Metadata
<1>4. AreSteps(todo', op') /\ Runnable(disk, todo')
  BY <1>1, <1>3, SaveIsList DEF SavesLayout
<1>5. DOMAIN proc = {"open", "index", "config"} /\ proc.open \in BOOLEAN
  BY DEF DirectoryInv, WorkInv
<1>6. Moves
  BY <1>1, <1>3, <1>4, <1>5 DEF Moves, Creating, Starting, Sound
<1> QED BY <1>6, MovesKeeps

\* What is left of open when its first part is done.
LEMMA OpenPartsKeep ==
  ASSUME DirectoryInv, OpenSync \/ ReplayFails \/ TempIndexFails
  PROVE  DirectoryInv'
<1>1. /\ op \in {"open", "replay"} /\ todo = <<>>
      /\ UNCHANGED <<disk, held, proc, created, stored, diverted, recreated, unlocked>>
  BY DEF OpenSync, ReplayFails, TempIndexFails, ghosts
<1>2. /\ held \in Metadata /\ ~proc.open /\ proc.open \in BOOLEAN
      /\ DOMAIN proc = {"open", "index", "config"}
      /\ "layout.meta" \in DOMAIN disk
  BY <1>1 DEF DirectoryInv, WorkInv, CreateInv, Starting
<1>3. MarkInactive(held) \in Metadata /\ MarkNeeds(held) \in Metadata
  BY <1>2 DEF MarkInactive, MarkNeeds, Metadata
<1>4. CASE OpenSync /\ IndexOpens(disk)
  <2>1. op' = "replay" /\ todo' \in Replay(disk, Listed(disk))
    BY <1>4 DEF OpenSync
  <2>2. AreSteps(todo', op') /\ Runnable(disk, todo')
    BY <2>1, ReplayIsList DEF Replays
  <2>3. "texts" \in DOMAIN disk => Sound(disk, "texts")
    BY <1>4 DEF IndexOpens
  <2>4. Moves
    BY <1>1, <1>2, <2>1, <2>2, <2>3 DEF Moves, Creating, Starting
  <2> QED BY <2>4, MovesKeeps
<1>5. CASE ~(OpenSync /\ IndexOpens(disk))
  <2>1. PICK m \in Metadata : op' = "undo" /\ todo' = Save(m)
    BY <1>3, <1>5 DEF OpenSync, ReplayFails, TempIndexFails
  <2>2. AreSteps(todo', op') /\ Runnable(disk, todo')
    BY <2>1, SaveIsList DEF SavesLayout
  <2>3. Moves
    BY <1>1, <1>2, <2>1, <2>2 DEF Moves, Creating, Starting
  <2> QED BY <2>3, MovesKeeps
<1> QED BY <1>4, <1>5

\* Nothing is left to do when nothing runs.
LEMMA IdleIsDone ==
  ASSUME DirectoryInv, op = "idle"
  PROVE  todo = <<>>
<1>1. AreSteps(todo, "idle")
  BY DEF DirectoryInv, WorkInv
<1>2. ASSUME todo # <<>> PROVE FALSE
  <2>1. IsStep(Head(todo), "idle")
    BY <1>1, <1>2, NextStep
  <2> QED BY <2>1 DEF IsStep, Written, Renamed, SavesLayout, MakesIndex, MakesDirs, Replays
<1> QED BY <1>2

\* An operation of the open engine, or one without it, that ends.
LEMMA ReturnsKeep ==
  ASSUME DirectoryInv,
         \/ OpenReturns \/ OpenFails \/ Shutdown \/ UpdateReturns \/ RestoreReturns
         \/ AttemptReturns \/ RecoverFails \/ RecoverReturns
  PROVE  DirectoryInv'
<1>1. /\ todo = <<>> /\ todo' = <<>> /\ op' = "idle"
      /\ UNCHANGED <<disk, created, stored, diverted, recreated, unlocked>>
      /\ op \in {"replay", "undo", "idle", "update", "restore", "attempt", "recoverReplay", "recovered"}
  <2>1. op = "idle" => todo = <<>>
    BY IdleIsDone
  <2> QED BY <2>1 DEF OpenReturns, OpenFails, Shutdown, UpdateReturns, RestoreReturns, AttemptReturns, RecoverFails,
             RecoverReturns, Return, InEngine, Idle, ghosts
<1>2. /\ DOMAIN proc' = {"open", "index", "config"} /\ proc'.open \in BOOLEAN
      /\ proc'.open => proc.open \/ op = "replay"
  <2>1. DOMAIN proc = {"open", "index", "config"} /\ proc.open \in BOOLEAN
    BY DEF DirectoryInv, WorkInv
  <2>2. CASE OpenReturns
    <3>1. op = "replay" /\ proc' = [open |-> TRUE, index |-> "real", config |-> Settings(disk)]
      BY <2>2 DEF OpenReturns
    <3> QED BY <3>1
  <2>3. CASE Shutdown
    BY <2>3 DEF Shutdown, Closed
  <2>4. CASE OpenFails \/ RecoverFails \/ RecoverReturns
    BY <2>1, <2>4 DEF OpenFails, RecoverFails, RecoverReturns
  <2>5. CASE UpdateReturns \/ RestoreReturns
    BY <2>1, <2>5 DEF UpdateReturns, RestoreReturns
  <2>6. CASE AttemptReturns
    <3>1. proc' = proc \/ proc' = [proc EXCEPT !.index = held]
      BY <2>6 DEF AttemptReturns
    <3> QED BY <2>1, <3>1
  <2> QED BY <2>2, <2>3, <2>4, <2>5, <2>6
<1>3. AreSteps(todo', op') /\ Runnable(disk, todo')
  BY <1>1, NoSteps
<1>4. proc'.open => "layout.meta" \in DOMAIN disk /\ ("texts" \in DOMAIN disk => Sound(disk, "texts"))
  BY <1>2 DEF DirectoryInv, TextsInv, CreateInv
<1>5. Moves
  BY <1>1, <1>2, <1>3, <1>4 DEF Moves, Creating, Starting, InUse
<1> QED BY <1>5, MovesKeeps

\* An operation of the open engine that begins.
LEMMA BeginsKeep ==
  ASSUME DirectoryInv, AddShard \/ (\E c \in Config : UpdateConfig(c)) \/ RestoreConfig \/ AttemptRecovery
  PROVE  DirectoryInv'
<1>1. /\ op = "idle" /\ proc.open /\ proc'.open = proc.open /\ DOMAIN proc' = DOMAIN proc
      /\ UNCHANGED <<disk, created, stored, diverted, recreated, unlocked>>
      /\ op' \in InUse
  BY DEF AddShard, UpdateConfig, RestoreConfig, AttemptRecovery, Begin, Idle, InEngine, InUse, ghosts, DirectoryInv,
         WorkInv
<1>2. /\ AreSteps(todo', op') /\ Runnable(disk, todo')
      /\ op' \in {"update", "restore"} => held' \in Mixed
      /\ op' = "restore" => Sound(disk, "config.bak")
      /\ op' = "update" => Sound(disk, "config")
  <2>1. CASE AddShard
    BY <2>1, CreateShardIsList DEF AddShard, Begin
  <2>2. ASSUME NEW c \in Config, UpdateConfig(c)
        PROVE  /\ AreSteps(todo', op') /\ Runnable(disk, todo') /\ op' = "update"
               /\ held' \in Mixed /\ Sound(disk, "config")
    <3>1. Sound(disk, "config") /\ disk["config"] \in Mixed /\ c \in Mixed
      BY <2>2 DEF UpdateConfig, Loadable, DirectoryInv, WorkInv, Typed, Holds, Sound
    <3>2. Merged(disk["config"], c) \in Mixed
      BY <3>1 DEF Merged, Mixed
    <3>3. PICK m \in Mixed : op' = "update" /\ todo' = SaveConfig(m)
      BY <2>2, <3>1, <3>2 DEF UpdateConfig, Begin, Sound
    <3> QED BY <2>2, <3>1, <3>3, UpdateIsList DEF UpdateConfig
  <2>3. CASE RestoreConfig
    <3>1. Sound(disk, "config.bak") /\ disk["config.bak"] \in Mixed
      BY <2>3 DEF RestoreConfig, DirectoryInv, WorkInv, Typed, Holds, Sound
    <3> QED BY <2>3, <3>1, RestoreIsList DEF RestoreConfig, Begin
  <2>4. CASE AttemptRecovery
    <3>1. op' = "attempt" /\ todo' \in Replay(disk, proc.index = "temp" \/ Listed(disk))
      BY <2>4 DEF AttemptRecovery, Begin
    <3> QED BY <3>1, ReplayIsList DEF Replays
  <2> QED BY <2>1, <2>2, <2>3, <2>4
<1>3. "layout.meta" \in DOMAIN disk /\ ("texts" \in DOMAIN disk => Sound(disk, "texts"))
  BY <1>1 DEF DirectoryInv, TextsInv, CreateInv
<1>4. DOMAIN proc' = {"open", "index", "config"} /\ proc'.open \in BOOLEAN
  BY <1>1 DEF DirectoryInv, WorkInv
<1>5. Moves
  BY <1>1, <1>2, <1>3, <1>4 DEF Moves, Creating, Starting, InUse
<1> QED BY <1>5, MovesKeeps

\* recover and its parts but the index.
LEMMA RecoverPartsKeep ==
  ASSUME DirectoryInv, Recover \/ RecoverReplay \/ RecoverUnlock
  PROVE  DirectoryInv'
<1>1. /\ op \in {"idle", "recovery", "recoverReplay"} /\ ~proc.open
      /\ UNCHANGED <<disk, proc, created, stored, diverted, recreated, unlocked>>
      /\ op # "idle" => todo = <<>>
  BY DEF Recover, RecoverReplay, RecoverUnlock, Begin, Idle, ghosts, DirectoryInv, WorkInv, Starting
<1>2. /\ op' \in {"recover", "recoverReplay", "recovered"}
      /\ AreSteps(todo', op') /\ Runnable(disk, todo')
      /\ op' = "recover" /\ "root" \in DOMAIN disk => \E t \in Range(todo') : t.to = "lock"
  <2>1. CASE Recover
    BY <2>1, RecoverIsList DEF Recover, Begin
  <2>2. CASE RecoverReplay
    BY <2>2, ReplayIsList DEF RecoverReplay, Replays
  <2>3. CASE RecoverUnlock
    BY <2>3, UnlockIsList DEF RecoverUnlock
  <2> QED BY <2>1, <2>2, <2>3
<1>3. op' # "recover" /\ "texts" \in DOMAIN disk => Sound(disk, "texts")
  <2>1. CASE RecoverReplay
    BY <2>1, NothingComes DEF RecoverReplay, DirectoryInv, TextsInv
  <2>2. CASE RecoverUnlock
    BY <2>2 DEF RecoverUnlock, DirectoryInv, TextsInv
  <2> QED BY <2>1, <2>2 DEF Recover, Begin
<1>4. DOMAIN proc' = {"open", "index", "config"} /\ proc'.open \in BOOLEAN
  BY <1>1 DEF DirectoryInv, WorkInv
<1>5. Moves
  BY <1>1, <1>2, <1>3, <1>4 DEF Moves, Creating, Starting, InUse
<1> QED BY <1>5, MovesKeeps

\* The index is created anew only if it cannot be opened: the text files can
\* be, so shardex.meta is torn.
LEMMA RecoverIndexKeeps ==
  ASSUME DirectoryInv, RecoverIndex
  PROVE  DirectoryInv'
<1>1. /\ op = "recover" /\ todo = <<>> /\ op' = "recovery" /\ ~proc.open
      /\ UNCHANGED <<disk, proc, created, stored, diverted, unlocked>>
  BY DEF RecoverIndex, DirectoryInv, WorkInv, Starting
<1>2. /\ AreSteps(todo', op') /\ Runnable(disk', todo')
      /\ "texts" \in DOMAIN disk => Coming("texts")'
  <2>1. CASE IndexOpens(disk)
    <3>1. todo' = <<>> /\ ("texts" \in DOMAIN disk => Sound(disk, "texts"))
      BY <2>1 DEF RecoverIndex, IndexOpens
    <3> QED BY <1>1, <3>1, NoSteps DEF Coming
  <2>2. CASE ~IndexOpens(disk)
    <3>1. todo' = CreateIndex
      BY <2>2 DEF RecoverIndex
    <3> QED BY <1>1, <3>1, CreateIndexIsList DEF Coming
  <2> QED BY <2>1, <2>2
<1>3. created /\ ~recreated' => ~recreated /\ todo' = <<>>
  <2> SUFFICES ASSUME created, ~recreated' PROVE ~recreated /\ todo' = <<>>
    OBVIOUS
  <2>1. ~recreated
    BY DEF RecoverIndex
  <2>2. Sound(disk, "texts")
    BY <2>1 DEF DirectoryInv, TextsInv
  <2>3. Listed(disk) => Sound(disk, "vectors") /\ Sound(disk, "postings")
    BY DEF Listed, Has, DirectoryInv, RenamedInv
  <2>4. CASE ~IndexOpens(disk)
    <3>1. Sound(disk, "shardex.meta")
      BY <2>4 DEF RecoverIndex
    <3> QED BY <2>2, <2>3, <2>4, <3>1 DEF IndexOpens
  <2> QED BY <2>1, <2>4 DEF RecoverIndex
<1>4. WorkInv'
  BY <1>1, <1>2 DEF DirectoryInv, WorkInv, Starting
<1>5. RenamedInv' /\ CreateInv' /\ MadeInv' /\ ConfigInv'
  BY <1>1 DEF DirectoryInv, RenamedInv, CreateInv, MadeInv, ConfigInv, Creating
<1>6. TextsInv'
  <2>1. created /\ ~recreated' => \A t \in Range(todo') : t.to # "texts"
    BY <1>3, NoSteps
  <2> QED BY <1>1, <1>2, <1>3, <2>1 DEF DirectoryInv, TextsInv
<1>7. LockInv'
  BY <1>1, NoSteps DEF DirectoryInv, LockInv
<1> QED BY <1>4, <1>5, <1>6, <1>7 DEF DirectoryInv

LEMMA StoreTextKeeps ==
  ASSUME DirectoryInv, StoreText
  PROVE  DirectoryInv'
<1>1. /\ proc.open /\ op = "idle" /\ stored' = stored + 1
      /\ proc.index = "real" => "texts" \in DOMAIN disk
      /\ UNCHANGED <<todo, op, held, proc, created, recreated, unlocked>>
  BY DEF StoreText, InEngine, Idle
<1>2. "texts" \in DOMAIN disk => Sound(disk, "texts") /\ disk["texts"] \in Nat
  BY <1>1 DEF DirectoryInv, TextsInv, WorkInv, Typed, Holds, Sound
<1>3. /\ DOMAIN disk' = DOMAIN disk /\ diverted' \in Nat
      /\ \A f \in DOMAIN disk : f # "texts" => disk'[f] = disk[f]
      /\ "texts" \in DOMAIN disk => disk'["texts"] \in Nat
      /\ disk["texts"] = stored - diverted => disk'["texts"] = stored' - diverted'
  <2>1. stored \in Nat /\ diverted \in Nat
    BY DEF DirectoryInv, WorkInv
  <2>2. CASE proc.index = "real"
    BY <1>1, <1>2, <2>1, <2>2 DEF StoreText
  <2>3. CASE proc.index # "real"
    BY <1>1, <1>2, <2>1, <2>3 DEF StoreText
  <2> QED BY <2>2, <2>3
<1>4. \A f : Sound(disk, f) <=> Sound(disk', f)
  BY <1>2, <1>3 DEF Sound
<1>5. WorkInv'
  <2>1. Typed(disk')
    BY <1>3 DEF DirectoryInv, WorkInv, Typed, Holds
  <2>2. stored' \in Nat
    BY <1>1 DEF DirectoryInv, WorkInv
  <2>3. todo' = <<>>
    BY <1>1, IdleIsDone
  <2>4. AreSteps(todo', op') /\ Runnable(disk', todo')
    BY <2>3, NoSteps
  <2> QED BY <1>1, <1>3, <2>1, <2>2, <2>4 DEF DirectoryInv, WorkInv
<1>6. RenamedInv' /\ MadeInv' /\ ConfigInv'
  BY <1>1, <1>3, <1>4 DEF DirectoryInv, RenamedInv, MadeInv, ConfigInv
<1>7. CreateInv'
  BY <1>1, <1>3 DEF DirectoryInv, CreateInv, Creating
<1>8. TextsInv'
  BY <1>1, <1>3, <1>4 DEF DirectoryInv, TextsInv
<1>9. LockInv'
  BY <1>1, <1>3, <1>4 DEF DirectoryInv, LockInv
<1> QED BY <1>5, <1>6, <1>7, <1>8, <1>9 DEF DirectoryInv

\* A step on files that are no part of what must stay, while nothing runs.
LEMMA AsideKeeps ==
  ASSUME DirectoryInv, AddPostings \/ Cleanup
  PROVE  DirectoryInv'
<1>1. /\ op = "idle"
      /\ UNCHANGED <<todo, op, held, proc, created, stored, diverted, recreated, unlocked>>
  BY DEF AddPostings, Cleanup, InEngine, Idle, ghosts
<1>2. todo = <<>>
  BY <1>1, IdleIsDone
<1>3. /\ Typed(disk') /\ DOMAIN disk' \subseteq DOMAIN disk \cup {"log"}
      /\ \A f \in DOMAIN disk : f \notin Temps \cup {"vectors", "postings", "log"} => f \in DOMAIN disk'
      /\ \A f \in DOMAIN disk' : f # "log" => disk'[f] = disk[f]
  <2>1. CASE AddPostings
    <3>1. disk' = With(disk, "log", "good")
      BY <2>1 DEF AddPostings
    <3>2. /\ DOMAIN disk' = DOMAIN disk \cup {"log"} /\ disk'["log"] = "good"
          /\ \A f \in DOMAIN disk : f # "log" => disk'[f] = disk[f]
      BY <3>1 DEF With
    <3>3. Typed(disk')
      BY <3>2 DEF DirectoryInv, WorkInv, Typed, Holds, Marks
    <3> QED BY <3>2, <3>3
  <2>2. CASE Cleanup
    <3>1. PICK x : x = Orphans(disk)
      OBVIOUS
    <3>2. disk' = Without(disk, x)
      BY <2>2, <3>1 DEF Cleanup
    <3>3. x \subseteq Temps
      BY <3>1 DEF Orphans, Discovered, UnderDirectories, Temps
    <3>4. DOMAIN disk' = DOMAIN disk \ x /\ \A f \in DOMAIN disk' : disk'[f] = disk[f]
      BY <3>2 DEF Without
    <3>5. Typed(disk')
      BY <3>4 DEF DirectoryInv, WorkInv, Typed
    <3> QED BY <3>3, <3>4, <3>5
  <2> QED BY <2>1, <2>2
<1> QED BY <1>1, <1>2, <1>3, EndsKeeps DEF Creating
-----------------------------------------------------------------------------
(***************************************************************************)
(* The invariant holds, and with it the properties.                        *)
(***************************************************************************)
LEMMA InitKeeps ==
  ASSUME Init
  PROVE  DirectoryInv
<1>1. AreSteps(todo, op) /\ Runnable(disk, todo)
  BY NoSteps DEF Init
<1>2. DOMAIN disk = {}
  BY DEF Init
<1>3. WorkInv
  BY <1>1, <1>2 DEF Init, WorkInv, Typed, Closed, Creating, Starting
<1> QED BY <1>2, <1>3 DEF Init, DirectoryInv, RenamedInv, CreateInv, MadeInv, ConfigInv, TextsInv, LockInv,
           Creating, Closed

\* Whatever is killed or fails, and whenever: the running operation has the
\* files it reads, what create made stays, the settings needed are whole or
\* have a backup that no step touches, and torn text files lie under a lock.
THEOREM DirectoryInvariant == Spec => []DirectoryInv
<1>1. Init => DirectoryInv
  BY InitKeeps
<1>2. DirectoryInv /\ [Next]_vars => DirectoryInv'
  <2> SUFFICES ASSUME DirectoryInv, [Next]_vars PROVE DirectoryInv'
    OBVIOUS
  <2>1. CASE UNCHANGED vars
    BY <2>1 DEF vars, DirectoryInv, WorkInv, RenamedInv, CreateInv, MadeInv, ConfigInv, TextsInv, LockInv, Coming
  <2>2. CASE FileStep \/ FileEmptied \/ FileFails \/ Kill
    BY <2>2, FileStepKeeps, FileEmptiedKeeps, FileFailsKeeps, KillKeeps
  <2>3. CASE (\E c \in Config : Create(c)) \/ CreateFiles \/ CreateSettles \/ CreateReturns
    BY <2>3, CreateKeeps, CreateFilesKeeps, CreateSettlesKeeps, CreateReturnsKeeps
  <2>4. CASE Open \/ OpenSync \/ ReplayFails \/ TempIndexFails
    BY <2>4, OpenKeeps, OpenPartsKeep
  <2>5. CASE AddShard \/ (\E c \in Config : UpdateConfig(c)) \/ RestoreConfig \/ AttemptRecovery
    BY <2>5, BeginsKeep
  <2>6. CASE \/ OpenReturns \/ OpenFails \/ Shutdown \/ UpdateReturns \/ RestoreReturns
             \/ AttemptReturns \/ RecoverFails \/ RecoverReturns
    BY <2>6, ReturnsKeep
  <2>7. CASE Recover \/ RecoverReplay \/ RecoverUnlock \/ RecoverIndex
    BY <2>7, RecoverPartsKeep, RecoverIndexKeeps
  <2>8. CASE StoreText \/ AddPostings \/ Cleanup
    BY <2>8, StoreTextKeeps, AsideKeeps
  <2> QED BY <2>1, <2>2, <2>3, <2>4, <2>5, <2>6, <2>7, <2>8 DEF Next
<1> QED BY <1>1, <1>2, PTL DEF Spec

\* Once create has answered, the settings can be loaded from shardex.config or
\* from its backup, whatever is killed or fails in any reconfiguration.
THEOREM SettingsRecoverable == Spec => []ConfigRecoverable
<1>1. DirectoryInv => ConfigRecoverable
  BY DEF DirectoryInv, ConfigInv, ConfigRecoverable
<1> QED BY <1>1, DirectoryInvariant, PTL

\* What open refuses of a created index, crash detection reports.
THEOREM RefusalsAreDetected == Spec => []RefusedIsDetected
<1>1. ASSUME DirectoryInv PROVE RefusedIsDetected
  <2> SUFFICES ASSUME created, ~Detects(disk), Sound(disk, "config"), ~unlocked
               PROVE  Readable(disk) /\ IndexOpens(disk) /\ LogReadable(disk)
    BY DEF RefusedIsDetected
  <2>1. Made \ {"config"} \subseteq DOMAIN disk
    BY <1>1 DEF DirectoryInv, MadeInv
  <2>2. LogReadable(disk) /\ Sound(disk, "shardex.meta") /\ "lock" \notin DOMAIN disk
    BY <2>1 DEF Detects, Sound, Made
  <2>3. Sound(disk, "texts")
    BY <1>1, <2>2 DEF DirectoryInv, LockInv
  <2>4. Listed(disk) => Sound(disk, "vectors") /\ Sound(disk, "postings")
    BY <1>1 DEF Listed, Has, DirectoryInv, RenamedInv
  <2>5. Sound(disk, "layout.meta")
    BY <1>1, <2>1 DEF DirectoryInv, RenamedInv, Made
  <2>6. LayoutExists(disk)
    BY <2>1 DEF LayoutExists, Has, Made, Dirs
  <2> QED BY <2>2, <2>3, <2>4, <2>5, <2>6 DEF Readable, IndexOpens
<1> QED BY <1>1, DirectoryInvariant, PTL

\* Every text stored in a created index is in its text files, unless a recovery
\* found shardex.meta torn and created the index anew.
THEOREM TextsAreKept == Spec => []TextsSurvive
<1>1. DirectoryInv => TextsSurvive
  BY DEF DirectoryInv, TextsInv, TextsSurvive
<1> QED BY <1>1, DirectoryInvariant, PTL
=============================================================================
