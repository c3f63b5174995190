-------------------------- MODULE TextServiceProofs --------------------------
(***************************************************************************)
(* What the layers over the text storage promise, for all sets of calls,   *)
(* documents and readers, all sizes and all numbers of permits: every      *)
(* queued store is in one place, is stored once and answered once, and the *)
(* text that remains of a document respects the order of the calls.        *)
(***************************************************************************)
EXTENDS TextService, SequenceTheorems, FiniteSetTheorems, WellFoundedInduction, TLAPS
-----------------------------------------------------------------------------
(***************************************************************************)
(* Sequences and numbers.                                                  *)
(***************************************************************************)
\* What the operations on sequences do to the set of their elements.
LEMMA RangeEmpty == Range(<<>>) = {}
BY DEF Range

LEMMA RangeAppend ==
  ASSUME NEW S, NEW s \in Seq(S), NEW e \in S
  PROVE  Range(Append(s, e)) = Range(s) \cup {e}
<1>1. PICK u : u = <<e>>
  OBVIOUS
<1>2. u \in Seq(S) /\ Append(s, e) = s \o u /\ Range(u) = {e}
  BY <1>1 DEF Range
<1> QED BY <1>2, RangeConcatenation

\* They are the head and those of the tail.
LEMMA RangeHeadTail ==
  ASSUME NEW S, NEW s \in Seq(S), s # <<>>
  PROVE  /\ Head(s) \in S /\ Tail(s) \in Seq(S)
         /\ Range(s) = {Head(s)} \cup Range(Tail(s))
<1>1. PICK u, t : u = <<Head(s)>> /\ t = Tail(s)
  OBVIOUS
<1>2. u \in Seq(S) /\ t \in Seq(S) /\ s = u \o t /\ Head(s) \in S
  BY <1>1
<1>3. Range(u) = {Head(s)}
  BY <1>1 DEF Range
<1>4. Range(u \o t) = Range(u) \cup Range(t)
  BY <1>2, RangeConcatenation
<1> QED BY <1>1, <1>2, <1>3, <1>4

\* A sequence that holds nothing twice, and something it does not hold yet.
LEMMA InjectiveAppend ==
  ASSUME NEW S, NEW s \in Seq(S), NEW e \in S, IsInjective(s), e \notin Range(s)
  PROVE  IsInjective(Append(s, e))
<1> DEFINE t == Append(s, e)
<1>1. /\ DOMAIN t = 1..Len(s) + 1 /\ DOMAIN s = 1..Len(s) /\ Len(s) \in Nat
      /\ t[Len(s) + 1] = e /\ \A i \in 1..Len(s) : t[i] = s[i]
  OBVIOUS
<1>2. \A i \in 1..Len(s) : s[i] # e
  BY <1>1 DEF Range
<1> HIDE DEF t
<1>3. ASSUME NEW i \in 1..Len(s) + 1, NEW j \in 1..Len(s) + 1, t[i] = t[j] PROVE i = j
  <2>1. CASE i \in 1..Len(s) /\ j \in 1..Len(s)
    BY <1>1, <1>3, <2>1 DEF IsInjective
  <2>2. CASE i = Len(s) + 1 \/ j = Len(s) + 1
    BY <1>1, <1>2, <1>3, <2>2
  <2> QED BY <1>1, <2>1, <2>2
<1>4. IsInjective(t)
  BY <1>1, <1>3 DEF IsInjective
<1> QED BY <1>4 DEF t

\* One that holds nothing twice has its head no more in its tail.
LEMMA InjectiveTail ==
  ASSUME NEW S, NEW s \in Seq(S), s # <<>>, IsInjective(s)
  PROVE  IsInjective(Tail(s)) /\ Head(s) \notin Range(Tail(s))
<1>1. /\ DOMAIN s = 1..Len(s) /\ Len(s) \in Nat \ {0}
      /\ DOMAIN Tail(s) = 1..Len(s) - 1
      /\ \A i \in 1..Len(s) - 1 : Tail(s)[i] = s[i + 1] /\ i + 1 \in 1..Len(s)
      /\ Head(s) = s[1] /\ 1 \in 1..Len(s)
  OBVIOUS
<1>2. IsInjective(Tail(s))
  <2> SUFFICES ASSUME NEW i \in 1..Len(s) - 1, NEW j \in 1..Len(s) - 1, Tail(s)[i] = Tail(s)[j]
               PROVE  i = j
    BY <1>1 DEF IsInjective
  <2>1. s[i + 1] = s[j + 1] /\ i + 1 \in DOMAIN s /\ j + 1 \in DOMAIN s
    BY <1>1
  <2>2. i + 1 = j + 1
    BY <2>1 DEF IsInjective
  <2> QED BY <2>2
<1>3. ASSUME Head(s) \in Range(Tail(s)) PROVE FALSE
  <2>1. PICK i \in 1..Len(s) - 1 : Head(s) = Tail(s)[i]
    BY <1>1, <1>3 DEF Range
  <2>2. s[1] = s[i + 1] /\ i + 1 \in DOMAIN s /\ 1 \in DOMAIN s
    BY <1>1, <2>1
  <2>3. 1 = i + 1
    BY <2>2 DEF IsInjective
  <2> QED BY <2>3
<1> QED BY <1>2, <1>3

\* The first n elements and the others.
IsCut(s, n, a, b) == a = SubSeq(s, 1, n) /\ b = SubSeq(s, n + 1, Len(s))

LEMMA SplitSeq ==
  ASSUME NEW S, NEW s \in Seq(S), NEW n \in 0..Len(s), NEW a, NEW b, IsCut(s, n, a, b)
  PROVE  /\ a \in Seq(S) /\ Len(a) = n /\ b \in Seq(S) /\ Len(b) = Len(s) - n
         /\ \A i \in 1..n : a[i] = s[i]
         /\ \A i \in 1..Len(s) - n : b[i] = s[n + i]
         /\ Range(s) = Range(a) \cup Range(b)
         /\ IsInjective(s) => IsInjective(a) /\ IsInjective(b) /\ Range(a) \cap Range(b) = {}
<1>1. DOMAIN s = 1..Len(s) /\ Len(s) \in Nat
  OBVIOUS
<1>2. /\ a \in Seq(S) /\ Len(a) = n /\ \A i \in 1..n : a[i] = s[i]
      /\ b \in Seq(S) /\ Len(b) = Len(s) - n /\ \A i \in 1..Len(s) - n : b[i] = s[n + i]
  BY DEF IsCut
<1>3. DOMAIN a = 1..n /\ DOMAIN b = 1..Len(s) - n
  BY <1>2
<1>4. ASSUME NEW x \in Range(s) PROVE x \in Range(a) \cup Range(b)
  <2>1. PICK i \in 1..Len(s) : x = s[i]
    BY <1>1 DEF Range
  <2>2. CASE i <= n
    <3>1. i \in 1..n
      BY <1>1, <2>2
    <3> QED BY <1>2, <1>3, <2>1, <3>1 DEF Range
  <2>3. CASE i > n
    <3>1. i - n \in 1..Len(s) - n /\ n + (i - n) = i
      BY <1>1, <2>3
    <3>2. b[i - n] = x
      BY <1>2, <2>1, <3>1
    <3> QED BY <1>3, <3>1, <3>2 DEF Range
  <2> QED BY <1>1, <2>2, <2>3
<1>5. Range(a) \subseteq Range(s)
  BY <1>1, <1>2, <1>3 DEF Range
<1>6. ASSUME NEW x \in Range(b) PROVE x \in Range(s)
  <2>1. PICK i \in 1..Len(s) - n : x = s[n + i]
    BY <1>2, <1>3 DEF Range
  <2>2. n + i \in DOMAIN s
    BY <1>1
  <2> QED BY <2>1, <2>2 DEF Range
<1>7. ASSUME IsInjective(s) PROVE IsInjective(a) /\ IsInjective(b) /\ Range(a) \cap Range(b) = {}
  <2>1. \A i, j \in 1..Len(s) : s[i] = s[j] => i = j
    BY <1>1, <1>7 DEF IsInjective
  <2>2. IsInjective(a)
    <3>1. \A i \in 1..n : i \in 1..Len(s)
      BY <1>1
    <3> QED BY <1>2, <1>3, <2>1, <3>1 DEF IsInjective
  <2>3. ASSUME NEW i \in 1..Len(s) - n, NEW j \in 1..Len(s) - n, b[i] = b[j] PROVE i = j
    <3>1. s[n + i] = s[n + j] /\ n + i \in 1..Len(s) /\ n + j \in 1..Len(s)
      <4>1. \A k \in 1..Len(s) - n : n + k \in 1..Len(s)
        BY <1>1
      <4> QED BY <1>2, <2>3, <4>1
    <3>2. n + i = n + j
      BY <2>1, <3>1
    <3> QED BY <3>2
  <2>4. IsInjective(b)
    BY <1>3, <2>3 DEF IsInjective
  <2>5. ASSUME NEW x \in Range(a), x \in Range(b) PROVE FALSE
    <3>1. PICK i \in 1..n : x = s[i]
      BY <1>2, <1>3 DEF Range
    <3>2. PICK j \in 1..Len(s) - n : x = s[n + j]
      <4>1. PICK j \in DOMAIN b : x = b[j]
        BY <2>5 DEF Range
      <4>2. j \in 1..Len(s) - n
        BY <1>3, <4>1
      <4> QED BY <1>2, <4>1, <4>2
    <3>3. i \in 1..Len(s) /\ n + j \in 1..Len(s) /\ i # n + j
      BY <1>1
    <3> QED BY <2>1, <3>1, <3>2, <3>3
  <2> QED BY <2>2, <2>4, <2>5
<1> QED BY <1>2, <1>4, <1>5, <1>6, <1>7

\* A set of numbers that is not empty has a least one.
LEMMA NatLeast ==
  ASSUME NEW T \in SUBSET Nat, T # {}
  PROVE  \E x \in T : \A y \in T : x <= y
<1>1. PICK R : R = OpToRel(<, Nat)
  OBVIOUS
<1>2. IsWellFoundedOn(R, Nat)
  BY <1>1, NatLessThanWellFounded
<1>3. \A x, y \in Nat : x < y => <<x, y>> \in R
  BY <1>1 DEF OpToRel
<1>4. PICK x \in T : \A y \in T : ~(<<y, x>> \in R)
  BY <1>2, WFMin
<1>5. \A y \in T : ~(y < x)
  BY <1>3, <1>4
<1>6. \A y \in T : y \in Nat /\ x \in Nat
  OBVIOUS
<1> QED BY <1>5, <1>6
-----------------------------------------------------------------------------
\* What the calls and the storage hold.
CallsTyped ==
  /\ text \in [Doc -> Call \cup {NoText}]
  /\ queue \in Seq(Call) /\ batch \in [Worker -> Seq(Call)]
  /\ pc \in [Call -> {"idle", "acquire", "queued", "take", "store", "wait", "put", "returned"}]
  /\ call \in [Call -> [doc : Doc \cup {NoText}, kind : Kinds \cup {"none"}]]
  /\ \A c \in Call : pc[c] # "idle" => call[c] \in [doc : Doc, kind : Kinds]
  /\ answer \in [Call -> {"none", "ok", "error"}]
  /\ result \in [Call -> {"none", "ok", "error", "timeout"}]
  /\ before \in [Call -> SUBSET Call]

\* A call in the queue or in a batch; one whose text was stored.
InFlight(c) == c \in Range(queue) \/ \E w \in Worker : c \in Range(batch[w])
Stored(c)   == answer[c] = "ok" \/ (call[c].kind = "immediate" /\ result[c] = "ok")

\* What the place of a call says about its answer.
StageInv ==
  /\ \A c \in Call : InFlight(c) =>
       answer[c] = "none" /\ call[c].kind # "immediate" /\ pc[c] \notin {"idle", "acquire"}
  /\ \A c \in Call : pc[c] \in {"idle", "acquire"} => answer[c] = "none" /\ result[c] = "none"
  /\ \A c \in Call : pc[c] \in {"queued", "take", "store", "wait", "put"} =>
       call[c].kind # "immediate" /\ result[c] = "none"
  /\ \A c \in Call : pc[c] = "put" => answer[c] = "ok"
  /\ \A c \in Call : batch[c] # <<>> => pc[c] = "store"
  /\ \A c \in Call : result[c] = "ok" => Stored(c)

\* A call is in one place only, and there once.
OnceInv ==
  /\ IsInjective(queue) /\ \A w \in Worker : IsInjective(batch[w])
  /\ \A w \in Worker : Range(queue) \cap Range(batch[w]) = {}
  /\ \A v, w \in Worker : v # w => Range(batch[v]) \cap Range(batch[w]) = {}

\* The calls before a call were stored, and their texts are not what remains
\* of its document once its own was.
BeforeInv ==
  \A c \in Call :
    /\ c \notin before[c] /\ \A b \in before[c] : Stored(b)
    /\ Stored(c) => text[call[c].doc] \notin before[c]

ServiceInv == CallsTyped /\ StageInv /\ OnceInv /\ BeforeInv
-----------------------------------------------------------------------------
(***************************************************************************)
(* Steps that leave the calls and the storage as they are.                 *)
(***************************************************************************)
core == <<text, queue, batch, pc, call, answer, result, before>>

LEMMA CoreKept ==
  ASSUME ServiceInv, UNCHANGED core
  PROVE  ServiceInv'
<1>1. /\ text' = text /\ queue' = queue /\ batch' = batch /\ pc' = pc
      /\ call' = call /\ answer' = answer /\ result' = result /\ before' = before
  BY DEF core
<1>2. CallsTyped'
  BY <1>1 DEF ServiceInv, CallsTyped
<1>3. StageInv' /\ OnceInv' /\ BeforeInv'
  BY <1>1 DEF ServiceInv, StageInv, OnceInv, BeforeInv, InFlight, Stored
<1> QED BY <1>2, <1>3 DEF ServiceInv

LEMMA CoreSteps ==
  ASSUME \/ \E d \in Doc : ReadHit(d)
         \/ \E r \in Reader, d \in Doc : StartRead(r, d)
         \/ \E r \in Reader : Read(r) \/ ReadTimesOut(r) \/ PutRead(r)
         \/ \E ds \in SUBSET Doc : Expire(ds)
         \/ Shutdown \/ StopTask \/ Abort \/ Clear \/ StartTask
         \/ UNCHANGED vars
  PROVE  UNCHANGED core
<1> USE DEF core, storage, clients
<1>1. ASSUME NEW d \in Doc, ReadHit(d) PROVE UNCHANGED core
  BY <1>1 DEF ReadHit
<1>2. ASSUME NEW r \in Reader, NEW d \in Doc, StartRead(r, d) PROVE UNCHANGED core
  BY <1>2 DEF StartRead
<1>3. ASSUME NEW r \in Reader, Read(r) \/ ReadTimesOut(r) \/ PutRead(r) PROVE UNCHANGED core
  BY <1>3 DEF Read, ReadTimesOut, PutRead
<1>4. ASSUME NEW ds \in SUBSET Doc, Expire(ds) PROVE UNCHANGED core
  BY <1>4 DEF Expire
<1>5. CASE Shutdown \/ StopTask \/ Abort \/ Clear \/ StartTask
  BY <1>5 DEF Shutdown, StopTask, Abort, Clear, StartTask
<1>6. CASE UNCHANGED vars
  BY <1>6 DEF vars
<1> QED BY <1>1, <1>2, <1>3, <1>4, <1>5, <1>6
-----------------------------------------------------------------------------
(***************************************************************************)
(* The steps of the calls.                                                 *)
(***************************************************************************)
LEMMA BeginStep ==
  ASSUME ServiceInv, NEW c \in Call, NEW d \in Doc, NEW k \in Kinds, Begin(c, d, k)
  PROVE  ServiceInv'
<1>1. /\ pc[c] = "idle" /\ pc' = [pc EXCEPT ![c] = "acquire"]
      /\ call' = [call EXCEPT ![c] = [doc |-> d, kind |-> k]]
      /\ before' = [before EXCEPT ![c] = {b \in Call : call[b].doc = d /\ result[b] = "ok"}]
      /\ UNCHANGED <<text, queue, batch, answer, result>>
  BY DEF Begin, Goto, storage
<1>2. answer[c] = "none" /\ result[c] = "none" /\ ~InFlight(c) /\ ~Stored(c)
  BY <1>1 DEF ServiceInv, StageInv, Stored
<1>3. CallsTyped'
  BY <1>1 DEF ServiceInv, CallsTyped
<1>4. \A x \in Call : (InFlight(x)' <=> InFlight(x)) /\ (Stored(x)' <=> Stored(x))
  BY <1>1, <1>2 DEF ServiceInv, CallsTyped, InFlight, Stored
<1>5. StageInv'
  BY <1>1, <1>2, <1>4 DEF ServiceInv, CallsTyped, StageInv
<1>6. OnceInv'
  BY <1>1 DEF ServiceInv, OnceInv
<1>7. BeforeInv'
  <2>1. c \notin before'[c] /\ \A b \in before'[c] : Stored(b)
    BY <1>1, <1>2 DEF ServiceInv, CallsTyped, StageInv
  <2>2. \A x \in Call \ {c} : before'[x] = before[x] /\ call'[x] = call[x]
    BY <1>1 DEF ServiceInv, CallsTyped
  <2>3. before' \in [Call -> SUBSET Call]
    BY <1>3 DEF CallsTyped
  <2>4. \A x \in Call : x \notin before'[x] /\ \A b \in before'[x] : Stored(b)'
    BY <1>4, <2>1, <2>2, <2>3 DEF ServiceInv, BeforeInv
  <2>5. \A x \in Call : Stored(x)' => text'[call'[x].doc] \notin before'[x]
    BY <1>1, <1>2, <1>4, <2>2 DEF ServiceInv, BeforeInv
  <2> QED BY <2>4, <2>5 DEF BeforeInv
<1> QED BY <1>3, <1>5, <1>6, <1>7 DEF ServiceInv

LEMMA EnqueueStep ==
  ASSUME ServiceInv, NEW c \in Call, Enqueue(c)
  PROVE  ServiceInv'
<1>1. /\ pc[c] = "acquire" /\ call[c].kind # "immediate" /\ pc' = [pc EXCEPT ![c] = "queued"]
      /\ queue' = Append(queue, c) /\ UNCHANGED <<text, batch, answer, call, result, before>>
  BY DEF Enqueue, Goto
<1>2. answer[c] = "none" /\ result[c] = "none" /\ ~InFlight(c)
  BY <1>1 DEF ServiceInv, StageInv
<1>3. CallsTyped'
  BY <1>1 DEF ServiceInv, CallsTyped
<1>4. queue \in Seq(Call) /\ Range(queue') = Range(queue) \cup {c}
  BY <1>1, RangeAppend DEF ServiceInv, CallsTyped
<1>5. \A x \in Call : (InFlight(x)' <=> InFlight(x) \/ x = c) /\ (Stored(x)' <=> Stored(x))
  BY <1>1, <1>4 DEF InFlight, Stored
<1>6. StageInv'
  BY <1>1, <1>2, <1>5 DEF ServiceInv, CallsTyped, StageInv
<1>7. OnceInv'
  <2>1. IsInjective(queue')
    BY <1>1, <1>2, <1>4, InjectiveAppend DEF ServiceInv, OnceInv, InFlight
  <2>2. \A w \in Worker : Range(queue') \cap Range(batch'[w]) = {}
    BY <1>1, <1>2, <1>4 DEF ServiceInv, OnceInv, InFlight
  <2> QED BY <1>1, <2>1, <2>2 DEF ServiceInv, OnceInv, IsInjective
<1>8. BeforeInv'
  BY <1>1, <1>3, <1>5 DEF ServiceInv, CallsTyped, BeforeInv
<1> QED BY <1>3, <1>6, <1>7, <1>8 DEF ServiceInv

\* Steps of a call that is past the queue: where it is and what it answers.
LEMMA ClientSteps ==
  ASSUME ServiceInv, NEW c \in Call, CheckFull(c) \/ Receive(c) \/ PutStored(c) \/ TimeOut(c)
  PROVE  ServiceInv'
<1>1. /\ UNCHANGED <<text, queue, batch, call, answer, before>>
      /\ \/ /\ pc[c] = "queued" /\ result' = result
            /\ pc' = [pc EXCEPT ![c] = "take"] \/ pc' = [pc EXCEPT ![c] = "wait"]
         \/ /\ pc[c] = "wait" /\ answer[c] = "ok" /\ result' = result
            /\ pc' = [pc EXCEPT ![c] = "put"]
         \/ /\ pc[c] = "wait" /\ result' = [result EXCEPT ![c] = answer[c]] /\ answer[c] # "none"
            /\ pc' = [pc EXCEPT ![c] = "returned"]
         \/ /\ pc[c] = "put" /\ result' = [result EXCEPT ![c] = "ok"]
            /\ pc' = [pc EXCEPT ![c] = "returned"]
         \/ /\ pc[c] = "wait" \/ (pc[c] = "acquire" /\ call[c].kind = "async")
            /\ result' = [result EXCEPT ![c] = "timeout"]
            /\ pc' = [pc EXCEPT ![c] = "returned"]
  <2>1. CASE CheckFull(c)
    BY <2>1 DEF CheckFull, Goto, storage
  <2>2. CASE Receive(c)
    BY <2>2 DEF Receive, Goto, storage
  <2>3. CASE PutStored(c)
    BY <2>3 DEF PutStored, Goto, storage
  <2>4. CASE TimeOut(c)
    BY <2>4 DEF TimeOut, Goto, storage
  <2> QED BY <2>1, <2>2, <2>3, <2>4
<1>2. CallsTyped'
  <2>1. result' \in [Call -> {"none", "ok", "error", "timeout"}]
    BY <1>1 DEF ServiceInv, CallsTyped
  <2>2. pc' \in [Call -> {"idle", "acquire", "queued", "take", "store", "wait", "put", "returned"}]
    BY <1>1 DEF ServiceInv, CallsTyped
  <2>3. call[c] \in [doc : Doc, kind : Kinds] /\ \A x \in Call \ {c} : pc'[x] = pc[x]
    BY <1>1 DEF ServiceInv, CallsTyped
  <2>4. UNCHANGED <<text, queue, batch, call, answer, before>>
    BY <1>1
  <2> QED BY <2>1, <2>2, <2>3, <2>4 DEF ServiceInv, CallsTyped
<1>3. \A x \in Call : InFlight(x)' <=> InFlight(x)
  BY <1>1 DEF InFlight
<1>4. \A x \in Call : Stored(x)' <=> Stored(x)
  <2>1. \A x \in Call \ {c} : result'[x] = result[x]
    BY <1>1 DEF ServiceInv, CallsTyped
  <2>2. Stored(c)' <=> Stored(c)
    <3>1. call[c].kind # "immediate"
      BY <1>1 DEF ServiceInv, StageInv
    <3> QED BY <1>1, <3>1 DEF Stored
  <2> QED BY <1>1, <2>1, <2>2 DEF Stored
<1>5. StageInv'
  <2>1. \A x \in Call \ {c} : pc'[x] = pc[x] /\ result'[x] = result[x]
    BY <1>1 DEF ServiceInv, CallsTyped
  <2>2. batch[c] = <<>>
    BY <1>1 DEF ServiceInv, StageInv
  <2>3. pc'[c] \in {"take", "wait", "put", "returned"} /\ (pc'[c] = "put" => answer[c] = "ok")
    BY <1>1 DEF ServiceInv, CallsTyped
  <2>4. pc'[c] # "returned" => result'[c] = "none" /\ call[c].kind # "immediate"
    BY <1>1 DEF ServiceInv, CallsTyped, StageInv
  <2>5. result'[c] = "ok" => Stored(c)
    BY <1>1 DEF ServiceInv, CallsTyped, StageInv, Stored
  <2>6. \A x \in Call : InFlight(x) => answer[x] = "none" /\ call[x].kind # "immediate"
    BY DEF ServiceInv, StageInv
  <2> QED BY <1>1, <1>3, <1>4, <2>1, <2>2, <2>3, <2>4, <2>5, <2>6 DEF ServiceInv, StageInv
<1>6. OnceInv' /\ BeforeInv'
  BY <1>1, <1>2, <1>4 DEF ServiceInv, CallsTyped, OnceInv, BeforeInv
<1> QED BY <1>2, <1>5, <1>6 DEF ServiceInv

\* A text stored past the queue.
LEMMA StoreImmediateStep ==
  ASSUME ServiceInv, NEW c \in Call, StoreImmediate(c)
  PROVE  ServiceInv'
<1> DEFINE d == call[c].doc
<1>1. /\ pc[c] = "acquire" /\ call[c].kind = "immediate" /\ pc' = [pc EXCEPT ![c] = "returned"]
      /\ \/ text' = [text EXCEPT ![d] = c] /\ result' = [result EXCEPT ![c] = "ok"]
         \/ text' = text /\ result' = [result EXCEPT ![c] = "error"]
      /\ UNCHANGED <<queue, batch, answer, call, before>>
  BY DEF StoreImmediate, Goto
<1>2. answer[c] = "none" /\ result[c] = "none" /\ ~InFlight(c) /\ ~Stored(c) /\ d \in Doc
  BY <1>1 DEF ServiceInv, StageInv, Stored, CallsTyped
<1>3. CallsTyped'
  BY <1>1, <1>2 DEF ServiceInv, CallsTyped
<1>4. /\ \A x \in Call : InFlight(x)' <=> InFlight(x)
      /\ \A x \in Call \ {c} : Stored(x)' <=> Stored(x)
      /\ result'[c] = "ok" => Stored(c)'
  BY <1>1 DEF InFlight, Stored, ServiceInv, CallsTyped
<1>5. StageInv'
  BY <1>1, <1>2, <1>4 DEF ServiceInv, CallsTyped, StageInv
<1>6. OnceInv'
  BY <1>1 DEF ServiceInv, OnceInv
<1>7. BeforeInv'
  <2>1. \A x \in Call : c \notin before[x]
    BY <1>2 DEF ServiceInv, BeforeInv
  <2>2. \A x \in Call : before'[x] \subseteq Call /\ before'[x] = before[x] /\ call'[x] = call[x]
    BY <1>1, <1>3 DEF CallsTyped
  <2>3. \A x \in Call : x \notin before'[x] /\ \A b \in before'[x] : Stored(b)'
    BY <1>4, <2>1, <2>2 DEF ServiceInv, BeforeInv
  <2>4. ASSUME NEW x \in Call, Stored(x)' PROVE text'[call[x].doc] \notin before[x]
    <3>1. CASE text' = text
      BY <1>1, <1>2, <1>4, <2>4, <3>1 DEF ServiceInv, BeforeInv, CallsTyped, Stored
    <3>2. CASE text' = [text EXCEPT ![d] = c]
      <4>1. \A e \in Doc : text'[e] = IF e = d THEN c ELSE text[e]
        BY <3>2 DEF ServiceInv, CallsTyped
      <4>2. call[x].doc \in Doc
        BY <2>4, <1>1, <1>4 DEF ServiceInv, CallsTyped, StageInv, Stored
      <4> QED BY <1>2, <1>4, <2>1, <2>4, <4>1, <4>2 DEF ServiceInv, BeforeInv
    <3> QED BY <1>1, <3>1, <3>2
  <2> QED BY <2>2, <2>3, <2>4 DEF BeforeInv
<1> QED BY <1>3, <1>5, <1>6, <1>7 DEF ServiceInv
-----------------------------------------------------------------------------
(***************************************************************************)
(* The steps of the workers.                                               *)
(***************************************************************************)
\* Calls that leave the queue for a batch stay in flight, once.
LEMMA TakeStep ==
  ASSUME ServiceInv, NEW w \in Worker, Take(w)
  PROVE  ServiceInv'
<1>1. PICK n, a, b :
        /\ n \in 0..Len(queue)
        /\ a = SubSeq(queue, 1, n) /\ b = SubSeq(queue, n + 1, Len(queue))
        /\ batch' = [batch EXCEPT ![w] = a] /\ queue' = b
        /\ IF w \in Call THEN pc' = [pc EXCEPT ![w] = IF n = 0 THEN "wait" ELSE "store"]
           ELSE pc' = pc
  <2>1. Len(queue) \in Nat /\ MaxBatch \in Nat
    BY TextServiceAssumption DEF ServiceInv, CallsTyped
  <2> DEFINE n == IF Len(queue) < MaxBatch THEN Len(queue) ELSE MaxBatch
  <2>2. n \in 0..Len(queue)
    BY <2>1
  <2>3. /\ batch' = [batch EXCEPT ![w] = SubSeq(queue, 1, n)]
        /\ queue' = SubSeq(queue, n + 1, Len(queue))
        /\ IF w \in Call THEN pc' = [pc EXCEPT ![w] = IF n = 0 THEN "wait" ELSE "store"]
           ELSE pc' = pc
    BY DEF Take, Remaining, Advance, Goto
  <2> HIDE DEF n
  <2> QED BY <2>2, <2>3
<1>2. /\ batch[w] = <<>> /\ UNCHANGED <<text, answer, call, result, before>>
      /\ w \in Call => pc[w] = "take"
  BY TextServiceAssumption DEF Take, MayTake
<1>3. /\ a \in Seq(Call) /\ Len(a) = n /\ b \in Seq(Call)
      /\ Range(queue) = Range(a) \cup Range(b)
      /\ IsInjective(a) /\ IsInjective(b) /\ Range(a) \cap Range(b) = {}
  <2>1. queue \in Seq(Call) /\ IsInjective(queue)
    BY DEF ServiceInv, CallsTyped, OnceInv
  <2>2. n \in 0..Len(queue) /\ IsCut(queue, n, a, b)
    BY <1>1 DEF IsCut
  <2>3. /\ a \in Seq(Call) /\ Len(a) = n /\ b \in Seq(Call)
        /\ Range(queue) = Range(a) \cup Range(b)
        /\ IsInjective(queue) => IsInjective(a) /\ IsInjective(b) /\ Range(a) \cap Range(b) = {}
    BY <2>1, <2>2, SplitSeq
  <2> QED BY <2>1, <2>3
<1>4. /\ batch' \in [Worker -> Seq(Call)] /\ batch'[w] = a /\ Range(batch[w]) = {}
      /\ \A v \in Worker \ {w} : batch'[v] = batch[v]
  BY <1>1, <1>2, <1>3, RangeEmpty DEF ServiceInv, CallsTyped
<1>5. CallsTyped'
  <2>1. pc' \in [Call -> {"idle", "acquire", "queued", "take", "store", "wait", "put", "returned"}]
    BY <1>1 DEF ServiceInv, CallsTyped
  <2>2. \A c \in Call : pc'[c] # "idle" => pc[c] # "idle"
    BY <1>1, <1>2 DEF ServiceInv, CallsTyped
  <2> QED BY <1>1, <1>2, <1>3, <1>4, <2>1, <2>2 DEF ServiceInv, CallsTyped
<1>6. \A x \in Call : (InFlight(x)' <=> InFlight(x)) /\ (Stored(x)' <=> Stored(x))
  <2>1. \A x \in Call : Stored(x)' <=> Stored(x)
    BY <1>2 DEF Stored
  <2>2. ASSUME NEW x \in Call PROVE InFlight(x)' <=> InFlight(x)
    BY <1>1, <1>3, <1>4 DEF InFlight
  <2> QED BY <2>1, <2>2
<1>7. StageInv'
  <2>1. \A x \in Call : x # w => pc'[x] = pc[x] /\ batch'[x] = batch[x]
    BY <1>1, <1>4 DEF ServiceInv, CallsTyped, Worker
  <2>2. w \in Call => /\ pc[w] = "take" /\ pc'[w] \in {"wait", "store"}
                      /\ batch'[w] # <<>> => pc'[w] = "store"
    <3>1. n = 0 => a = <<>>
      BY <1>3
    <3> QED BY <1>1, <1>2, <1>4, <3>1 DEF ServiceInv, CallsTyped
  <2> QED BY <1>2, <1>6, <2>1, <2>2 DEF ServiceInv, StageInv
<1>8. OnceInv'
  <2>1. \A v \in Worker \ {w} : Range(queue) \cap Range(batch[v]) = {} /\ IsInjective(batch[v])
    BY DEF ServiceInv, OnceInv
  <2>2. IsInjective(queue') /\ \A v \in Worker : IsInjective(batch'[v])
    BY <1>1, <1>3, <1>4, <2>1
  <2>3. ASSUME NEW v \in Worker PROVE Range(queue') \cap Range(batch'[v]) = {}
    BY <1>1, <1>3, <1>4, <2>1
  <2>4. ASSUME NEW u \in Worker, NEW v \in Worker, u # v
        PROVE  Range(batch'[u]) \cap Range(batch'[v]) = {}
    BY <1>3, <1>4, <2>1, <2>4 DEF ServiceInv, OnceInv
  <2>5. OnceInv' <=> /\ IsInjective(queue') /\ \A v \in Worker : IsInjective(batch'[v])
                     /\ \A v \in Worker : Range(queue') \cap Range(batch'[v]) = {}
                     /\ \A u, v \in Worker : u # v => Range(batch'[u]) \cap Range(batch'[v]) = {}
    BY DEF OnceInv
  <2> QED BY <2>2, <2>3, <2>4, <2>5
<1>9. BeforeInv'
  BY <1>2, <1>6 DEF ServiceInv, CallsTyped, BeforeInv
<1> QED BY <1>5, <1>7, <1>8, <1>9 DEF ServiceInv

\* The call at the head of a batch is stored, or fails, and is then nowhere in
\* flight: it is stored once.
LEMMA StoreNextStep ==
  ASSUME ServiceInv, NEW w \in Worker, StoreNext(w)
  PROVE  ServiceInv'
<1>1. PICK c, rest :
        /\ batch[w] # <<>> /\ c = Head(batch[w]) /\ rest = Tail(batch[w])
        /\ \/ text' = [text EXCEPT ![call[c].doc] = c] /\ answer' = [answer EXCEPT ![c] = "ok"]
           \/ text' = text /\ answer' = [answer EXCEPT ![c] = "error"]
        /\ batch' = [batch EXCEPT ![w] = rest]
        /\ IF rest = <<>> /\ w \in Call THEN pc' = [pc EXCEPT ![w] = "wait"] ELSE pc' = pc
        /\ UNCHANGED <<queue, call, result, before>>
  BY DEF StoreNext, Advance, Goto
<1>2. /\ c \in Call /\ rest \in Seq(Call) /\ Range(batch[w]) = {c} \cup Range(rest)
      /\ IsInjective(rest) /\ c \notin Range(rest)
  <2>1. batch[w] \in Seq(Call) /\ IsInjective(batch[w])
    BY DEF ServiceInv, CallsTyped, OnceInv
  <2> QED BY <1>1, <2>1, RangeHeadTail, InjectiveTail
<1>3. /\ InFlight(c) /\ answer[c] = "none" /\ call[c].kind # "immediate" /\ ~Stored(c)
      /\ pc[c] \notin {"idle", "acquire"} /\ call[c].doc \in Doc
  <2>1. InFlight(c)
    BY <1>2 DEF InFlight
  <2>2. answer[c] = "none" /\ call[c].kind # "immediate" /\ pc[c] \notin {"idle", "acquire"}
    BY <1>2, <2>1 DEF ServiceInv, StageInv
  <2> QED BY <1>2, <2>1, <2>2 DEF ServiceInv, CallsTyped, Stored
<1>4. /\ batch' \in [Worker -> Seq(Call)] /\ batch'[w] = rest
      /\ \A v \in Worker \ {w} : batch'[v] = batch[v]
  BY <1>1, <1>2 DEF ServiceInv, CallsTyped
<1>5. /\ answer' \in [Call -> {"none", "ok", "error"}] /\ answer'[c] \in {"ok", "error"}
      /\ \A x \in Call \ {c} : answer'[x] = answer[x]
  BY <1>1, <1>2 DEF ServiceInv, CallsTyped
<1>6. /\ text' \in [Doc -> Call \cup {NoText}]
      /\ answer'[c] = "ok" => text' = [text EXCEPT ![call[c].doc] = c]
      /\ answer'[c] # "ok" => text' = text
  <2>1. CASE text' = text /\ answer' = [answer EXCEPT ![c] = "error"]
    <3>1. answer'[c] = "error"
      BY <1>2, <2>1 DEF ServiceInv, CallsTyped
    <3> QED BY <2>1, <3>1 DEF ServiceInv, CallsTyped
  <2>2. CASE text' = [text EXCEPT ![call[c].doc] = c] /\ answer' = [answer EXCEPT ![c] = "ok"]
    <3>1. answer'[c] = "ok"
      BY <1>2, <2>2 DEF ServiceInv, CallsTyped
    <3>2. text' \in [Doc -> Call \cup {NoText}]
      BY <1>2, <1>3, <2>2 DEF ServiceInv, CallsTyped
    <3> QED BY <2>2, <3>1, <3>2
  <2> QED BY <1>1, <2>1, <2>2
<1>7. /\ pc' \in [Call -> {"idle", "acquire", "queued", "take", "store", "wait", "put", "returned"}]
      /\ \A x \in Call : x # w => pc'[x] = pc[x]
      /\ w \in Call => pc[w] = "store" /\ pc'[w] = IF rest = <<>> THEN "wait" ELSE "store"
  <2>1. w \in Call => pc[w] = "store"
    BY <1>1 DEF ServiceInv, StageInv
  <2> QED BY <1>1, <2>1 DEF ServiceInv, CallsTyped
<1>8. CallsTyped'
  <2>1. \A x \in Call : pc'[x] # "idle" => pc[x] # "idle"
    BY <1>7
  <2> QED BY <1>1, <1>4, <1>5, <1>6, <1>7, <2>1 DEF ServiceInv, CallsTyped
<1>9. /\ \A x \in Call : InFlight(x)' => InFlight(x) /\ x # c
      /\ \A x \in Call \ {c} : Stored(x)' <=> Stored(x)
      /\ Stored(c)' <=> answer'[c] = "ok"
  <2>1. c \notin Range(queue) /\ \A v \in Worker \ {w} : c \notin Range(batch[v])
    BY <1>2 DEF ServiceInv, OnceInv
  <2>2. ASSUME NEW x \in Call, InFlight(x)' PROVE InFlight(x) /\ x # c
    BY <1>1, <1>2, <1>4, <2>1, <2>2 DEF InFlight
  <2>3. \A x \in Call \ {c} : Stored(x)' <=> Stored(x)
    BY <1>1, <1>5 DEF Stored
  <2>4. Stored(c)' <=> answer'[c] = "ok"
    BY <1>1, <1>3 DEF Stored
  <2> QED BY <2>2, <2>3, <2>4
<1>10. StageInv'
  <2>1. \A x \in Call : pc'[x] = pc[x] \/ (x = w /\ pc[x] = "store" /\ pc'[x] = "wait")
    BY <1>7
  <2>2. \A x \in Call : InFlight(x)' =>
          answer'[x] = "none" /\ call'[x].kind # "immediate" /\ pc'[x] \notin {"idle", "acquire"}
    BY <1>1, <1>5, <1>9, <2>1 DEF ServiceInv, StageInv
  <2>3. /\ \A x \in Call : pc'[x] \in {"idle", "acquire"} => answer'[x] = "none" /\ result'[x] = "none"
        /\ \A x \in Call : pc'[x] = "put" => answer'[x] = "ok"
    BY <1>1, <1>3, <1>5, <2>1 DEF ServiceInv, StageInv
  <2>4. \A x \in Call : pc'[x] \in {"queued", "take", "store", "wait", "put"} =>
          call'[x].kind # "immediate" /\ result'[x] = "none"
    BY <1>1, <2>1 DEF ServiceInv, StageInv
  <2>5. \A x \in Call : batch'[x] # <<>> => pc'[x] = "store"
    BY <1>1, <1>4, <1>7 DEF ServiceInv, StageInv, Worker
  <2>6. \A x \in Call : result'[x] = "ok" => Stored(x)'
    BY <1>1, <1>3, <1>9 DEF ServiceInv, StageInv
  <2> QED BY <2>2, <2>3, <2>4, <2>5, <2>6 DEF StageInv
<1>11. OnceInv'
  <2>1. IsInjective(queue') /\ \A v \in Worker : IsInjective(batch'[v])
    BY <1>1, <1>2, <1>4 DEF ServiceInv, OnceInv, IsInjective
  <2>2. ASSUME NEW v \in Worker PROVE Range(queue') \cap Range(batch'[v]) = {}
    BY <1>1, <1>2, <1>4 DEF ServiceInv, OnceInv
  <2>3. ASSUME NEW u \in Worker, NEW v \in Worker, u # v
        PROVE  Range(batch'[u]) \cap Range(batch'[v]) = {}
    BY <1>2, <1>4, <2>3 DEF ServiceInv, OnceInv
  <2>4. OnceInv' <=> /\ IsInjective(queue') /\ \A v \in Worker : IsInjective(batch'[v])
                     /\ \A v \in Worker : Range(queue') \cap Range(batch'[v]) = {}
                     /\ \A u, v \in Worker : u # v => Range(batch'[u]) \cap Range(batch'[v]) = {}
    BY DEF OnceInv
  <2> QED BY <2>1, <2>2, <2>3, <2>4
<1>12. BeforeInv'
  <2>1. \A x \in Call : c \notin before[x]
    BY <1>3 DEF ServiceInv, BeforeInv
  <2>2. \A x \in Call : before'[x] \subseteq Call /\ before'[x] = before[x] /\ call'[x] = call[x]
    BY <1>1, <1>8 DEF CallsTyped
  <2>3. \A x \in Call : x \notin before'[x] /\ \A b \in before'[x] : Stored(b)'
    BY <1>9, <2>1, <2>2 DEF ServiceInv, BeforeInv
  <2>4. ASSUME NEW x \in Call, Stored(x)' PROVE text'[call[x].doc] \notin before[x]
    <3>1. CASE answer'[c] # "ok"
      BY <1>6, <1>9, <2>4, <3>1 DEF ServiceInv, BeforeInv
    <3>2. CASE answer'[c] = "ok"
      <4>1. \A e \in Doc : text'[e] = IF e = call[c].doc THEN c ELSE text[e]
        BY <1>6, <3>2 DEF ServiceInv, CallsTyped
      <4>2. x # c => Stored(x)
        BY <1>9, <2>4
      <4>3. call[x].doc \in Doc
        BY <1>3, <4>2 DEF ServiceInv, CallsTyped, StageInv, Stored
      <4> QED BY <2>1, <4>1, <4>2, <4>3 DEF ServiceInv, BeforeInv
    <3> QED BY <3>1, <3>2
  <2> QED BY <2>2, <2>3, <2>4 DEF BeforeInv
<1> QED BY <1>8, <1>10, <1>11, <1>12 DEF ServiceInv
-----------------------------------------------------------------------------
(***************************************************************************)
(* The cache of lengths.                                                   *)
(***************************************************************************)
CacheInv == DOMAIN meta \subseteq Doc /\ CacheMatchesStorage

\* What is cached for d, and what is kept of it when the cache is full, agrees
\* with a storage that holds c for d.
LEMMA CacheWritten ==
  ASSUME CacheInv, CallsTyped, NEW d \in Doc, NEW c, text' = [text EXCEPT ![d] = c],
         \/ meta' = WithMeta(d, c)
         \/ meta' \in Cleaned(WithMeta(d, c))
  PROVE  CacheInv'
<1> DEFINE m == WithMeta(d, c)
<1>1. \A e \in Doc : text'[e] = IF e = d THEN c ELSE text[e]
  BY DEF CallsTyped
<1>2. DOMAIN m \subseteq Doc /\ \A e \in DOMAIN m : m[e] = text'[e]
  <2>1. DOMAIN m = DOMAIN meta \cup {d}
    BY DEF WithMeta, Cached
  <2>2. \A e \in DOMAIN m : m[e] = IF e = d THEN c ELSE meta[e]
    BY DEF WithMeta, Cached
  <2> QED BY <1>1, <2>1, <2>2 DEF CacheInv, CacheMatchesStorage
<1> HIDE DEF m
<1>3. DOMAIN meta' \subseteq DOMAIN m /\ \A e \in DOMAIN meta' : meta'[e] = m[e]
  <2>1. CASE meta' = m
    BY <2>1
  <2>2. CASE meta' \in Cleaned(m)
    <3>1. PICK keep \in SUBSET DOMAIN m : meta' = [e \in keep |-> m[e]]
      <4>1. CASE Cardinality(DOMAIN m) <= MetaSize
        <5>1. meta' = m
          BY <2>2, <4>1 DEF Cleaned
        <5>2. m = [e \in DOMAIN m |-> m[e]]
          BY DEF m, WithMeta, Cached
        <5> QED BY <5>1, <5>2
      <4>2. CASE ~(Cardinality(DOMAIN m) <= MetaSize)
        BY <2>2, <4>2 DEF Cleaned
      <4> QED BY <4>1, <4>2
    <3> QED BY <3>1
  <2> QED BY <2>1, <2>2 DEF m
<1> QED BY <1>2, <1>3 DEF CacheInv, CacheMatchesStorage

LEMMA CacheKept ==
  ASSUME ServiceInv, CacheInv, [Next]_vars
  PROVE  CacheInv'
<1>1. ASSUME NEW w \in Worker, StoreNext(w) PROVE CacheInv'
  <2>1. PICK c : /\ batch[w] # <<>> /\ c = Head(batch[w])
                 /\ \/ text' = [text EXCEPT ![call[c].doc] = c] /\ meta' \in Cleaned(WithMeta(call[c].doc, c))
                    \/ UNCHANGED <<text, meta>>
    BY <1>1 DEF StoreNext
  <2>2. call[c].doc \in Doc
    <3>1. batch[w] \in Seq(Call)
      BY DEF ServiceInv, CallsTyped
    <3>2. c \in Call /\ InFlight(c)
      BY <2>1, <3>1, RangeHeadTail DEF InFlight
    <3> QED BY <3>2 DEF ServiceInv, CallsTyped, StageInv
  <2>3. CASE UNCHANGED <<text, meta>>
    BY <2>3 DEF CacheInv, CacheMatchesStorage
  <2>4. CASE text' = [text EXCEPT ![call[c].doc] = c] /\ meta' \in Cleaned(WithMeta(call[c].doc, c))
    BY <2>2, <2>4, CacheWritten DEF ServiceInv
  <2> QED BY <2>1, <2>3, <2>4
<1>2. ASSUME NEW c \in Call, StoreImmediate(c) PROVE CacheInv'
  <2>1. call[c].doc \in Doc
    BY <1>2 DEF StoreImmediate, ServiceInv, CallsTyped
  <2>2. \/ text' = [text EXCEPT ![call[c].doc] = c] /\ meta' = WithMeta(call[c].doc, c)
        \/ UNCHANGED <<text, meta>>
    BY <1>2 DEF StoreImmediate
  <2>3. CASE UNCHANGED <<text, meta>>
    BY <2>3 DEF CacheInv, CacheMatchesStorage
  <2>4. CASE text' = [text EXCEPT ![call[c].doc] = c] /\ meta' = WithMeta(call[c].doc, c)
    BY <2>1, <2>4, CacheWritten DEF ServiceInv
  <2> QED BY <2>2, <2>3, <2>4
<1>3. ASSUME UNCHANGED <<text, meta>> PROVE CacheInv'
  BY <1>3 DEF CacheInv, CacheMatchesStorage
<1>4. ASSUME NEW c \in Call, Enqueue(c) \/ CheckFull(c) \/ Receive(c) \/ PutStored(c) \/ TimeOut(c)
      PROVE  UNCHANGED <<text, meta>>
  BY <1>4 DEF Enqueue, CheckFull, Receive, PutStored, TimeOut, storage
<1>5. ASSUME NEW w \in Worker, Take(w) PROVE UNCHANGED <<text, meta>>
  BY <1>5 DEF Take
<1>6. ASSUME NEW c \in Call, NEW d \in Doc, NEW k \in Kinds, Begin(c, d, k)
      PROVE  UNCHANGED <<text, meta>>
  BY <1>6 DEF Begin, storage
<1>7. ASSUME NEW d \in Doc, ReadHit(d) PROVE UNCHANGED <<text, meta>>
  BY <1>7 DEF ReadHit, storage
<1>8. ASSUME NEW r \in Reader, NEW d \in Doc, StartRead(r, d) PROVE UNCHANGED <<text, meta>>
  BY <1>8 DEF StartRead, storage
<1>9. ASSUME NEW r \in Reader, Read(r) \/ ReadTimesOut(r) \/ PutRead(r) PROVE UNCHANGED <<text, meta>>
  BY <1>9 DEF Read, ReadTimesOut, PutRead, storage
<1>10. ASSUME NEW ds \in SUBSET Doc, Expire(ds) PROVE UNCHANGED <<text, meta>>
  BY <1>10 DEF Expire, storage
<1>11. CASE Shutdown \/ StopTask \/ Abort \/ Clear \/ StartTask
  BY <1>3, <1>11 DEF Shutdown, StopTask, Abort, Clear, StartTask, storage
<1>12. CASE UNCHANGED vars
  BY <1>3, <1>12 DEF vars, storage
<1> QED BY <1>1, <1>2, <1>3, <1>4, <1>5, <1>6, <1>7, <1>8, <1>9, <1>10, <1>11, <1>12 DEF Next, Progress
-----------------------------------------------------------------------------
(***************************************************************************)
(* The read-ahead buffer and its order.                                    *)
(***************************************************************************)
\* g says, for each of the first n elements of s, what of them is in T.
Keeps(g, s, T, n) ==
  g = [m \in 0..n |-> IF m = 0 THEN <<>>
                      ELSE IF s[m] \in T THEN Append(g[m - 1], s[m]) ELSE g[m - 1]]

LEMMA KeepsExist ==
  ASSUME NEW s, NEW T, NEW N \in Nat
  PROVE  \E g : Keeps(g, s, T, N)
<1>1. PICK M : M = {n \in 0..N : ~ \E g : Keeps(g, s, T, n)}
  OBVIOUS
<1>2. CASE M = {}
  BY <1>1, <1>2
<1>3. CASE M # {}
  <2>1. M \in SUBSET Nat
    BY <1>1
  <2>2. PICK n \in M : \A m \in M : n <= m
    BY <1>3, <2>1, NatLeast
  <2>3. n \in 0..N /\ n \in Nat /\ ~ \E g : Keeps(g, s, T, n)
    BY <1>1, <2>1
  <2>4. CASE n = 0
    <3>1. PICK h : h = [m \in 0..0 |-> <<>>]
      OBVIOUS
    <3>2. h = [m \in 0..0 |-> IF m = 0 THEN <<>>
                              ELSE IF s[m] \in T THEN Append(h[m - 1], s[m]) ELSE h[m - 1]]
      <4>1. \A m \in 0..0 : m = 0
        OBVIOUS
      <4> QED BY <3>1, <4>1
    <3>3. Keeps(h, s, T, n)
      BY <2>4, <3>2 DEF Keeps
    <3> QED BY <2>3, <3>3
  <2>5. CASE n # 0
    <3>1. n - 1 \in Nat /\ n - 1 \in 0..N /\ ~(n <= n - 1)
      BY <2>3, <2>5
    <3>2. PICK g : Keeps(g, s, T, n - 1)
      BY <1>1, <2>2, <3>1
    <3>3. PICK last : last = IF s[n] \in T THEN Append(g[n - 1], s[n]) ELSE g[n - 1]
      OBVIOUS
    <3>4. PICK h : h = [m \in 0..n |-> IF m = n THEN last ELSE g[m]]
      OBVIOUS
    <3>5. ASSUME NEW m \in 0..n
          PROVE  h[m] = IF m = 0 THEN <<>>
                        ELSE IF s[m] \in T THEN Append(h[m - 1], s[m]) ELSE h[m - 1]
      <4>1. CASE m = n
        <5>1. n - 1 \in 0..n /\ n - 1 # n
          BY <2>3, <2>5
        <5>2. h[m] = last /\ h[m - 1] = g[n - 1]
          BY <3>4, <4>1, <5>1
        <5> QED BY <2>5, <3>3, <4>1, <5>2
      <4>2. CASE m # n
        <5>1. m \in 0..(n - 1)
          BY <2>3, <4>2
        <5>2. h[m] = g[m]
          BY <3>4, <4>2
        <5>3. g[m] = IF m = 0 THEN <<>>
                     ELSE IF s[m] \in T THEN Append(g[m - 1], s[m]) ELSE g[m - 1]
          BY <3>2, <5>1 DEF Keeps
        <5>4. m # 0 => h[m - 1] = g[m - 1]
          <6>1. m # 0 => m - 1 \in 0..n /\ m - 1 # n
            BY <2>3, <5>1
          <6> QED BY <3>4, <6>1
        <5> QED BY <5>2, <5>3, <5>4
      <4> QED BY <4>1, <4>2
    <3>6. Keeps(h, s, T, n)
      BY <3>4, <3>5 DEF Keeps
    <3> QED BY <2>3, <3>6
  <2> QED BY <2>4, <2>5
<1> QED BY <1>2, <1>3

\* What of the first n elements of s is in T, without repetitions if s is.
IsKept(t, S, s, T, n) ==
  /\ t \in Seq(S) /\ Len(t) <= n
  /\ \A x : x \in Range(t) <=> x \in T /\ \E i \in 1..n : s[i] = x
  /\ IsInjective(t)

LEMMA KeptStep ==
  ASSUME NEW S, NEW s \in Seq(S), IsInjective(s), NEW T, NEW n \in 1..Len(s),
         NEW t, IsKept(t, S, s, T, n - 1), NEW u,
         u = IF s[n] \in T THEN Append(t, s[n]) ELSE t
  PROVE  IsKept(u, S, s, T, n)
<1>1. /\ t \in Seq(S) /\ Len(t) <= n - 1 /\ IsInjective(t)
      /\ \A x : x \in Range(t) <=> x \in T /\ \E i \in 1..(n - 1) : s[i] = x
  BY DEF IsKept
<1>2. DOMAIN s = 1..Len(s) /\ Len(s) \in Nat /\ s[n] \in S /\ Len(t) \in Nat
  BY <1>1
<1>3. \A x : (\E i \in 1..n : s[i] = x) <=> x = s[n] \/ \E i \in 1..(n - 1) : s[i] = x
  <2>1. \A i : i \in 1..n <=> i = n \/ i \in 1..(n - 1)
    OBVIOUS
  <2> QED BY <2>1
<1>4. ASSUME s[n] \in Range(t) PROVE FALSE
  <2>1. PICK i \in 1..(n - 1) : s[i] = s[n]
    BY <1>1, <1>4
  <2>2. i \in DOMAIN s /\ n \in DOMAIN s /\ i # n
    BY <1>2
  <2> QED BY <2>1, <2>2 DEF IsInjective
<1>5. CASE s[n] \in T
  <2>1. u = Append(t, s[n]) /\ u \in Seq(S) /\ Len(u) = Len(t) + 1
    BY <1>1, <1>2, <1>5
  <2>2. Range(u) = Range(t) \cup {s[n]}
    BY <1>1, <1>2, <2>1, RangeAppend
  <2>3. IsInjective(u)
    BY <1>1, <1>2, <1>4, <2>1, InjectiveAppend
  <2>4. \A x : x \in Range(u) <=> x \in T /\ \E i \in 1..n : s[i] = x
    BY <1>1, <1>3, <1>5, <2>2
  <2>5. Len(u) <= n
    BY <1>1, <1>2, <2>1
  <2> QED BY <2>1, <2>3, <2>4, <2>5 DEF IsKept
<1>6. CASE s[n] \notin T
  <2>1. u = t
    BY <1>6
  <2>2. \A x : x \in Range(u) <=> x \in T /\ \E i \in 1..n : s[i] = x
    BY <1>1, <1>3, <1>6, <2>1
  <2>3. Len(u) <= n
    BY <1>1, <1>2, <2>1
  <2> QED BY <1>1, <2>1, <2>2, <2>3 DEF IsKept
<1> QED BY <1>5, <1>6

LEMMA KeptIs ==
  ASSUME NEW S, NEW s \in Seq(S), IsInjective(s), NEW T
  PROVE  /\ Kept(s, T) \in Seq(S) /\ Len(Kept(s, T)) <= Len(s)
         /\ IsInjective(Kept(s, T)) /\ Range(Kept(s, T)) = Range(s) \cap T
<1>1. PICK N : N = Len(s)
  OBVIOUS
<1>2. N \in Nat /\ DOMAIN s = 1..N
  BY <1>1
<1>3. PICK g : g = CHOOSE f : Keeps(f, s, T, N)
  OBVIOUS
<1>4. Keeps(g, s, T, N)
  <2>1. \E f : Keeps(f, s, T, N)
    BY <1>2, KeepsExist
  <2> QED BY <1>3, <2>1
<1>5. Kept(s, T) = g[N]
  BY <1>1, <1>3 DEF Kept, Keeps
<1>6. \A n \in 0..N : IsKept(g[n], S, s, T, n)
  <2>1. PICK M : M = {n \in 0..N : ~IsKept(g[n], S, s, T, n)}
    OBVIOUS
  <2>2. CASE M # {}
    <3>1. M \in SUBSET Nat
      BY <2>1
    <3>2. PICK n \in M : \A m \in M : n <= m
      BY <2>2, <3>1, NatLeast
    <3>3. n \in 0..N /\ n \in Nat /\ ~IsKept(g[n], S, s, T, n)
      BY <2>1, <3>1
    <3>4. g[n] = IF n = 0 THEN <<>> ELSE IF s[n] \in T THEN Append(g[n - 1], s[n]) ELSE g[n - 1]
      BY <1>4, <3>3 DEF Keeps
    <3>5. CASE n = 0
      <4>1. g[n] = <<>> /\ <<>> \in Seq(S) /\ Len(<<>>) = 0 /\ DOMAIN <<>> = {}
        BY <3>4, <3>5
      <4>2. Range(<<>>) = {} /\ IsInjective(<<>>)
        BY <4>1, RangeEmpty DEF IsInjective
      <4>3. \A i : i \notin 1..n
        BY <3>5
      <4>4. IsKept(g[n], S, s, T, n)
        BY <3>5, <4>1, <4>2, <4>3 DEF IsKept
      <4> QED BY <3>3, <4>4
    <3>6. CASE n # 0
      <4>1. n - 1 \in 0..N /\ ~(n <= n - 1) /\ n \in 1..Len(s)
        BY <1>1, <1>2, <3>3, <3>6
      <4>2. IsKept(g[n - 1], S, s, T, n - 1)
        BY <2>1, <3>2, <4>1
      <4>3. PICK t : t = g[n - 1]
        OBVIOUS
      <4>4. g[n] = IF s[n] \in T THEN Append(t, s[n]) ELSE t
        BY <3>4, <3>6, <4>3
      <4>5. IsKept(g[n], S, s, T, n)
        BY <4>1, <4>2, <4>3, <4>4, KeptStep
      <4> QED BY <3>3, <4>5
    <3> QED BY <3>5, <3>6
  <2> QED BY <2>1, <2>2
<1>7. IsKept(g[N], S, s, T, N)
  BY <1>2, <1>6
<1>8. \A x : x \in Range(s) <=> \E i \in 1..N : s[i] = x
  BY <1>2 DEF Range
<1>9. PICK t : t = g[N]
  OBVIOUS
<1>10. Range(t) = Range(s) \cap T
  BY <1>7, <1>8, <1>9 DEF IsKept
<1> QED BY <1>1, <1>5, <1>7, <1>9, <1>10 DEF IsKept

\* The order lists what is buffered, each document once, within the size.
BufferOrdered ==
  /\ order \in Seq(Doc) /\ IsInjective(order) /\ Range(order) = DOMAIN buffer
  /\ Len(order) <= BufferSize

LEMMA OrderCounts ==
  ASSUME BufferOrdered
  PROVE  Cardinality(DOMAIN buffer) = Len(order)
<1>1. DOMAIN order = 1..Len(order) /\ Len(order) \in Nat
  BY DEF BufferOrdered
<1>2. order \in [1..Len(order) -> Range(order)] /\ IsInjective(order)
  BY <1>1 DEF BufferOrdered, Range
<1>3. order \in Bijection(1..Len(order), Range(order))
  <2>1. order \in Injection(1..Len(order), Range(order))
    BY <1>2 DEF Injection, IsInjective
  <2>2. order \in Surjection(1..Len(order), Range(order))
    BY <1>1, <1>2 DEF Surjection, Range
  <2> QED BY <2>1, <2>2 DEF Bijection
<1>4. ExistsBijection(1..Len(order), Range(order))
  BY <1>3 DEF ExistsBijection
<1> QED BY <1>1, <1>4, FS_CountingElements DEF BufferOrdered

\* put makes its document the newest, makes room, and leaves what stays.
LEMMA PutIs ==
  ASSUME BufferOrdered, NEW d \in Doc, NEW c, Buffered(d, c)
  PROVE  /\ BufferOrdered' /\ d \in DOMAIN buffer' /\ buffer'[d] = c
         /\ \A e \in DOMAIN buffer' : e # d => e \in DOMAIN buffer /\ buffer'[e] = buffer[e]
<1>1. PICK others : others = Kept(order, Doc \ {d})
  OBVIOUS
<1>2. PICK crowd : crowd = IF Cardinality(DOMAIN buffer) + 1 > BufferSize
                           THEN Cardinality(DOMAIN buffer) + 1 - BufferSize ELSE 0
  OBVIOUS
<1>3. PICK gone : gone = IF crowd < Len(others) THEN crowd ELSE Len(others)
  OBVIOUS
<1>4. PICK kept : kept = SubSeq(others, gone + 1, Len(others))
  OBVIOUS
<1>5. /\ buffer' = [e \in ToSet(kept) \cup {d} |-> IF e = d THEN c ELSE buffer[e]]
      /\ order' = Append(kept, d)
  BY <1>1, <1>2, <1>3, <1>4 DEF Buffered, Put, Newer
<1>6. /\ others \in Seq(Doc) /\ Len(others) <= Len(order) /\ IsInjective(others)
      /\ Range(others) = DOMAIN buffer \cap (Doc \ {d})
  BY <1>1, KeptIs DEF BufferOrdered
<1>7. /\ Len(order) \in Nat /\ Len(others) \in Nat /\ Len(order) <= BufferSize /\ BufferSize \in Nat \ {0}
      /\ Cardinality(DOMAIN buffer) = Len(order)
  BY <1>6, OrderCounts, TextServiceAssumption DEF BufferOrdered
<1>8. crowd \in Nat /\ gone \in 0..Len(others) /\ Len(others) - gone + 1 <= BufferSize
  <2>1. crowd = IF Len(order) = BufferSize THEN 1 ELSE 0
    BY <1>2, <1>7
  <2> QED BY <1>3, <1>6, <1>7, <2>1
<1>9. PICK a : a = SubSeq(others, 1, gone)
  OBVIOUS
<1>10. /\ kept \in Seq(Doc) /\ Len(kept) = Len(others) - gone /\ IsInjective(kept)
       /\ Range(kept) \subseteq Range(others)
  <2>1. IsCut(others, gone, a, kept)
    BY <1>4, <1>9 DEF IsCut
  <2> QED BY <1>6, <1>8, <2>1, SplitSeq
<1>11. ToSet(kept) = Range(kept) /\ d \notin Range(kept)
  BY <1>6, <1>10 DEF ToSet, Range
<1>12. /\ order' \in Seq(Doc) /\ IsInjective(order') /\ Range(order') = Range(kept) \cup {d}
       /\ Len(order') = Len(kept) + 1
  BY <1>5, <1>10, <1>11, InjectiveAppend, RangeAppend
<1>13. DOMAIN buffer' = Range(kept) \cup {d}
  BY <1>5, <1>11
<1>14. \A e \in DOMAIN buffer' : buffer'[e] = IF e = d THEN c ELSE buffer[e]
  BY <1>5
<1>15. Len(order') <= BufferSize
  BY <1>8, <1>10, <1>12
<1>16. BufferOrdered'
  BY <1>12, <1>13, <1>15 DEF BufferOrdered
<1> QED BY <1>6, <1>10, <1>13, <1>14, <1>16

\* What is left after an eviction is as before.
LEMMA EvictIs ==
  ASSUME BufferOrdered, NEW ds, EvictFrom(ds)
  PROVE  /\ BufferOrdered'
         /\ \A e \in DOMAIN buffer' : e \in DOMAIN buffer /\ buffer'[e] = buffer[e]
<1>1. /\ buffer' = [e \in DOMAIN buffer \ ds |-> buffer[e]]
      /\ order' = Kept(order, Doc \ ds)
  BY DEF EvictFrom
<1>2. /\ order' \in Seq(Doc) /\ Len(order') <= Len(order) /\ IsInjective(order')
      /\ Range(order') = DOMAIN buffer \cap (Doc \ ds)
  BY <1>1, KeptIs DEF BufferOrdered
<1>3. DOMAIN buffer \subseteq Doc /\ Len(order) \in Nat /\ Len(order') \in Nat /\ BufferSize \in Nat
  BY <1>2, RangeOfSeq, TextServiceAssumption DEF BufferOrdered
<1>4. DOMAIN buffer' = DOMAIN buffer \ ds
  BY <1>1
<1>5. Range(order') = DOMAIN buffer'
  BY <1>2, <1>3, <1>4
<1>6. Len(order') <= BufferSize
  <2>1. Len(order) <= BufferSize
    BY DEF BufferOrdered
  <2> QED BY <1>2, <1>3, <2>1
<1>7. BufferOrdered'
  BY <1>2, <1>5, <1>6 DEF BufferOrdered
<1> QED BY <1>1, <1>7

\* A hit makes its document the newest.
LEMMA HitIs ==
  ASSUME BufferOrdered, NEW d \in Doc, ReadHit(d)
  PROVE  BufferOrdered' /\ buffer' = buffer
<1>1. PICK others : others = Kept(order, Doc \ {d})
  OBVIOUS
<1>2. order' = Append(others, d) /\ d \in DOMAIN buffer /\ buffer' = buffer
  BY <1>1 DEF ReadHit
<1>3. /\ others \in Seq(Doc) /\ IsInjective(others) /\ Range(others) = DOMAIN buffer \cap (Doc \ {d})
  BY <1>1, KeptIs DEF BufferOrdered
<1>4. DOMAIN buffer \subseteq Doc
  BY RangeOfSeq DEF BufferOrdered
<1>5. /\ order' \in Seq(Doc) /\ IsInjective(order') /\ Range(order') = Range(others) \cup {d}
  BY <1>2, <1>3, InjectiveAppend, RangeAppend
<1>6. Range(order') = DOMAIN buffer'
  BY <1>2, <1>3, <1>4, <1>5
<1>7. Len(order') = Len(order)
  <2>1. DOMAIN order' = 1..Len(order') /\ Len(order') \in Nat
    BY <1>5
  <2>2. order' \in Bijection(1..Len(order'), Range(order'))
    <3>1. order' \in [1..Len(order') -> Range(order')]
      BY <1>5, <2>1 DEF Range
    <3>2. order' \in Injection(1..Len(order'), Range(order'))
      BY <1>5, <3>1 DEF Injection, IsInjective
    <3>3. order' \in Surjection(1..Len(order'), Range(order'))
      BY <2>1, <3>1 DEF Surjection, Range
    <3> QED BY <3>2, <3>3 DEF Bijection
  <2>3. ExistsBijection(1..Len(order'), Range(order'))
    BY <2>2 DEF ExistsBijection
  <2>4. Cardinality(DOMAIN buffer) = Len(order')
    BY <1>2, <1>6, <2>1, <2>3, FS_CountingElements
  <2> QED BY <2>4, OrderCounts
<1> QED BY <1>2, <1>5, <1>6, <1>7 DEF BufferOrdered
-----------------------------------------------------------------------------
(***************************************************************************)
(* What is buffered of a document used by one operation at a time.         *)
(***************************************************************************)
ReadersTyped ==
  /\ reader \in [Reader -> [doc : Doc \cup {NoText}, at : {"idle", "read", "put"}, got : Call \cup {NoText}]]
  /\ \A r \in Reader : reader[r].at # "idle" => reader[r].doc \in Doc

\* No store of d is left in the queue by its call, and none runs beside another
\* or beside a read; what is buffered or about to be is the text, unless a
\* store was answered whose call has yet to buffer its own.
Alone(d) ==
  /\ \A b, c \in Storing(d) : b = c /\ call[c].kind = "async"
  /\ Storing(d) # {} => Reading(d) = {}
  /\ \A c \in Call : call[c].doc = d /\ InFlight(c) => pc[c] # "returned"
  /\ \A c \in Storing(d) : answer[c] = "ok" => text[d] = c
  /\ \A r \in Reading(d) : reader[r].at = "put" => reader[r].got = text[d]
  /\ d \in DOMAIN buffer => buffer[d] = text[d] \/ \E c \in Storing(d) : answer[c] = "ok"

BufferInv == BufferOrdered /\ ReadersTyped /\ \A d \in Doc \ raced : Alone(d)

\* Steps of readers and of the buffer.
LEMMA CoreAlone ==
  ASSUME NEW d \in Doc, Alone(d), UNCHANGED core,
         Reading(d)' # {} => Storing(d) = {},
         \A r \in Reading(d)' : reader'[r].at = "put" => reader'[r].got = text[d],
         d \in DOMAIN buffer' => \/ buffer'[d] = text[d]
                                 \/ d \in DOMAIN buffer /\ buffer'[d] = buffer[d]
  PROVE  Alone(d)'
<1>1. /\ text' = text /\ queue' = queue /\ batch' = batch /\ pc' = pc
      /\ call' = call /\ answer' = answer
  BY DEF core
<1>2. Storing(d)' = Storing(d)
  BY <1>1 DEF Storing
<1>3. \A c \in Call : InFlight(c)' <=> InFlight(c)
  BY <1>1 DEF InFlight
<1> QED BY <1>1, <1>2, <1>3 DEF Alone

\* Steps of calls, as far as they leave those for d where they count.
LEMMA CallsAlone ==
  ASSUME NEW d \in Doc, Alone(d), call' = call, reader' = reader, text'[d] = text[d],
         \A x \in Call : call[x].doc = d =>
           /\ pc'[x] \in {"idle", "returned"} <=> pc[x] \in {"idle", "returned"}
           /\ answer'[x] = answer[x]
           /\ InFlight(x)' => pc'[x] # "returned",
         d \in DOMAIN buffer' => d \in DOMAIN buffer /\ buffer'[d] = buffer[d]
  PROVE  Alone(d)'
<1>1. Storing(d)' = Storing(d)
  BY DEF Storing
<1>2. Reading(d)' = Reading(d)
  BY DEF Reading
<1>3. \A x \in Storing(d) : answer'[x] = answer[x] /\ x \in Call
  BY DEF Storing
<1> QED BY <1>1, <1>2, <1>3 DEF Alone

LEMMA ReaderSteps ==
  ASSUME BufferInv,
         \/ \E d \in Doc : ReadHit(d)
         \/ \E r \in Reader, d \in Doc : StartRead(r, d)
         \/ \E r \in Reader : Read(r) \/ ReadTimesOut(r) \/ PutRead(r)
         \/ \E ds \in SUBSET Doc : Expire(ds)
         \/ Shutdown \/ StopTask \/ Abort \/ Clear \/ StartTask
         \/ UNCHANGED vars,
         ServiceInv
  PROVE  BufferInv'
<1>1. UNCHANGED core
  BY CoreSteps
<1>2. BufferOrdered /\ ReadersTyped /\ \A d \in Doc \ raced : Alone(d)
  BY DEF BufferInv
<1>3. ASSUME BufferOrdered', ReadersTyped', raced' = raced, reader' = reader,
             \A e \in DOMAIN buffer' : e \in DOMAIN buffer /\ buffer'[e] = buffer[e]
      PROVE  BufferInv'
  <2>1. ASSUME NEW d \in Doc \ raced PROVE Alone(d)'
    <3>1. Alone(d) /\ Reading(d)' = Reading(d)
      BY <1>2, <1>3 DEF Reading
    <3>2. /\ Reading(d)' # {} => Storing(d) = {}
          /\ \A r \in Reading(d)' : reader'[r].at = "put" => reader'[r].got = text[d]
      BY <1>3, <3>1 DEF Alone
    <3> QED BY <1>1, <1>3, <3>1, <3>2, CoreAlone
  <2> QED BY <1>3, <2>1 DEF BufferInv
<1>4. ASSUME UNCHANGED <<buffer, order, reader, raced>> PROVE BufferInv'
  <2>1. BufferOrdered' /\ ReadersTyped'
    BY <1>2, <1>4 DEF BufferOrdered, ReadersTyped
  <2> QED BY <1>3, <1>4, <2>1
<1>5. ASSUME NEW d \in Doc, ReadHit(d) PROVE BufferInv'
  <2>1. BufferOrdered' /\ buffer' = buffer
    BY <1>2, <1>5, HitIs
  <2>2. raced' = raced /\ reader' = reader
    BY <1>5 DEF ReadHit
  <2>3. ReadersTyped'
    BY <1>2, <2>2 DEF ReadersTyped
  <2> QED BY <1>3, <2>1, <2>2, <2>3
<1>6. ASSUME NEW ds, EvictFrom(ds), UNCHANGED <<reader, raced>> PROVE BufferInv'
  <2>1. /\ BufferOrdered'
        /\ \A e \in DOMAIN buffer' : e \in DOMAIN buffer /\ buffer'[e] = buffer[e]
    BY <1>2, <1>6, EvictIs
  <2>2. ReadersTyped'
    BY <1>2, <1>6 DEF ReadersTyped
  <2> QED BY <1>3, <1>6, <2>1, <2>2
<1>7. ASSUME NEW r \in Reader, NEW d \in Doc, StartRead(r, d) PROVE BufferInv'
  <2>1. /\ reader[r].at = "idle" /\ reader' = [reader EXCEPT ![r] = [doc |-> d, at |-> "read", got |-> NoText]]
        /\ raced' = (IF Storing(d) # {} THEN raced \cup {d} ELSE raced)
        /\ buffer' = buffer /\ order' = order
    BY <1>7 DEF StartRead, ahead
  <2>2. \A q \in Reader : reader'[q] = IF q = r THEN [doc |-> d, at |-> "read", got |-> NoText] ELSE reader[q]
    BY <1>2, <2>1 DEF ReadersTyped
  <2>3. BufferOrdered' /\ ReadersTyped'
    BY <1>2, <2>1, <2>2 DEF BufferOrdered, ReadersTyped
  <2>4. ASSUME NEW e \in Doc \ raced' PROVE Alone(e)'
    <3>1. Alone(e) /\ (e = d => Storing(e) = {})
      BY <1>2, <2>1
    <3>2. \A q \in Reading(e)' : (q = r /\ e = d) \/ (q \in Reading(e) /\ reader'[q] = reader[q])
      BY <2>2 DEF Reading
    <3>3. reader'[r].at # "put"
      BY <2>2
    <3>4. /\ Reading(e)' # {} => Storing(e) = {}
          /\ \A q \in Reading(e)' : reader'[q].at = "put" => reader'[q].got = text[e]
      BY <3>1, <3>2, <3>3 DEF Alone
    <3> QED BY <1>1, <2>1, <3>1, <3>4, CoreAlone
  <2> QED BY <2>3, <2>4 DEF BufferInv
<1>8. ASSUME NEW r \in Reader, Read(r) PROVE BufferInv'
  <2>1. PICK d : d = reader[r].doc
    OBVIOUS
  <2>2. /\ reader[r].at = "read" /\ raced' = raced /\ buffer' = buffer /\ order' = order
        /\ reader' = [reader EXCEPT ![r] = IF text[d] = NoText THEN [doc |-> NoText, at |-> "idle", got |-> NoText]
                                           ELSE [doc |-> d, at |-> "put", got |-> text[d]]]
    BY <1>8, <2>1 DEF Read, ahead
  <2>3. d \in Doc /\ text[d] \in Call \cup {NoText}
    BY <1>2, <2>1, <2>2 DEF ReadersTyped, ServiceInv, CallsTyped
  <2>4. \A q \in Reader : q # r => reader'[q] = reader[q]
    BY <1>2, <2>2 DEF ReadersTyped
  <2>5. \/ reader'[r] = [doc |-> NoText, at |-> "idle", got |-> NoText]
        \/ reader'[r] = [doc |-> d, at |-> "put", got |-> text[d]]
    BY <1>2, <2>2 DEF ReadersTyped
  <2>6. BufferOrdered' /\ ReadersTyped'
    <3>1. DOMAIN reader' = Reader /\ reader' = [q \in Reader |-> reader'[q]]
      BY <1>2, <2>2 DEF ReadersTyped
    <3>2. \A q \in Reader :
            /\ reader'[q] \in [doc : Doc \cup {NoText}, at : {"idle", "read", "put"}, got : Call \cup {NoText}]
            /\ reader'[q].at # "idle" => reader'[q].doc \in Doc
      BY <1>2, <2>3, <2>4, <2>5 DEF ReadersTyped
    <3> QED BY <1>2, <2>2, <3>1, <3>2 DEF BufferOrdered, ReadersTyped
  <2>7. ASSUME NEW e \in Doc \ raced' PROVE Alone(e)'
    <3>1. Alone(e)
      BY <1>2, <2>2
    <3>2. \A q \in Reading(e)' : q \in Reading(e) /\ (q # r => reader'[q] = reader[q])
      BY <2>1, <2>2, <2>4, <2>5 DEF Reading
    <3>3. r \in Reading(e)' /\ reader'[r].at = "put" => reader'[r].got = text[e]
      BY <2>5 DEF Reading
    <3>4. /\ Reading(e)' # {} => Storing(e) = {}
          /\ \A q \in Reading(e)' : reader'[q].at = "put" => reader'[q].got = text[e]
      BY <3>1, <3>2, <3>3 DEF Alone
    <3> QED BY <1>1, <2>2, <3>1, <3>4, CoreAlone
  <2> QED BY <2>6, <2>7 DEF BufferInv
<1>9. ASSUME NEW r \in Reader, ReadTimesOut(r) \/ PutRead(r) PROVE BufferInv'
  <2>1. PICK d, c : d = reader[r].doc /\ c = reader[r].got
    OBVIOUS
  <2>2. /\ reader[r].at \in {"read", "put"} /\ raced' = raced
        /\ reader' = [reader EXCEPT ![r] = [doc |-> NoText, at |-> "idle", got |-> NoText]]
        /\ \/ buffer' = buffer /\ order' = order
           \/ reader[r].at = "put" /\ Buffered(d, c)
    BY <1>9, <2>1 DEF ReadTimesOut, PutRead, Done, ahead
  <2>3. d \in Doc /\ r \in Reading(d)
    BY <1>2, <2>1, <2>2 DEF ReadersTyped, Reading
  <2>4. \A q \in Reader : reader'[q] = IF q = r THEN [doc |-> NoText, at |-> "idle", got |-> NoText] ELSE reader[q]
    BY <1>2, <2>2 DEF ReadersTyped
  <2>5. /\ BufferOrdered'
        /\ \A e \in DOMAIN buffer' : \/ e \in DOMAIN buffer /\ buffer'[e] = buffer[e]
                                     \/ e = d /\ buffer'[e] = c /\ reader[r].at = "put"
    <3>1. CASE buffer' = buffer /\ order' = order
      BY <1>2, <3>1 DEF BufferOrdered
    <3>2. CASE reader[r].at = "put" /\ Buffered(d, c)
      BY <1>2, <2>3, <3>2, PutIs
    <3> QED BY <2>2, <3>1, <3>2
  <2>6. ReadersTyped'
    BY <1>2, <2>2, <2>4 DEF ReadersTyped
  <2>7. ASSUME NEW e \in Doc \ raced' PROVE Alone(e)'
    <3>1. Alone(e)
      BY <1>2, <2>2
    <3>2. \A q \in Reading(e)' : q \in Reading(e) /\ reader'[q] = reader[q]
      BY <2>4 DEF Reading
    <3>3. /\ Reading(e)' # {} => Storing(e) = {}
          /\ \A q \in Reading(e)' : reader'[q].at = "put" => reader'[q].got = text[e]
      BY <3>1, <3>2 DEF Alone
    <3>4. e = d /\ reader[r].at = "put" => c = text[e]
      BY <2>1, <2>3, <3>1 DEF Alone
    <3> QED BY <1>1, <2>5, <3>1, <3>3, <3>4, CoreAlone
  <2> QED BY <2>5, <2>6, <2>7 DEF BufferInv
<1>10. ASSUME NEW ds \in SUBSET Doc, Expire(ds) PROVE BufferInv'
  BY <1>6, <1>10 DEF Expire
<1>11. CASE Clear
  BY <1>4, <1>6, <1>11 DEF Clear, ahead
<1>12. CASE Shutdown \/ StopTask \/ Abort \/ StartTask
  BY <1>4, <1>12 DEF Shutdown, StopTask, Abort, StartTask, ahead
<1>13. CASE UNCHANGED vars
  BY <1>4, <1>13 DEF vars, ahead
<1> QED BY <1>5, <1>7, <1>8, <1>9, <1>10, <1>11, <1>12, <1>13

LEMMA BeginAlone ==
  ASSUME BufferInv, ServiceInv, NEW c \in Call, NEW d \in Doc, NEW k \in Kinds, Begin(c, d, k)
  PROVE  BufferInv'
<1>1. /\ pc[c] = "idle" /\ pc' = [pc EXCEPT ![c] = "acquire"]
      /\ call' = [call EXCEPT ![c] = [doc |-> d, kind |-> k]]
      /\ raced' = (IF k # "async" \/ Storing(d) # {} \/ Reading(d) # {} THEN raced \cup {d} ELSE raced)
      /\ UNCHANGED <<text, queue, batch, answer, buffer, order, reader>>
  BY DEF Begin, Goto, storage, ahead
<1>2. /\ \A x \in Call : pc'[x] = IF x = c THEN "acquire" ELSE pc[x]
      /\ \A x \in Call \ {c} : call'[x] = call[x]
      /\ call'[c] = [doc |-> d, kind |-> k]
  BY <1>1 DEF ServiceInv, CallsTyped
<1>3. \A x \in Call : InFlight(x)' <=> InFlight(x)
  BY <1>1 DEF InFlight
<1>4. answer[c] = "none" /\ ~InFlight(c)
  BY <1>1 DEF ServiceInv, StageInv
<1>5. BufferOrdered' /\ ReadersTyped'
  BY <1>1 DEF BufferInv, BufferOrdered, ReadersTyped
<1>6. ASSUME NEW e \in Doc \ raced' PROVE Alone(e)'
  <2>1. Alone(e) /\ Reading(e)' = Reading(e)
    BY <1>1 DEF BufferInv, Reading
  <2>2. CASE e # d
    <3>1. Storing(e)' = Storing(e)
      <4>1. \A x \in Call : x \in Storing(e)' <=> x \in Storing(e)
        BY <1>1, <1>2, <2>2 DEF Storing
      <4> QED BY <4>1 DEF Storing
    <3>2. \A x \in Storing(e) : call'[x] = call[x]
      BY <1>1, <1>2 DEF Storing
    <3>3. \A x \in Call : call'[x].doc = e /\ InFlight(x)' => pc'[x] # "returned"
      BY <1>2, <1>3, <2>1, <2>2 DEF Alone
    <3> QED BY <1>1, <2>1, <3>1, <3>2, <3>3 DEF Alone
  <2>3. CASE e = d
    <3>1. k = "async" /\ Storing(e) = {} /\ Reading(e) = {}
      BY <1>1, <2>3
    <3>2. Storing(e)' = {c}
      <4>1. \A x \in Call : x \in Storing(e)' <=> x = c
        BY <1>2, <2>3, <3>1 DEF Storing
      <4> QED BY <4>1 DEF Storing
    <3>3. call'[c].kind = "async" /\ answer'[c] = "none"
      BY <1>1, <1>2, <1>4, <3>1
    <3>4. \A x \in Call : call'[x].doc = e /\ InFlight(x)' => pc'[x] # "returned"
      BY <1>2, <1>3, <1>4, <2>1 DEF Alone
    <3>5. e \in DOMAIN buffer' => buffer'[e] = text'[e]
      BY <1>1, <2>1, <3>1 DEF Alone
    <3> QED BY <1>1, <2>1, <3>1, <3>2, <3>3, <3>4, <3>5 DEF Alone
  <2> QED BY <2>2, <2>3
<1> QED BY <1>5, <1>6 DEF BufferInv

\* A queued store answers nobody yet; a call that has its answer queues none.
LEMMA AnsweredNotInFlight ==
  ASSUME ServiceInv, NEW c \in Call, InFlight(c)
  PROVE  answer[c] = "none" /\ pc[c] \notin {"idle", "acquire"} /\ call[c].doc \in Doc
BY DEF ServiceInv, StageInv, CallsTyped

\* Steps that change nothing a document is seen by but where calls stand.
LEMMA PlacesAlone ==
  ASSUME BufferInv, raced \subseteq raced', UNCHANGED <<text, answer, call, buffer, order, reader>>,
         \A x \in Call : call[x].doc \notin raced' =>
           /\ pc'[x] \in {"idle", "returned"} <=> pc[x] \in {"idle", "returned"}
           /\ InFlight(x)' => pc'[x] # "returned"
  PROVE  BufferInv'
<1>1. BufferOrdered' /\ ReadersTyped'
  BY DEF BufferInv, BufferOrdered, ReadersTyped
<1>2. ASSUME NEW d \in Doc \ raced' PROVE Alone(d)'
  <2>1. Alone(d)
    BY DEF BufferInv
  <2> QED BY <2>1, CallsAlone
<1> QED BY <1>1, <1>2 DEF BufferInv

LEMMA QueueSteps ==
  ASSUME BufferInv, ServiceInv,
         \/ \E c \in Call : Enqueue(c) \/ CheckFull(c) \/ TimeOut(c)
         \/ \E w \in Worker : Take(w)
  PROVE  BufferInv'
<1>1. \A x \in Call : call[x].doc \in Doc \ raced /\ InFlight(x) => pc[x] # "returned"
  BY DEF BufferInv, Alone
<1>2. \A x \in Call : InFlight(x) => call[x].doc \in Doc
  BY AnsweredNotInFlight
<1>3. queue \in Seq(Call) /\ batch \in [Worker -> Seq(Call)] /\ DOMAIN pc = Call
  BY DEF ServiceInv, CallsTyped
<1>4. ASSUME NEW c \in Call, Enqueue(c) PROVE BufferInv'
  <2>1. /\ pc[c] = "acquire" /\ pc' = [pc EXCEPT ![c] = "queued"] /\ queue' = Append(queue, c)
        /\ UNCHANGED <<text, batch, answer, call, buffer, order, reader, raced>>
    BY <1>4 DEF Enqueue, Goto, ahead
  <2>2. \A x \in Call : pc'[x] = IF x = c THEN "queued" ELSE pc[x]
    BY <1>3, <2>1
  <2>3. \A x \in Call : InFlight(x)' => x = c \/ InFlight(x)
    <3>1. Range(queue') = Range(queue) \cup {c}
      BY <1>3, <2>1, RangeAppend
    <3> QED BY <2>1, <3>1 DEF InFlight
  <2> QED BY <1>1, <1>2, <2>1, <2>2, <2>3, PlacesAlone
<1>5. ASSUME NEW c \in Call, CheckFull(c) PROVE BufferInv'
  <2>1. /\ pc[c] = "queued" /\ pc' = [pc EXCEPT ![c] = IF Len(queue) >= MaxBatch THEN "take" ELSE "wait"]
        /\ UNCHANGED <<text, queue, batch, answer, call, buffer, order, reader, raced>>
    BY <1>5 DEF CheckFull, Goto, ahead, storage
  <2>2. \A x \in Call : x # c => pc'[x] = pc[x]
    BY <1>3, <2>1
  <2>3. pc'[c] \in {"take", "wait"}
    BY <1>3, <2>1
  <2>4. \A x \in Call : InFlight(x)' <=> InFlight(x)
    BY <2>1 DEF InFlight
  <2> QED BY <1>1, <1>2, <2>1, <2>2, <2>3, <2>4, PlacesAlone
<1>6. ASSUME NEW c \in Call, TimeOut(c) PROVE BufferInv'
  <2>1. /\ pc' = [pc EXCEPT ![c] = "returned"] /\ raced' = raced \cup {call[c].doc}
        /\ UNCHANGED <<text, queue, batch, answer, call, buffer, order, reader>>
    BY <1>6 DEF TimeOut, Goto, ahead, storage
  <2>2. \A x \in Call : x # c => pc'[x] = pc[x]
    BY <1>3, <2>1
  <2>3. \A x \in Call : InFlight(x)' <=> InFlight(x)
    BY <2>1 DEF InFlight
  <2>4. \A x \in Call : call[x].doc \notin raced' => x # c /\ call[x].doc \notin raced
    BY <2>1
  <2>5. \A x \in Call : call[x].doc \notin raced' =>
          /\ pc'[x] \in {"idle", "returned"} <=> pc[x] \in {"idle", "returned"}
          /\ InFlight(x)' => pc'[x] # "returned"
    BY <1>1, <1>2, <2>2, <2>3, <2>4
  <2> QED BY <2>1, <2>5, PlacesAlone
<1>7. ASSUME NEW w \in Worker, Take(w) PROVE BufferInv'
  <2>1. PICK n : n = IF Len(queue) < MaxBatch THEN Len(queue) ELSE MaxBatch
    OBVIOUS
  <2>2. PICK a, b : a = SubSeq(queue, 1, n) /\ b = SubSeq(queue, n + 1, Len(queue))
    OBVIOUS
  <2>3. /\ w \in Call => pc[w] = "take"
        /\ batch' = [batch EXCEPT ![w] = a] /\ queue' = b
        /\ IF w \in Call THEN pc' = [pc EXCEPT ![w] = IF n = 0 THEN "wait" ELSE "store"] ELSE pc' = pc
        /\ UNCHANGED <<text, answer, call, buffer, order, reader, raced>>
    <3>1. w \in Call => w # Background /\ w # Controller
      BY TextServiceAssumption
    <3> QED BY <1>7, <2>1, <2>2, <3>1 DEF Take, MayTake, Advance, Goto, Remaining, ahead
  <2>4. \A x \in Call : x # w => pc'[x] = pc[x]
    BY <1>3, <2>3
  <2>5. w \in Call => pc'[w] \in {"wait", "store"}
    BY <1>3, <2>3
  <2>6. \A x \in Call : InFlight(x)' => InFlight(x)
    <3>1. n \in 0..Len(queue)
      BY <1>3, <2>1, TextServiceAssumption
    <3>2. Range(a) \subseteq Range(queue) /\ Range(b) \subseteq Range(queue)
      <4>1. IsCut(queue, n, a, b)
        BY <2>2 DEF IsCut
      <4> QED BY <1>3, <3>1, <4>1, SplitSeq
    <3>3. \A v \in Worker : batch'[v] = IF v = w THEN a ELSE batch[v]
      BY <1>3, <2>3
    <3> QED BY <2>3, <3>2, <3>3 DEF InFlight
  <2>7. \A x \in Call : call[x].doc \notin raced' =>
          /\ pc'[x] \in {"idle", "returned"} <=> pc[x] \in {"idle", "returned"}
          /\ InFlight(x)' => pc'[x] # "returned"
    <3> SUFFICES ASSUME NEW x \in Call, call[x].doc \notin raced
                 PROVE  /\ pc'[x] \in {"idle", "returned"} <=> pc[x] \in {"idle", "returned"}
                        /\ InFlight(x)' => pc'[x] # "returned"
      BY <2>3
    <3>1. CASE x = w
      BY <2>3, <2>5, <3>1
    <3>2. CASE x # w
      BY <1>1, <1>2, <2>4, <2>6, <3>2
    <3> QED BY <3>1, <3>2
  <2> QED BY <2>3, <2>7, PlacesAlone
<1> QED BY <1>4, <1>5, <1>6, <1>7

\* The call of a text that is stored waits for it: it is the only one for its
\* document, and nobody reads it.
LEMMA StoreNextAlone ==
  ASSUME BufferInv, ServiceInv, NEW w \in Worker, StoreNext(w)
  PROVE  BufferInv'
<1>1. PICK c, rest :
        /\ batch[w] # <<>> /\ c = Head(batch[w]) /\ rest = Tail(batch[w])
        /\ \/ text' = [text EXCEPT ![call[c].doc] = c] /\ answer' = [answer EXCEPT ![c] = "ok"]
           \/ text' = text /\ answer' = [answer EXCEPT ![c] = "error"]
        /\ batch' = [batch EXCEPT ![w] = rest]
        /\ IF rest = <<>> /\ w \in Call THEN pc' = [pc EXCEPT ![w] = "wait"] ELSE pc' = pc
        /\ UNCHANGED <<queue, call, buffer, order, reader, raced>>
  BY DEF StoreNext, Advance, Goto, ahead
<1>2. /\ batch \in [Worker -> Seq(Call)] /\ DOMAIN pc = Call /\ text \in [Doc -> Call \cup {NoText}]
      /\ DOMAIN answer = Call
  BY DEF ServiceInv, CallsTyped
<1>3. c \in Call /\ InFlight(c) /\ Range(rest) \subseteq Range(batch[w])
  <2>1. batch[w] \in Seq(Call)
    BY <1>2
  <2> QED BY <1>1, <2>1, RangeHeadTail DEF InFlight
<1>4. answer[c] = "none" /\ pc[c] \notin {"idle", "acquire"} /\ call[c].doc \in Doc
  BY <1>3, AnsweredNotInFlight
<1>5. \A x \in Call : InFlight(x)' => InFlight(x)
  <2>1. \A v \in Worker : batch'[v] = IF v = w THEN rest ELSE batch[v]
    BY <1>1, <1>2
  <2> QED BY <1>1, <1>3, <2>1 DEF InFlight
<1>6. w \in Call => pc[w] = "store"
  BY <1>1 DEF ServiceInv, StageInv
<1>7. \A x \in Call : \/ pc'[x] = pc[x]
                      \/ pc[x] = "store" /\ pc'[x] = "wait"
  BY <1>1, <1>2, <1>6
<1>8. BufferOrdered' /\ ReadersTyped'
  BY <1>1 DEF BufferInv, BufferOrdered, ReadersTyped
<1>9. ASSUME NEW d \in Doc \ raced' PROVE Alone(d)'
  <2>1. Alone(d)
    BY <1>1 DEF BufferInv
  <2>2. \A x \in Call : call[x].doc = d /\ InFlight(x)' => pc'[x] # "returned"
    BY <1>5, <1>7, <2>1 DEF Alone
  <2>3. \A x \in Call : pc'[x] \in {"idle", "returned"} <=> pc[x] \in {"idle", "returned"}
    BY <1>7
  <2>4. CASE d # call[c].doc
    <3>1. text'[d] = text[d]
      BY <1>1, <1>2, <2>4
    <3>2. \A x \in Call : call[x].doc = d => answer'[x] = answer[x]
      BY <1>1, <1>2, <2>4
    <3> QED BY <1>1, <2>1, <2>2, <2>3, <3>1, <3>2, CallsAlone
  <2>5. CASE d = call[c].doc
    <3>1. c \in Storing(d)
      BY <1>3, <1>4, <2>1, <2>5 DEF Alone, Storing
    <3>2. Storing(d)' = Storing(d) /\ Reading(d)' = Reading(d)
      BY <1>1, <2>3 DEF Storing, Reading
    <3>3. /\ \A x \in Storing(d) : x = c
          /\ Reading(d) = {} /\ call[c].kind = "async"
      BY <2>1, <3>1 DEF Alone
    <3>4. \/ text'[d] = c /\ answer'[c] = "ok"
          \/ text'[d] = text[d] /\ answer'[c] = "error"
      BY <1>1, <1>2, <1>3, <2>5
    <3>5. d \in DOMAIN buffer' => buffer'[d] = text'[d] \/ \E x \in Storing(d)' : answer'[x] = "ok"
      <4>1. d \in DOMAIN buffer => buffer[d] = text[d]
        BY <1>4, <2>1, <3>3 DEF Alone
      <4> QED BY <1>1, <3>1, <3>2, <3>4, <4>1
    <3>6. \A x \in Storing(d)' : answer'[x] = "ok" => text'[d] = x
      BY <3>2, <3>3, <3>4
    <3>7. /\ \A x, y \in Storing(d)' : x = y /\ call'[y].kind = "async"
          /\ Reading(d)' = {}
      BY <1>1, <3>2, <3>3
    <3>8. \A x \in Call : call'[x].doc = d /\ InFlight(x)' => pc'[x] # "returned"
      BY <1>1, <2>2
    <3> QED BY <3>5, <3>6, <3>7, <3>8 DEF Alone
  <2> QED BY <2>4, <2>5
<1> QED BY <1>8, <1>9 DEF BufferInv

\* A call returns: its document's text is buffered if it stored it.
LEMMA ReturnSteps ==
  ASSUME BufferInv, ServiceInv, NEW c \in Call,
         StoreImmediate(c) \/ Receive(c) \/ PutStored(c)
  PROVE  BufferInv'
<1>1. PICK d : d = call[c].doc
  OBVIOUS
<1>2. /\ pc[c] \in {"acquire", "wait", "put"} /\ d \in Doc
      /\ UNCHANGED <<queue, batch, answer, call, reader, raced>>
  <2>1. /\ pc[c] \in {"acquire", "wait", "put"}
        /\ UNCHANGED <<queue, batch, answer, call, reader, raced>>
    BY DEF StoreImmediate, Receive, PutStored, storage
  <2> QED BY <1>1, <2>1 DEF ServiceInv, CallsTyped
<1>3. /\ pc' = [pc EXCEPT ![c] = "returned"] \/ (pc' = [pc EXCEPT ![c] = "put"] /\ Receive(c))
  BY DEF StoreImmediate, Receive, PutStored, Goto
<1>4. \A x \in Call : (x # c => pc'[x] = pc[x]) /\ (InFlight(x)' <=> InFlight(x))
  BY <1>2, <1>3 DEF ServiceInv, CallsTyped, InFlight
<1>5. /\ BufferOrdered'
      /\ \A e \in DOMAIN buffer' : \/ e \in DOMAIN buffer /\ buffer'[e] = buffer[e]
                                   \/ e = d /\ buffer'[e] = c /\ PutStored(c)
  <2>1. BufferOrdered
    BY DEF BufferInv
  <2>2. CASE PutStored(c)
    BY <1>1, <1>2, <2>1, <2>2, PutIs DEF PutStored
  <2>3. CASE StoreImmediate(c) \/ Receive(c)
    <3>1. buffer' = buffer /\ order' = order
      BY <2>3 DEF StoreImmediate, Receive, ahead
    <3> QED BY <2>1, <3>1 DEF BufferOrdered
  <2> QED BY <2>2, <2>3
<1>6. ReadersTyped'
  BY <1>2 DEF BufferInv, ReadersTyped
<1>7. ASSUME NEW e \in Doc \ raced' PROVE Alone(e)'
  <2>1. Alone(e)
    BY <1>2 DEF BufferInv
  <2>2. CASE e # d
    <3>1. text'[e] = text[e]
      BY <1>1, <2>2 DEF StoreImmediate, Receive, PutStored, storage, ServiceInv, CallsTyped
    <3>2. \A x \in Call : call[x].doc = e =>
            /\ pc'[x] \in {"idle", "returned"} <=> pc[x] \in {"idle", "returned"}
            /\ answer'[x] = answer[x] /\ (InFlight(x)' => pc'[x] # "returned")
      BY <1>1, <1>2, <1>4, <2>1, <2>2 DEF Alone
    <3>3. e \in DOMAIN buffer' => e \in DOMAIN buffer /\ buffer'[e] = buffer[e]
      BY <1>5, <2>2
    <3> QED BY <1>2, <2>1, <3>1, <3>2, <3>3, CallsAlone
  <2>3. CASE e = d
    <3>1. c \in Storing(d)
      BY <1>1, <1>2 DEF Storing
    <3>2. /\ \A x \in Storing(d) : x = c
          /\ Reading(d) = {} /\ call[c].kind = "async"
      BY <2>1, <2>3, <3>1 DEF Alone
    <3>3. CASE Receive(c) /\ answer[c] = "ok"
      <4>1. /\ pc[c] = "wait" /\ pc' = [pc EXCEPT ![c] = "put"] /\ text' = text
            /\ buffer' = buffer
        BY <3>2, <3>3 DEF Receive, Goto, storage, ahead
      <4>2. pc'[c] = "put"
        BY <4>1 DEF ServiceInv, CallsTyped
      <4>3. \A x \in Call : call[x].doc = d =>
              /\ pc'[x] \in {"idle", "returned"} <=> pc[x] \in {"idle", "returned"}
              /\ answer'[x] = answer[x] /\ (InFlight(x)' => pc'[x] # "returned")
        BY <1>2, <1>4, <2>1, <2>3, <4>1, <4>2 DEF Alone
      <4> QED BY <1>2, <2>1, <2>3, <4>1, <4>3, CallsAlone
    <3>4. CASE PutStored(c) \/ (Receive(c) /\ answer[c] # "ok")
      <4>1. /\ pc' = [pc EXCEPT ![c] = "returned"] /\ text' = text
        BY <3>4 DEF PutStored, Receive, Goto, storage
      <4>2. pc'[c] = "returned" /\ answer[c] # "none"
        <5>1. pc'[c] = "returned"
          BY <4>1 DEF ServiceInv, CallsTyped
        <5>2. answer[c] # "none"
          BY <3>4 DEF PutStored, Receive, ServiceInv, StageInv
        <5> QED BY <5>1, <5>2
      <4>3. ~InFlight(c)
        BY <4>2, AnsweredNotInFlight
      <4>4. Storing(d)' = {}
        <5>1. \A x \in Call : x \in Storing(d)' => x \in Storing(d) /\ x # c
          BY <1>2, <1>4, <4>2 DEF Storing
        <5> QED BY <3>2, <5>1 DEF Storing
      <4>5. Reading(d)' = {}
        BY <1>2, <3>2 DEF Reading
      <4>6. \A x \in Call : call'[x].doc = d /\ InFlight(x)' => pc'[x] # "returned"
        BY <1>2, <1>4, <2>1, <2>3, <4>3 DEF Alone
      <4>7. d \in DOMAIN buffer' => buffer'[d] = text'[d]
        <5>1. CASE PutStored(c)
          <6>1. answer[c] = "ok"
            BY <5>1 DEF PutStored, ServiceInv, StageInv
          <6>2. text[d] = c
            BY <2>1, <2>3, <3>1, <6>1 DEF Alone
          <6>3. buffer'[d] = c
            <7>1. BufferOrdered /\ Buffered(d, c)
              BY <1>1, <5>1 DEF BufferInv, PutStored
            <7> QED BY <1>2, <7>1, PutIs
          <6> QED BY <4>1, <6>2, <6>3
        <5>2. CASE Receive(c) /\ answer[c] # "ok"
          <6>1. buffer' = buffer
            BY <5>2 DEF Receive, ahead
          <6>2. d \in DOMAIN buffer => buffer[d] = text[d]
            BY <2>1, <2>3, <3>2, <5>2 DEF Alone
          <6> QED BY <4>1, <6>1, <6>2
        <5> QED BY <3>4, <5>1, <5>2
      <4> QED BY <2>3, <4>4, <4>5, <4>6, <4>7 DEF Alone
    <3>5. ~StoreImmediate(c)
      BY <3>2 DEF StoreImmediate
    <3> QED BY <3>3, <3>4, <3>5
  <2> QED BY <2>2, <2>3
<1> QED BY <1>5, <1>6, <1>7 DEF BufferInv

LEMMA BufferInit ==
  ASSUME Init
  PROVE  BufferInv
<1> USE DEF Init
<1>1. order \in Seq(Doc) /\ Len(order) = 0 /\ DOMAIN order = {}
  OBVIOUS
<1>2. BufferOrdered
  BY <1>1, TextServiceAssumption DEF BufferOrdered, Range, IsInjective
<1>3. ReadersTyped
  BY DEF ReadersTyped
<1>4. ASSUME NEW d \in Doc PROVE Alone(d)
  <2>1. Storing(d) = {} /\ Reading(d) = {}
    BY DEF Storing, Reading
  <2>2. \A c \in Call : pc[c] # "returned"
    OBVIOUS
  <2> QED BY <2>1, <2>2 DEF Alone
<1> QED BY <1>2, <1>3, <1>4 DEF BufferInv

LEMMA BufferStep ==
  ASSUME BufferInv, ServiceInv, [Next]_vars
  PROVE  BufferInv'
<1>1. ASSUME NEW c \in Call, Enqueue(c) \/ CheckFull(c) \/ TimeOut(c) PROVE BufferInv'
  BY <1>1, QueueSteps
<1>2. ASSUME NEW c \in Call, StoreImmediate(c) \/ Receive(c) \/ PutStored(c) PROVE BufferInv'
  BY <1>2, ReturnSteps
<1>3. ASSUME NEW w \in Worker, Take(w) \/ StoreNext(w) PROVE BufferInv'
  BY <1>3, QueueSteps, StoreNextAlone
<1>4. ASSUME NEW c \in Call, NEW d \in Doc, NEW k \in Kinds, Begin(c, d, k) PROVE BufferInv'
  BY <1>4, BeginAlone
<1>5. CASE \/ \E d \in Doc : ReadHit(d)
           \/ \E r \in Reader, d \in Doc : StartRead(r, d)
           \/ \E r \in Reader : Read(r) \/ ReadTimesOut(r) \/ PutRead(r)
           \/ \E ds \in SUBSET Doc : Expire(ds)
           \/ Shutdown \/ StopTask \/ Abort \/ Clear \/ StartTask
           \/ UNCHANGED vars
  BY <1>5, ReaderSteps
<1> QED BY <1>1, <1>2, <1>3, <1>4, <1>5 DEF Next, Progress
-----------------------------------------------------------------------------
(***************************************************************************)
(* The theorems.                                                           *)
(***************************************************************************)
LEMMA ServiceInit ==
  ASSUME Init
  PROVE  ServiceInv /\ CacheInv
<1> USE DEF Init
<1>1. NoText \notin Call /\ \A s \in Seq(Call) : s = <<>> => Range(s) = {} /\ IsInjective(s)
  BY TextServiceAssumption DEF Range, IsInjective
<1>2. <<>> \in Seq(Call)
  OBVIOUS
<1>3. CallsTyped
  BY <1>2 DEF CallsTyped
<1>4. \A c \in Call : ~InFlight(c) /\ ~Stored(c)
  BY <1>1, <1>2 DEF InFlight, Stored
<1>5. StageInv
  <2>1. \A c \in Call : pc[c] = "idle" /\ answer[c] = "none" /\ result[c] = "none" /\ batch[c] = <<>>
    BY DEF Worker
  <2> QED BY <1>4, <2>1 DEF StageInv
<1>6. OnceInv
  BY <1>1, <1>2 DEF OnceInv
<1>7. BeforeInv
  BY <1>4 DEF BeforeInv
<1>8. CacheInv
  BY DEF CacheInv, CacheMatchesStorage
<1> QED BY <1>3, <1>5, <1>6, <1>7, <1>8 DEF ServiceInv

LEMMA ServiceStep ==
  ASSUME ServiceInv, [Next]_vars
  PROVE  ServiceInv'
<1>1. ASSUME NEW c \in Call, Enqueue(c) \/ CheckFull(c) \/ StoreImmediate(c) \/ Receive(c) \/ PutStored(c) \/ TimeOut(c)
      PROVE  ServiceInv'
  BY <1>1, EnqueueStep, ClientSteps, StoreImmediateStep
<1>2. ASSUME NEW w \in Worker, Take(w) \/ StoreNext(w) PROVE ServiceInv'
  BY <1>2, TakeStep, StoreNextStep
<1>3. ASSUME NEW c \in Call, NEW d \in Doc, NEW k \in Kinds, Begin(c, d, k) PROVE ServiceInv'
  BY <1>3, BeginStep
<1>4. CASE \/ \E d \in Doc : ReadHit(d)
           \/ \E r \in Reader, d \in Doc : StartRead(r, d)
           \/ \E r \in Reader : Read(r) \/ ReadTimesOut(r) \/ PutRead(r)
           \/ \E ds \in SUBSET Doc : Expire(ds)
           \/ Shutdown \/ StopTask \/ Abort \/ Clear \/ StartTask
           \/ UNCHANGED vars
  BY <1>4, CoreSteps, CoreKept
<1> QED BY <1>1, <1>2, <1>3, <1>4 DEF Next, Progress

\* Whatever the calls, the batch task and the controller do, a queued store is
\* in one place and there once, and answers what was done with it; texts are
\* those of calls for documents.
THEOREM ServiceInvariant == Spec => [](ServiceInv /\ CacheInv /\ BufferInv)
<1>1. Init => ServiceInv /\ CacheInv /\ BufferInv
  BY ServiceInit, BufferInit
<1>2. ServiceInv /\ CacheInv /\ BufferInv /\ [Next]_vars => (ServiceInv /\ CacheInv /\ BufferInv)'
  BY ServiceStep, CacheKept, BufferStep
<1> QED BY <1>1, <1>2, PTL DEF Spec

\* process_write_batch_static and store_text_immediate store in an order that
\* respects that of the calls answered Ok: the text a call found answered when
\* it began is never what remains of the document once the call is answered.
THEOREM StoresAreLinear == Spec => []OkStoresAreLinear
<1>1. ServiceInv => OkStoresAreLinear
  BY DEF ServiceInv, StageInv, BeforeInv, OkStoresAreLinear
<1> QED BY <1>1, ServiceInvariant, PTL

\* A queued store is taken by one worker only, and once: process_write_batch_static,
\* whoever calls it, stores no text twice.
THEOREM StoredOnce == Spec => []OnceInv
<1>1. ServiceInv => OnceInv
  BY DEF ServiceInv
<1> QED BY <1>1, ServiceInvariant, PTL

\* Neither cache is behind the storage.  extract_text_substring_concurrent checks
\* its range against the length of the text it is going to read, whatever was
\* stored since and however the cache was cleaned; get_text_async answers no old
\* text from the read-ahead buffer as long as the document is used by one
\* operation at a time, and the buffer keeps its size and its order.
THEOREM CachesStayCurrent == Spec => []CachesAreCurrent
<1>1. CacheInv => CacheMatchesStorage
  BY DEF CacheInv
<1>2. ASSUME BufferInv PROVE BufferIsCurrent
  <2>1. ASSUME NEW d \in DOMAIN buffer \ raced, Storing(d) = {} PROVE buffer[d] = text[d]
    <3>1. d \in Doc
      BY <1>2, RangeOfSeq DEF BufferInv, BufferOrdered
    <3> QED BY <1>2, <2>1, <3>1 DEF BufferInv, Alone
  <2>2. ToSet(order) = DOMAIN buffer
    BY <1>2 DEF BufferInv, BufferOrdered, ToSet, Range
  <2>3. Len(order) = Cardinality(DOMAIN buffer) /\ Len(order) <= BufferSize
    BY <1>2, OrderCounts DEF BufferInv, BufferOrdered
  <2> QED BY <2>1, <2>2, <2>3 DEF BufferIsCurrent
<1> QED BY <1>1, <1>2, ServiceInvariant, PTL DEF CachesAreCurrent
=============================================================================
