------------------------- MODULE KafkaFabricProofs -------------------------
(***************************************************************************)
(* Proofs about KafkaFabric for any number of processes, events, faults    *)
(* and messages.  The inductive invariant says who is responsible for each *)
(* position of the topic and each key a process remembers.                 *)
(***************************************************************************)
EXTENDS KafkaFabric, SequenceTheorems, TLAPS

-----------------------------------------------------------------------------
(* The inductive invariant                                                  *)

\* Positions are numbers, and a process has polled something only between its
\* poll and its commit.
Positions ==
  /\ batch \in [Processes -> Seq(Nat)]
  /\ polled \in [Processes -> [chunk : Seq(Nat), position : Nat]]
  /\ handled \in Seq(Nat)
  /\ \A p \in Processes : pc[p] # "polled" => polled[p] = NoChunk

\* What is handled or waits in a batch is behind the offset, in one place.
Partition ==
  /\ Range(handled) \subseteq 1..committed
  /\ \A p \in Processes : Range(batch[p]) \subseteq (1..committed) \ Range(handled)
  /\ \A p, q \in Processes : p # q => Range(batch[p]) \cap Range(batch[q]) = {}

\* The consumer that holds the partition has polled, and what it polled starts
\* at the offset: nobody has moved the offset since.
HolderCurrent ==
  \A p \in Processes : holder = p =>
    /\ pc[p] = "polled"
    /\ polled[p].position \in committed..Len(log)
    /\ Range(polled[p].chunk) \subseteq (committed + 1)..polled[p].position
    /\ \A i \in (committed + 1)..polled[p].position : log[i].event \in seen[p]

EventOf(i) == log[i].event

\* Among what a process holds and has handled in its life no event occurs
\* twice, and the process remembers the keys of all of it.
OnceEach(p) ==
  LET b == batch[p]
      c == polled[p].chunk
  IN  /\ \A i, j \in DOMAIN b : EventOf(b[i]) = EventOf(b[j]) => i = j
      /\ \A i, j \in DOMAIN c : EventOf(c[i]) = EventOf(c[j]) => i = j
      /\ \A i \in DOMAIN b, j \in DOMAIN c : EventOf(b[i]) # EventOf(c[j])
      /\ \A i \in DOMAIN b : EventOf(b[i]) \in seen[p] \ Range(life[p])
      /\ \A i \in DOMAIN c : EventOf(c[i]) \in seen[p] \ Range(life[p])
      /\ Range(life[p]) \subseteq seen[p]

\* A key that a process remembers belongs to something that was handled, that
\* it holds, or that was lost.
SeenAccounted ==
  \A p \in Processes : \A e \in seen[p] :
    \E j \in Range(handled) \cup Held(p) \cup lost : EventOf(j) = e

\* A message of the topic has attempts left, and its earlier attempts are in
\* the topic.
Tried ==
  \A m \in Range(log) :
    /\ m.attempt < MaxAttempts
    /\ \A k \in 0..m.attempt : [event |-> m.event, attempt |-> k] \in Range(log)

MessageInv == Tried /\ DeadLetterTried

PositionInv ==
  /\ Positions /\ Partition /\ HolderCurrent
  /\ \A p \in Processes : OnceEach(p)
  /\ KeyOncePerLife /\ SeenAccounted /\ OffsetsAccounted

KInv == TypeOK /\ MessageInv /\ PositionInv

-----------------------------------------------------------------------------

Loop == INSTANCE FoldLaws WITH Op <- Consume

\* What a poll of n records takes: the first record of every event that the
\* process has not seen, and all their keys (the loop of consume).
ChunkOf(acc, p, n) ==
  /\ \A i \in DOMAIN acc.chunk :
       acc.chunk[i] \in (committed + 1)..(committed + n) /\ log[acc.chunk[i]].event \in acc.seen \ seen[p]
  /\ \A i, j \in DOMAIN acc.chunk : log[acc.chunk[i]].event = log[acc.chunk[j]].event => i = j
  /\ seen[p] \subseteq acc.seen
  /\ \A i \in (committed + 1)..(committed + n) : log[i].event \in acc.seen
  /\ \A e \in acc.seen \ seen[p] : \E i \in DOMAIN acc.chunk : log[acc.chunk[i]].event = e

LEMMA ChunkTaken ==
  ASSUME TypeOK, NEW p \in Processes, NEW n \in Nat, n <= Len(log) - committed
  PROVE  Chunk(p, n) \in [chunk : Seq(Nat), seen : SUBSET Events] /\ ChunkOf(Chunk(p, n), p, n)
<1> DEFINE A == [chunk : Seq(Nat), seen : SUBSET Events]
           I == [k \in 0..n |-> {acc \in A : ChunkOf(acc, p, k)}]
           base == [chunk |-> <<>>, seen |-> seen[p]]
           q == [k \in 1..n |-> committed + k]
<1>1. q \in Seq(Nat) /\ Len(q) = n /\ committed \in Nat
  BY DEF TypeOK
<1>2. base \in I[0]
  <2>1. base \in A
    BY DEF TypeOK
  <2>2. ChunkOf(base, p, 0)
    BY <1>1 DEF ChunkOf
  <2>3. QED
    BY <2>1, <2>2
<1>3. ASSUME NEW k \in 1..n, NEW acc \in I[k - 1]
      PROVE  Consume(acc, q[k]) \in I[k]
  <2>1. acc \in A /\ ChunkOf(acc, p, k - 1) /\ k \in 0..n
    OBVIOUS
  <2>2. q[k] = committed + k /\ q[k] \in Nat
    BY <1>1
  <2>3. log[q[k]] \in Message /\ log[q[k]].event \in Events
    <3>1. q[k] \in 1..Len(log) /\ log \in Seq(Message)
      BY <1>1, <2>2 DEF TypeOK
    <3> HIDE DEF q, I
    <3>2. log[q[k]] \in Message
      BY <3>1, ElementOfSeq
    <3>3. QED
      BY <3>2 DEF Message
  <2>4. \A i \in (committed + 1)..(committed + k) : i \in (committed + 1)..(committed + (k - 1)) \/ i = q[k]
    BY <1>1, <2>2
  <2>5. \A i \in (committed + 1)..(committed + (k - 1)) : i \in (committed + 1)..(committed + k)
    BY <1>1
  <2>6. q[k] \in (committed + 1)..(committed + k)
    BY <1>1, <2>2
  <2> HIDE DEF I, q
  <2>7. CASE log[q[k]].event \in acc.seen
    <3>1. Consume(acc, q[k]) = acc
      BY <2>7 DEF Consume
    <3>2. ChunkOf(acc, p, k)
      BY <2>1, <2>4, <2>5, <2>7 DEF ChunkOf
    <3>3. QED
      BY <2>1, <3>1, <3>2 DEF I
  <2>8. CASE log[q[k]].event \notin acc.seen
    <3> DEFINE new == [chunk |-> Append(acc.chunk, q[k]), seen |-> acc.seen \cup {log[q[k]].event}]
               c == acc.chunk
    <3>1. Consume(acc, q[k]) = new
      BY <2>8 DEF Consume
    <3>2. c \in Seq(Nat) /\ acc.seen \in SUBSET Events
      BY <2>1
    <3>3. new \in A
      BY <3>2, <2>2, <2>3
    <3>4. /\ Len(new.chunk) = Len(c) + 1 /\ DOMAIN new.chunk = 1..(Len(c) + 1) /\ DOMAIN c = 1..Len(c)
          /\ \A i \in DOMAIN c : new.chunk[i] = c[i]
          /\ new.chunk[Len(c) + 1] = q[k]
          /\ \A i \in DOMAIN new.chunk : i \in DOMAIN c \/ i = Len(c) + 1
          /\ Len(c) + 1 \in DOMAIN new.chunk
          /\ new.seen = acc.seen \cup {log[q[k]].event}
      <4>1. PICK d, x : d = acc.chunk /\ x = q[k]
        OBVIOUS
      <4>2. PICK r : r = Append(d, x)
        OBVIOUS
      <4>3. d \in Seq(Nat) /\ x \in Nat
        BY <3>2, <2>2, <4>1
      <4>4. Len(r) = Len(d) + 1 /\ DOMAIN r = 1..(Len(d) + 1) /\ DOMAIN d = 1..Len(d) /\ Len(d) \in Nat
        BY <4>2, <4>3
      <4>5. (\A i \in DOMAIN d : r[i] = d[i]) /\ r[Len(d) + 1] = x
        BY <4>2, <4>3
      <4>6. (\A i \in DOMAIN r : i \in DOMAIN d \/ i = Len(d) + 1) /\ Len(d) + 1 \in DOMAIN r
        BY <4>4
      <4>7. new.chunk = r /\ c = d /\ x = q[k] /\ new.seen = acc.seen \cup {log[q[k]].event}
        BY <4>1, <4>2
      <4>8. QED
        BY <4>4, <4>5, <4>6, <4>7
    <3> HIDE DEF new, c
    <3>5. ChunkOf(new, p, k)
      <4> DEFINE e == log[q[k]].event
      <4>1. /\ \A i \in DOMAIN c : c[i] \in (committed + 1)..(committed + (k - 1))
                                  /\ log[c[i]].event \in acc.seen \ seen[p]
            /\ \A i, j \in DOMAIN c : log[c[i]].event = log[c[j]].event => i = j
            /\ seen[p] \subseteq acc.seen
            /\ \A i \in (committed + 1)..(committed + (k - 1)) : log[i].event \in acc.seen
            /\ \A x \in acc.seen \ seen[p] : \E i \in DOMAIN c : log[c[i]].event = x
        BY <2>1 DEF ChunkOf, c
      <4>2. \A i \in DOMAIN new.chunk :
              /\ new.chunk[i] \in (committed + 1)..(committed + k)
              /\ log[new.chunk[i]].event \in new.seen \ seen[p]
        <5>1. ASSUME NEW i \in DOMAIN c
              PROVE  c[i] \in (committed + 1)..(committed + k) /\ log[c[i]].event \in new.seen \ seen[p]
          BY <4>1, <2>5, <2>6, <3>4
        <5>2. q[k] \in (committed + 1)..(committed + k) /\ log[q[k]].event \in new.seen \ seen[p]
          BY <4>1, <2>5, <2>6, <2>8, <3>4
        <5>3. QED
          BY <5>1, <5>2, <3>4
      <4>3. \A i, j \in DOMAIN new.chunk : log[new.chunk[i]].event = log[new.chunk[j]].event => i = j
        <5> SUFFICES ASSUME NEW i \in DOMAIN new.chunk, NEW j \in DOMAIN new.chunk, i # j
                     PROVE  log[new.chunk[i]].event # log[new.chunk[j]].event
          OBVIOUS
        <5>1. CASE i \in DOMAIN c /\ j \in DOMAIN c
          BY <5>1, <4>1, <3>4
        <5>2. CASE i \in DOMAIN c /\ j = Len(c) + 1
          BY <5>2, <4>1, <2>8, <3>4
        <5>3. CASE i = Len(c) + 1 /\ j \in DOMAIN c
          BY <5>3, <4>1, <2>8, <3>4
        <5>4. QED
          BY <5>1, <5>2, <5>3, <3>4
      <4>4. \A i \in (committed + 1)..(committed + k) : log[i].event \in new.seen
        BY <4>1, <2>4, <3>4
      <4>5. \A x \in new.seen \ seen[p] : \E i \in DOMAIN new.chunk : log[new.chunk[i]].event = x
        <5>1. ASSUME NEW x \in acc.seen \ seen[p] PROVE \E i \in DOMAIN new.chunk : log[new.chunk[i]].event = x
          <6>1. PICK i \in DOMAIN c : log[c[i]].event = x
            BY <4>1
          <6>2. i \in DOMAIN new.chunk /\ log[new.chunk[i]].event = x
            BY <6>1, <3>2, <3>4
          <6>3. QED
            BY <6>2
        <5>2. \E i \in DOMAIN new.chunk : log[new.chunk[i]].event = e
          BY <3>4
        <5>3. QED
          BY <5>1, <5>2, <3>4
      <4>6. QED
        BY <4>1, <4>2, <4>3, <4>4, <4>5, <3>4 DEF ChunkOf
    <3>6. QED
      BY <2>1, <3>1, <3>3, <3>5 DEF I
  <2>9. QED
    BY <2>7, <2>8
<1>4. Chunk(p, n) = Loop!Fold(base, q)
  BY DEF Chunk, Loop!Fold, Loop!FoldLeft, FoldLeft, Loop!MapThenFoldSet, MapThenFoldSet, Loop!Max, Max
<1>5. Loop!Fold(base, q) \in I[n]
  <2> HIDE DEF I, base, q
  <2> QED BY <1>1, <1>2, <1>3, Loop!FoldInvariant
<1>6. QED
  BY <1>4, <1>5

-----------------------------------------------------------------------------
(* The topics                                                               *)

LEMMA RangeOfAppend ==
  ASSUME NEW S, NEW q \in Seq(S), NEW e \in S
  PROVE  Range(Append(q, e)) = Range(q) \cup {e}
<1>1. /\ DOMAIN Append(q, e) = 1..(Len(q) + 1) /\ DOMAIN q = 1..Len(q)
      /\ \A i \in 1..Len(q) : Append(q, e)[i] = q[i]
      /\ Append(q, e)[Len(q) + 1] = e
      /\ \A i \in 1..(Len(q) + 1) : i \in 1..Len(q) \/ i = Len(q) + 1
  OBVIOUS
<1>2. QED
  BY <1>1 DEF Range

LEMMA RangeOfTail ==
  ASSUME NEW S, NEW q \in Seq(S), q # <<>>
  PROVE  /\ Head(q) \in S /\ Tail(q) \in Seq(S)
         /\ 1 \in DOMAIN q /\ Head(q) = q[1]
         /\ \A i \in DOMAIN Tail(q) : i + 1 \in DOMAIN q /\ Tail(q)[i] = q[i + 1]
         /\ Range(q) = {Head(q)} \cup Range(Tail(q))
<1>1. /\ Head(q) \in S /\ Tail(q) \in Seq(S)
      /\ DOMAIN q = 1..Len(q) /\ Len(q) \in Nat \ {0}
      /\ Len(Tail(q)) = Len(q) - 1 /\ DOMAIN Tail(q) = 1..(Len(q) - 1)
      /\ \A i \in 1..(Len(q) - 1) : Tail(q)[i] = q[i + 1]
      /\ Head(q) = q[1]
  BY HeadTailProperties
<1>2. \A i \in 1..Len(q) : i = 1 \/ (i - 1 \in 1..(Len(q) - 1) /\ (i - 1) + 1 = i)
  BY <1>1
<1>3. \A i \in 1..(Len(q) - 1) : i + 1 \in 1..Len(q)
  BY <1>1
<1>4. Range(q) = {Head(q)} \cup Range(Tail(q))
  <2> DEFINE t == Tail(q)
             h == Head(q)
  <2>1. /\ DOMAIN q = 1..Len(q) /\ DOMAIN t = 1..(Len(q) - 1) /\ h = q[1] /\ 1 \in 1..Len(q)
        /\ \A i \in 1..(Len(q) - 1) : t[i] = q[i + 1]
    BY <1>1
  <2> HIDE DEF t, h
  <2>2. ASSUME NEW i \in 1..Len(q) PROVE q[i] = h \/ \E j \in 1..(Len(q) - 1) : q[i] = t[j]
    BY <2>1, <1>2
  <2>3. ASSUME NEW j \in 1..(Len(q) - 1) PROVE \E i \in 1..Len(q) : t[j] = q[i]
    BY <2>1, <1>3
  <2>4. Range(q) = {h} \cup Range(t)
    <3>1. Range(q) = {q[i] : i \in 1..Len(q)} /\ Range(t) = {t[i] : i \in 1..(Len(q) - 1)}
      BY <2>1 DEF Range
    <3>2. ASSUME NEW x \in Range(q) PROVE x \in {h} \cup Range(t)
      <4>1. PICK i \in 1..Len(q) : x = q[i]
        BY <3>1
      <4>2. QED
        BY <4>1, <2>2, <3>1
    <3>3. ASSUME NEW x \in {h} \cup Range(t) PROVE x \in Range(q)
      <4>1. CASE x = h
        BY <4>1, <3>1, <2>1
      <4>2. CASE x \in Range(t)
        <5>1. PICK i \in 1..(Len(q) - 1) : x = t[i]
          BY <4>2, <3>1
        <5>2. QED
          BY <5>1, <2>3, <3>1
      <4>3. QED
        BY <4>1, <4>2
    <3>4. QED
      BY <3>2, <3>3
  <2>5. QED
    BY <2>4 DEF t, h
<1>5. QED
  BY <1>1, <1>3, <1>4

\* Topic r is q with copies of m after it.
Grown(q, r, m) ==
  /\ r \in Seq(Message)
  /\ Len(q) <= Len(r) /\ Len(r) <= Len(q) + 2
  /\ \A i \in DOMAIN q : i \in DOMAIN r /\ r[i] = q[i]
  /\ Range(q) \subseteq Range(r) /\ Range(r) \subseteq Range(q) \cup {m}

\* However a send ends, it changes nothing that was in the topic (publish).
LEMMA SentGrows ==
  ASSUME NEW q \in Seq(Message), NEW m \in Message, NEW sent \in Sent(q, m)
  PROVE  Grown(q, sent.topic, m)
<1>1. Grown(q, q, m)
  BY DEF Grown
<1>2. Grown(q, Append(q, m), m)
  BY RangeOfAppend DEF Grown
<1>3. Grown(q, q \o <<m, m>>, m)
  <2>1. <<m, m>> \in Seq(Message) /\ Len(<<m, m>>) = 2 /\ Range(<<m, m>>) = {m}
    BY DEF Range
  <2>2. Range(q \o <<m, m>>) = Range(q) \cup {m}
    BY <2>1, RangeConcatenation
  <2>3. /\ q \o <<m, m>> \in Seq(Message) /\ Len(q \o <<m, m>>) = Len(q) + 2
        /\ \A i \in 1..Len(q) : (q \o <<m, m>>)[i] = q[i]
    BY <2>1, ConcatProperties
  <2>4. QED
    BY <2>2, <2>3 DEF Grown
<1>4. sent.topic \in {q, Append(q, m), q \o <<m, m>>}
  BY DEF Sent
<1>5. QED
  BY <1>1, <1>2, <1>3, <1>4

\* The messages that may be added to the raw topic.
Addable(m) ==
  /\ m \in Message
  /\ \/ m.attempt = 0
     \/ \E l \in Range(log) : m = OneMore(l) /\ m.attempt < MaxAttempts

LEMMA OneMoreType ==
  ASSUME NEW m \in Message
  PROVE  OneMore(m) \in Message /\ OneMore(m).event = m.event /\ OneMore(m).attempt = m.attempt + 1
  BY DEF OneMore, Message

LEMMA LogGrows ==
  ASSUME TypeOK, MessageInv, NEW m, Addable(m), Grown(log, log', m), dlq' = dlq
  PROVE  MessageInv'
<1>1. Range(log) \subseteq Range(log)' /\ Range(log)' \subseteq Range(log) \cup {m}
  BY DEF Grown
<1>2. MaxAttempts \in Nat \ {0}
  BY KafkaAssumption
<1>3. m.attempt \in Nat /\ m.attempt < MaxAttempts
  BY <1>2 DEF Addable, Message
<1>4. CASE m \in Range(log)'
  <2>1. ASSUME NEW k \in 0..m.attempt
        PROVE  [event |-> m.event, attempt |-> k] \in Range(log)'
    <3>1. m = [event |-> m.event, attempt |-> m.attempt]
      BY DEF Addable, Message
    <3>2. CASE k = m.attempt
      BY <3>1, <3>2, <1>4
    <3>3. CASE k # m.attempt
      <4>1. PICK l \in Range(log) : m = OneMore(l)
        BY <3>3, <1>3 DEF Addable
      <4>2. l \in Message
        BY RangeOfSeq DEF TypeOK
      <4>3. m.event = l.event /\ m.attempt = l.attempt + 1 /\ l.attempt \in Nat
        BY <4>1, <4>2, OneMoreType DEF Message
      <4>4. k \in 0..l.attempt
        BY <4>3, <3>3
      <4>5. QED
        BY <4>3, <4>4, <1>1 DEF MessageInv, Tried
    <3>4. QED
      BY <3>2, <3>3
  <2>2. Tried'
    BY <1>1, <1>3, <2>1 DEF MessageInv, Tried
  <2>3. DeadLetterTried'
    BY <1>1 DEF MessageInv, DeadLetterTried
  <2>4. QED
    BY <2>2, <2>3 DEF MessageInv
<1>5. CASE m \notin Range(log)'
  <2>1. Range(log)' = Range(log)
    BY <1>1, <1>5
  <2>2. QED
    BY <2>1 DEF MessageInv, Tried, DeadLetterTried
<1>6. QED
  BY <1>4, <1>5

LEMMA DeadLettersGrow ==
  ASSUME TypeOK, MessageInv, NEW m \in Range(log), m.attempt + 1 >= MaxAttempts,
         Grown(dlq, dlq', OneMore(m)), log' = log
  PROVE  MessageInv'
<1>1. Range(dlq)' \subseteq Range(dlq) \cup {OneMore(m)}
  BY DEF Grown
<1>2. m \in Message /\ m.attempt \in Nat
  <2>1. m \in Message
    BY RangeOfSeq DEF TypeOK
  <2>2. QED
    BY <2>1 DEF Message
<1>3. MaxAttempts \in Nat \ {0}
  BY KafkaAssumption
<1>4. m.attempt + 1 = MaxAttempts /\ m.attempt = MaxAttempts - 1
  BY <1>2, <1>3 DEF MessageInv, Tried
<1>5. /\ OneMore(m).attempt = MaxAttempts
      /\ OneMore(m).event = m.event
      /\ \A k \in 0..(MaxAttempts - 1) : [event |-> m.event, attempt |-> k] \in Range(log)
  BY <1>2, <1>4, OneMoreType DEF MessageInv, Tried
<1>6. DeadLetterTried'
  BY <1>1, <1>5 DEF MessageInv, DeadLetterTried
<1>7. QED
  BY <1>6 DEF MessageInv, Tried

\* What a step may do to the topics: the raw topic keeps its messages.
TypeMessages ==
  /\ log \in Seq(Message) /\ dlq \in Seq(Message) /\ out \subseteq Events \ Poison
  /\ faults \in 0..MaxFaults

LogKept ==
  /\ Len(log) <= Len(log') /\ Len(log') <= Len(log) + 2
  /\ \A i \in DOMAIN log : i \in DOMAIN log' /\ log'[i] = log[i]

MessagesKept == LogKept /\ TypeMessages' /\ MessageInv'

\* The message at the head of a batch.
LEMMA HeadMessage ==
  ASSUME KInv, NEW p \in Processes, batch[p] # <<>>
  PROVE  LET i == Head(batch[p])
             m == log[i]
         IN  /\ i \in Nat /\ i \in DOMAIN log /\ i \in Range(batch[p])
             /\ m \in Message /\ m \in Range(log) /\ m.event \in Events /\ m.attempt \in Nat
             /\ OneMore(m) \in Message
<1> DEFINE i == Head(batch[p])
<1>1. batch[p] \in Seq(Nat)
  BY DEF KInv, PositionInv, Positions
<1>2. i \in Nat /\ i \in Range(batch[p])
  BY <1>1, RangeOfTail
<1>3. i \in DOMAIN log /\ log \in Seq(Message)
  BY <1>2 DEF KInv, TypeOK, Held
<1> HIDE DEF i
<1>4. log[i] \in Message /\ log[i] \in Range(log)
  BY <1>3, ElementOfSeq DEF Range
<1>5. log[i].event \in Events /\ log[i].attempt \in Nat /\ OneMore(log[i]) \in Message
  BY <1>4, OneMoreType DEF Message
<1>6. QED
  BY <1>2, <1>3, <1>4, <1>5 DEF i

LEMMA FaultCounted ==
  ASSUME TypeOK, Fault \/ NoFault
  PROVE  faults' \in 0..MaxFaults
  BY KafkaAssumption DEF TypeOK, Fault, NoFault

\* The except block, however its publication ends.
LEMMA RejectedKept ==
  ASSUME KInv, NEW m \in Range(log),
         IF m.attempt + 1 >= MaxAttempts
         THEN Grown(dlq, dlq', OneMore(m)) /\ log' = log
         ELSE Grown(log, log', OneMore(m)) /\ dlq' = dlq
  PROVE  LogKept /\ MessageInv' /\ log' \in Seq(Message) /\ dlq' \in Seq(Message)
<1>1. m \in Message /\ TypeOK /\ MessageInv /\ log \in Seq(Message) /\ dlq \in Seq(Message)
  BY RangeOfSeq DEF KInv, TypeOK
<1>2. OneMore(m) \in Message /\ OneMore(m).attempt = m.attempt + 1
  BY <1>1, OneMoreType
<1>3. CASE ~(m.attempt + 1 >= MaxAttempts)
  <2>1. m.attempt + 1 < MaxAttempts
    BY <1>1, <1>3, KafkaAssumption DEF Message
  <2>2. Addable(OneMore(m))
    BY <1>2, <2>1 DEF Addable
  <2>3. MessageInv'
    BY <1>1, <1>3, <2>2, LogGrows
  <2>4. QED
    BY <1>1, <1>3, <2>3 DEF Grown, LogKept
<1>4. CASE m.attempt + 1 >= MaxAttempts
  <2>1. MessageInv'
    BY <1>1, <1>4, DeadLettersGrow
  <2>2. QED
    BY <1>1, <1>4, <2>1 DEF Grown, LogKept
<1>5. QED
  BY <1>3, <1>4

LEMMA QuietKept ==
  ASSUME KInv, UNCHANGED <<log, dlq>>, out' \subseteq Events \ Poison, faults' \in 0..MaxFaults
  PROVE  MessagesKept
  BY DEF KInv, TypeOK, MessagesKept, LogKept, TypeMessages, MessageInv, Tried, DeadLetterTried

LEMMA MessagesStep ==
  ASSUME KInv, [Next]_vars
  PROVE  MessagesKept
<1> USE DEF KInv
<1>1. TypeOK /\ MessageInv /\ log \in Seq(Message) /\ dlq \in Seq(Message) /\ out \subseteq Events \ Poison
      /\ MaxAttempts \in Nat \ {0} /\ faults \in 0..MaxFaults
  BY KafkaAssumption DEF TypeOK
<1>2. ASSUME NEW e \in Events, IngestRaw(e) PROVE MessagesKept
  <2> DEFINE m == [event |-> e, attempt |-> 0]
  <2>1. m \in Message /\ Addable(m)
    BY DEF Message, Addable
  <2>2. PICK sent \in Sent(log, m) : log' = sent.topic /\ Counts(sent)
    BY <1>2 DEF IngestRaw
  <2>3. Grown(log, log', m)
    BY <1>1, <2>1, <2>2, SentGrows
  <2>4. MessageInv'
    BY <1>1, <1>2, <2>1, <2>3, LogGrows DEF IngestRaw
  <2>5. faults' \in 0..MaxFaults
    BY <1>1, <2>2, FaultCounted DEF Counts
  <2>6. QED
    BY <1>1, <1>2, <2>3, <2>4, <2>5 DEF IngestRaw, Grown, MessagesKept, LogKept, TypeMessages
<1>3. ASSUME NEW p \in Processes, Normalize(p) PROVE MessagesKept
  <2>1. log[Head(batch[p])].event \in Events
    BY <1>3, HeadMessage DEF Normalize, Handles
  <2>2. out' \subseteq Events \ Poison /\ faults' \in 0..MaxFaults
    BY <1>1, <1>3, <2>1, FaultCounted DEF Normalize
  <2>3. QED
    BY <1>3, <2>2, QuietKept DEF Normalize
<1>4. ASSUME NEW p \in Processes, NormalizeFails(p) PROVE MessagesKept
  <2> DEFINE m == log[Head(batch[p])]
  <2>1. m \in Message /\ m \in Range(log) /\ m.attempt \in Nat /\ OneMore(m) \in Message
    BY <1>4, HeadMessage DEF NormalizeFails, Handles
  <2>2. Rejected(m) /\ out' = out
    BY <1>4 DEF NormalizeFails
  <2> HIDE DEF m
  <2>3. CASE m.attempt + 1 >= MaxAttempts
    <3>1. PICK sent \in Sent(dlq, OneMore(m)) : dlq' = sent.topic /\ Counts(sent) /\ UNCHANGED log
      BY <2>2, <2>3 DEF Rejected
    <3>2. Grown(dlq, dlq', OneMore(m)) /\ faults' \in 0..MaxFaults
      BY <1>1, <2>1, <3>1, SentGrows, FaultCounted DEF Counts
    <3>3. LogKept /\ MessageInv' /\ log' \in Seq(Message) /\ dlq' \in Seq(Message)
      BY <2>1, <2>3, <3>1, <3>2, RejectedKept
    <3>4. QED
      BY <1>1, <2>2, <3>2, <3>3 DEF MessagesKept, TypeMessages
  <2>4. CASE ~(m.attempt + 1 >= MaxAttempts)
    <3>1. PICK sent \in Sent(log, OneMore(m)) : log' = sent.topic /\ Counts(sent) /\ UNCHANGED dlq
      BY <2>2, <2>4 DEF Rejected
    <3>2. Grown(log, log', OneMore(m)) /\ faults' \in 0..MaxFaults
      BY <1>1, <2>1, <2>4, <3>1, SentGrows, FaultCounted DEF Counts
    <3>3. LogKept /\ MessageInv' /\ log' \in Seq(Message) /\ dlq' \in Seq(Message)
      BY <2>1, <2>4, <3>1, <3>2, RejectedKept
    <3>4. QED
      BY <1>1, <2>2, <3>2, <3>3 DEF MessagesKept, TypeMessages
  <2>5. QED
    BY <2>3, <2>4
<1>5. ASSUME NEW p \in Processes, PublishTimesOut(p) \/ RetryTimesOut(p) PROVE MessagesKept
  <2> DEFINE m == log[Head(batch[p])]
  <2>1. m \in Message /\ m \in Range(log) /\ m.attempt \in Nat /\ OneMore(m) \in Message /\ m.event \in Events
    BY <1>5, HeadMessage DEF PublishTimesOut, RetryTimesOut, Handles
  <2>2. /\ out' \subseteq Events \ Poison /\ faults' \in 0..MaxFaults
        /\ IF m.attempt + 1 >= MaxAttempts
           THEN dlq' \in {dlq, Append(dlq, OneMore(m))} /\ log' = log
           ELSE log' \in {log, Append(log, OneMore(m))} /\ dlq' = dlq
    BY <1>1, <1>5, <2>1, FaultCounted DEF PublishTimesOut, RetryTimesOut
  <2> HIDE DEF m
  <2>3. ASSUME NEW q \in Seq(Message), NEW r \in {q, Append(q, OneMore(m))}
        PROVE  Grown(q, r, OneMore(m))
    <3>1. \E sent \in Sent(q, OneMore(m)) : sent.topic = r
      BY DEF Sent
    <3>2. QED
      BY <3>1, <2>1, SentGrows
  <2>4. LogKept /\ MessageInv' /\ log' \in Seq(Message) /\ dlq' \in Seq(Message)
    <3>1. CASE m.attempt + 1 >= MaxAttempts
      BY <3>1, <1>1, <2>1, <2>2, <2>3, RejectedKept
    <3>2. CASE ~(m.attempt + 1 >= MaxAttempts)
      BY <3>2, <1>1, <2>1, <2>2, <2>3, RejectedKept
    <3>3. QED
      BY <3>1, <3>2
  <2>5. QED
    BY <2>2, <2>4 DEF MessagesKept, TypeMessages
<1>6. ASSUME NEW p \in Processes, NEW n \in Nat, Poll(p, n) PROVE MessagesKept
  BY <1>1, <1>6, QuietKept DEF Poll
<1>7. ASSUME NEW p \in Processes,
             \/ StartDrain(p) \/ PollTimesOut(p) \/ Commit(p) \/ CommitRefused(p) \/ EndDrain(p)
             \/ CommitFails(p) \/ Evict(p) \/ Crash(p)
      PROVE  MessagesKept
  <2>1. UNCHANGED <<log, dlq, out>> /\ faults' \in 0..MaxFaults
    BY <1>1, <1>7, FaultCounted DEF StartDrain, PollTimesOut, Commit, CommitRefused, EndDrain, CommitFails, Evict, Crash
  <2>2. QED
    BY <1>1, <2>1, QuietKept
<1>8. CASE UNCHANGED vars
  BY <1>1, <1>8, QuietKept DEF vars
<1>9. QED
  <2>1. 0 \in Nat /\ 1..MaxRecords \subseteq Nat
    BY KafkaAssumption
  <2>2. QED
    BY <2>1, <1>2, <1>3, <1>4, <1>5, <1>6, <1>7, <1>8 DEF Next, Continue, PollSome

-----------------------------------------------------------------------------
(* The positions                                                            *)

\* The part of TypeOK about positions and processes.
TypePositions ==
  /\ committed \in 0..Len(log)
  /\ holder \in Processes \cup {NoProcess}
  /\ seen \in [Processes -> SUBSET Events]
  /\ pc \in [Processes -> {"idle", "fetch", "polled", "handle"}]
  /\ \A p \in Processes :
       /\ Held(p) \subseteq DOMAIN log
       /\ polled[p].position \in 0..Len(log)
  /\ Range(handled) \subseteq DOMAIN log
  /\ life \in [Processes -> Seq(Events)]
  /\ lost \subseteq DOMAIN log

LEMMA TypeParts == TypeOK <=> TypeMessages /\ TypePositions
  BY DEF TypeOK, TypeMessages, TypePositions

PositionsKept == TypePositions' /\ PositionInv'

\* What the step lemmas below start from.
LEMMA Facts ==
  ASSUME KInv
  PROVE  /\ TypePositions /\ Positions /\ Partition /\ HolderCurrent /\ KeyOncePerLife
         /\ SeenAccounted /\ OffsetsAccounted /\ \A p \in Processes : OnceEach(p)
         /\ log \in Seq(Message) /\ Len(log) \in Nat /\ DOMAIN log = 1..Len(log)
         /\ committed \in Nat /\ committed <= Len(log)
         /\ \A p \in Processes :
              /\ batch[p] \in Seq(Nat) /\ polled[p].chunk \in Seq(Nat) /\ polled[p].position \in Nat
              /\ polled[p].position <= Len(log)
              /\ Range(batch[p]) \subseteq DOMAIN log /\ Range(polled[p].chunk) \subseteq DOMAIN log
              /\ \A i \in DOMAIN batch[p] : batch[p][i] \in DOMAIN log
              /\ \A i \in DOMAIN polled[p].chunk : polled[p].chunk[i] \in DOMAIN log
<1>1. TypePositions /\ log \in Seq(Message) /\ Len(log) \in Nat /\ DOMAIN log = 1..Len(log)
  BY TypeParts DEF KInv, TypeOK
<1>2. /\ Positions /\ Partition /\ HolderCurrent /\ KeyOncePerLife
      /\ SeenAccounted /\ OffsetsAccounted /\ \A p \in Processes : OnceEach(p)
  BY DEF KInv, PositionInv
<1>3. committed \in Nat /\ committed <= Len(log)
  BY <1>1 DEF TypePositions
<1>4. ASSUME NEW p \in Processes
      PROVE  /\ batch[p] \in Seq(Nat) /\ polled[p].chunk \in Seq(Nat) /\ polled[p].position \in Nat
             /\ polled[p].position <= Len(log)
             /\ Range(batch[p]) \subseteq DOMAIN log /\ Range(polled[p].chunk) \subseteq DOMAIN log
  BY <1>1, <1>2 DEF Positions, TypePositions, Held
<1>5. ASSUME NEW p \in Processes
      PROVE  /\ \A i \in DOMAIN batch[p] : batch[p][i] \in DOMAIN log
             /\ \A i \in DOMAIN polled[p].chunk : polled[p].chunk[i] \in DOMAIN log
  BY <1>4 DEF Range
<1>6. QED
  BY <1>1, <1>2, <1>3, <1>4, <1>5

\* What is not touched keeps its events, and each of them once.
LEMMA OnceEachStays ==
  ASSUME NEW p, OnceEach(p), batch'[p] = batch[p], polled'[p] = polled[p], seen'[p] = seen[p], life'[p] = life[p],
         \A i \in DOMAIN batch[p] : log'[batch[p][i]] = log[batch[p][i]],
         \A i \in DOMAIN polled[p].chunk : log'[polled[p].chunk[i]] = log[polled[p].chunk[i]]
  PROVE  OnceEach(p)'
<1> PICK b, c : b = batch[p] /\ c = polled[p].chunk
  OBVIOUS
<1>1. batch'[p] = b /\ polled'[p].chunk = c
  OBVIOUS
<1>2. (\A i \in DOMAIN b : EventOf(b[i])' = EventOf(b[i])) /\ \A i \in DOMAIN c : EventOf(c[i])' = EventOf(c[i])
  BY DEF EventOf
<1>3. /\ \A i, j \in DOMAIN b : EventOf(b[i]) = EventOf(b[j]) => i = j
      /\ \A i, j \in DOMAIN c : EventOf(c[i]) = EventOf(c[j]) => i = j
      /\ \A i \in DOMAIN b, j \in DOMAIN c : EventOf(b[i]) # EventOf(c[j])
      /\ \A i \in DOMAIN b : EventOf(b[i]) \in seen[p] \ Range(life[p])
      /\ \A i \in DOMAIN c : EventOf(c[i]) \in seen[p] \ Range(life[p])
      /\ Range(life[p]) \subseteq seen[p]
  BY DEF OnceEach
<1>4. /\ \A i, j \in DOMAIN b : EventOf(b[i])' = EventOf(b[j])' => i = j
      /\ \A i, j \in DOMAIN c : EventOf(c[i])' = EventOf(c[j])' => i = j
      /\ \A i \in DOMAIN b, j \in DOMAIN c : EventOf(b[i])' # EventOf(c[j])'
  BY <1>2, <1>3
<1>5. /\ \A i \in DOMAIN b : EventOf(b[i])' \in seen'[p] \ Range(life'[p])
      /\ \A i \in DOMAIN c : EventOf(c[i])' \in seen'[p] \ Range(life'[p])
      /\ Range(life'[p]) \subseteq seen'[p]
  BY <1>2, <1>3
<1>6. QED
  BY <1>1, <1>4, <1>5 DEF OnceEach

\* Steps that move nothing: at most the topic grows or the partition is let go.
LEMMA NothingMoves ==
  ASSUME KInv, LogKept, log' \in Seq(Message),
         UNCHANGED <<committed, seen, polled, batch, handled, life, lost>>,
         holder' \in {holder, NoProcess},
         pc' \in [Processes -> {"idle", "fetch", "polled", "handle"}],
         \A p \in Processes : pc'[p] = "polled" <=> pc[p] = "polled"
  PROVE  PositionsKept
<1>1. /\ Len(log') \in Nat /\ DOMAIN log' = 1..Len(log') /\ Len(log) <= Len(log')
      /\ \A i \in DOMAIN log : i \in DOMAIN log' /\ log'[i] = log[i]
  BY DEF LogKept
<1>2. NoProcess \notin Processes
  BY KafkaAssumption
<1>3. TypePositions'
  BY <1>1, Facts DEF TypePositions, Held
<1>4. Positions' /\ Partition'
  BY Facts DEF Positions, Partition
<1>5. HolderCurrent'
  <2> SUFFICES ASSUME NEW p \in Processes, holder' = p
               PROVE  /\ pc'[p] = "polled"
                      /\ polled[p].position \in committed..Len(log')
                      /\ Range(polled[p].chunk) \subseteq (committed + 1)..polled[p].position
                      /\ \A i \in (committed + 1)..polled[p].position : log'[i].event \in seen[p]
    BY DEF HolderCurrent
  <2>1. holder = p
    BY <1>2
  <2>2. \A i \in (committed + 1)..polled[p].position : i \in DOMAIN log
    BY Facts
  <2>3. /\ pc[p] = "polled"
        /\ polled[p].position \in committed..Len(log)
        /\ Range(polled[p].chunk) \subseteq (committed + 1)..polled[p].position
        /\ \A i \in (committed + 1)..polled[p].position : log[i].event \in seen[p]
    BY <2>1, Facts DEF HolderCurrent
  <2>4. polled[p].position \in committed..Len(log')
    BY <1>1, <2>3, Facts
  <2>5. QED
    BY <1>1, <2>2, <2>3, <2>4
<1>6. \A p \in Processes : OnceEach(p)'
  <2> SUFFICES ASSUME NEW p \in Processes PROVE OnceEach(p)'
    OBVIOUS
  <2>1. \A i \in DOMAIN batch[p] : log'[batch[p][i]] = log[batch[p][i]]
    BY <1>1, Facts
  <2>2. \A i \in DOMAIN polled[p].chunk : log'[polled[p].chunk[i]] = log[polled[p].chunk[i]]
    BY <1>1, Facts
  <2>3. OnceEach(p)
    BY Facts
  <2>4. QED
    BY <2>1, <2>2, <2>3, OnceEachStays
<1>7. KeyOncePerLife'
  BY Facts DEF KeyOncePerLife
<1>8. SeenAccounted'
  <2>1. \A p \in Processes : \A j \in Range(handled) \cup Held(p) \cup lost : log'[j] = log[j]
    BY <1>1, Facts DEF TypePositions
  <2>2. \A p \in Processes : Held(p)' = Held(p)
    BY DEF Held
  <2>3. SeenAccounted
    BY Facts
  <2>4. QED
    BY <2>1, <2>2, <2>3 DEF SeenAccounted, EventOf
<1>9. OffsetsAccounted'
  <2>1. \A j \in Range(handled) \cup InFlight \cup lost : log'[j] = log[j]
    BY <1>1, Facts DEF TypePositions, InFlight
  <2>2. \A i \in 1..committed : log'[i] = log[i]
    BY <1>1, Facts
  <2>3. InFlight' = InFlight
    BY DEF InFlight
  <2>4. ASSUME NEW i \in 1..committed
        PROVE  \E j \in Range(handled) \cup InFlight \cup lost : log'[j].event = log'[i].event
    <3>1. PICK j \in Range(handled) \cup InFlight \cup lost : log[j].event = log[i].event
      BY Facts DEF OffsetsAccounted
    <3>2. log'[j].event = log'[i].event
      BY <2>1, <2>2, <3>1
    <3>3. QED
      BY <3>2
  <2>5. QED
    BY <2>3, <2>4 DEF OffsetsAccounted
<1>10. QED
  BY <1>3, <1>4, <1>5, <1>6, <1>7, <1>8, <1>9 DEF PositionsKept, PositionInv

\* A consumer polls: it holds the partition, at the offset.
LEMMA PollMoves ==
  ASSUME KInv, NEW p \in Processes, NEW n \in Nat, Poll(p, n)
  PROVE  PositionsKept
<1> DEFINE taken == Chunk(p, n)
           c == taken.chunk
           pos == committed + n
<1>1. /\ pc[p] = "fetch" /\ holder = NoProcess /\ n <= Len(log) - committed /\ holder' = p
      /\ seen' = [seen EXCEPT ![p] = taken.seen]
      /\ polled' = [polled EXCEPT ![p] = [chunk |-> c, position |-> pos]]
      /\ pc' = [pc EXCEPT ![p] = "polled"]
      /\ UNCHANGED <<log, committed, batch, out, dlq, faults, handled, life, lost>>
  BY DEF Poll
<1>2. c \in Seq(Nat) /\ taken.seen \in SUBSET Events /\ ChunkOf(taken, p, n)
  BY <1>1, ChunkTaken DEF KInv
<1> HIDE DEF taken
<1>3. pos \in Nat /\ pos \in committed..Len(log)
  BY <1>1, Facts
<1>4. /\ \A i \in DOMAIN c : c[i] \in (committed + 1)..pos /\ EventOf(c[i]) \in taken.seen \ seen[p]
      /\ \A i, j \in DOMAIN c : EventOf(c[i]) = EventOf(c[j]) => i = j
      /\ seen[p] \subseteq taken.seen
      /\ \A i \in (committed + 1)..pos : log[i].event \in taken.seen
      /\ \A e \in taken.seen \ seen[p] : \E i \in DOMAIN c : EventOf(c[i]) = e
  BY <1>2 DEF ChunkOf, EventOf
<1> HIDE DEF c, pos
<1>5. Range(c) \subseteq (committed + 1)..pos /\ Range(c) \subseteq DOMAIN log
      /\ \A i \in DOMAIN c : c[i] \in Range(c)
  <2>1. \A i \in (committed + 1)..pos : i \in 1..Len(log)
    BY <1>3, Facts
  <2>2. QED
    BY <2>1, <1>4, Facts DEF Range
<1>6. /\ seen'[p] = taken.seen /\ polled'[p] = [chunk |-> c, position |-> pos] /\ pc'[p] = "polled"
      /\ \A q \in Processes \ {p} : seen'[q] = seen[q] /\ polled'[q] = polled[q] /\ pc'[q] = pc[q]
  BY <1>1, Facts DEF TypePositions, Positions
<1>7. polled'[p].chunk = c /\ polled'[p].position = pos
  BY <1>6
<1>8. /\ Held(p)' = Range(batch[p]) \cup Range(c)
      /\ \A q \in Processes \ {p} : Held(q)' = Held(q)
  BY <1>1, <1>6, <1>7 DEF Held
<1>9. polled[p] = NoChunk /\ Held(p) = Range(batch[p])
  <2>1. polled[p] = NoChunk
    BY <1>1, Facts DEF Positions
  <2>2. QED
    BY <2>1 DEF Held, NoChunk, Range
<1>10. TypePositions'
  <2>1. TypePositions /\ \A q \in Processes : Range(batch[q]) \subseteq DOMAIN log
    BY Facts
  <2>2. seen' \in [Processes -> SUBSET Events] /\ pc' \in [Processes -> {"idle", "fetch", "polled", "handle"}]
    BY <2>1, <1>1, <1>2 DEF TypePositions, c
  <2>3. \A q \in Processes : (Held(q) \subseteq DOMAIN log /\ polled[q].position \in 0..Len(log))'
    <3>1. ASSUME NEW q \in Processes \ {p}
          PROVE  (Held(q) \subseteq DOMAIN log /\ polled[q].position \in 0..Len(log))'
      BY <2>1, <1>1, <1>6, <1>8 DEF TypePositions
    <3>2. (Held(p) \subseteq DOMAIN log /\ polled[p].position \in 0..Len(log))'
      BY <2>1, <1>1, <1>3, <1>5, <1>7, <1>8, Facts
    <3>3. QED
      BY <3>1, <3>2
  <2>4. QED
    BY <2>1, <2>2, <2>3, <1>1 DEF TypePositions
<1>11. Positions'
  <2>1. polled' \in [Processes -> [chunk : Seq(Nat), position : Nat]]
    BY <1>1, <1>2, <1>3, Facts DEF Positions, c
  <2>2. QED
    BY <2>1, <1>1, <1>6, Facts DEF Positions
<1>12. Partition'
  BY <1>1, Facts DEF Partition
<1>13. HolderCurrent'
  BY <1>1, <1>3, <1>4, <1>5, <1>6, <1>7 DEF HolderCurrent
<1>14. \A q \in Processes : OnceEach(q)'
  <2>1. ASSUME NEW q \in Processes \ {p} PROVE OnceEach(q)'
    <3>1. OnceEach(q)
      BY Facts
    <3>2. batch'[q] = batch[q] /\ polled'[q] = polled[q] /\ seen'[q] = seen[q] /\ life' = life /\ log' = log
      BY <1>1, <1>6
    <3>3. QED
      BY <3>1, <3>2 DEF OnceEach, EventOf
  <2>2. OnceEach(p)'
    <3>1. OnceEach(p)
      BY Facts
    <3>2. /\ batch'[p] = batch[p] /\ polled'[p].chunk = c /\ seen'[p] = taken.seen
          /\ life' = life /\ log' = log
      BY <1>1, <1>6, <1>7
    <3>3. QED
      BY <3>1, <3>2, <1>4 DEF OnceEach, EventOf
  <2>3. QED
    BY <2>1, <2>2
<1>15. KeyOncePerLife'
  BY <1>1, Facts DEF KeyOncePerLife
<1>16. SeenAccounted'
  <2>1. SeenAccounted
    BY Facts
  <2>2. ASSUME NEW e \in taken.seen
        PROVE  \E j \in Range(handled) \cup Range(batch[p]) \cup Range(c) \cup lost : EventOf(j) = e
    <3>1. CASE e \in seen[p]
      BY <3>1, <2>1, <1>9 DEF SeenAccounted
    <3>2. CASE e \notin seen[p]
      BY <3>2, <1>4, <1>5
    <3>3. QED
      BY <3>1, <3>2
  <2>3. ASSUME NEW q \in Processes, NEW e \in seen'[q]
        PROVE  \E j \in (Range(handled) \cup Held(q) \cup lost)' : EventOf(j)' = e
    <3>1. CASE q = p
      BY <3>1, <2>2, <1>1, <1>6, <1>8 DEF EventOf
    <3>2. CASE q # p
      BY <3>2, <2>1, <1>1, <1>6, <1>8 DEF EventOf, SeenAccounted
    <3>3. QED
      BY <3>1, <3>2
  <2>4. QED
    BY <2>3 DEF SeenAccounted, EventOf
<1>17. OffsetsAccounted'
  BY <1>1, Facts DEF OffsetsAccounted, InFlight
<1>18. QED
  BY <1>10, <1>11, <1>12, <1>13, <1>14, <1>15, <1>16, <1>17 DEF PositionsKept, PositionInv

LEMMA RangeOfNoChunk == Range(NoChunk.chunk) = {} /\ NoChunk.chunk = <<>> /\ NoChunk.position = 0
                        /\ NoChunk \in [chunk : Seq(Nat), position : Nat] /\ DOMAIN NoChunk.chunk = {}
  BY DEF NoChunk, Range

\* An event behind a position that the holder has polled is accounted for.
LEMMA PolledAccounted ==
  ASSUME KInv, NEW p \in Processes, holder = p, NEW i \in 1..polled[p].position
  PROVE  \E j \in Range(handled) \cup InFlight \cup lost \cup Held(p) : EventOf(j) = EventOf(i)
<1>1. CASE i \in 1..committed
  BY <1>1, Facts DEF OffsetsAccounted, EventOf
<1>2. CASE i \notin 1..committed
  <2>1. i \in (committed + 1)..polled[p].position
    BY <1>2, Facts
  <2>2. EventOf(i) \in seen[p]
    BY <2>1, Facts DEF HolderCurrent, EventOf
  <2>3. QED
    BY <2>2, Facts DEF SeenAccounted
<1>3. QED
  BY <1>1, <1>2

\* The holder commits: the offset passes what it polled, which joins its batch.
LEMMA CommitMoves ==
  ASSUME KInv, NEW p \in Processes, Commit(p)
  PROVE  PositionsKept
<1> DEFINE b == batch[p]
           c == polled[p].chunk
           pos == polled[p].position
<1>1. /\ pc[p] = "polled" /\ holder = p /\ committed' = pos /\ holder' = NoProcess
      /\ batch' = [batch EXCEPT ![p] = b \o c]
      /\ polled' = [polled EXCEPT ![p] = NoChunk]
      /\ pc' = [pc EXCEPT ![p] = IF c = <<>> THEN "handle" ELSE "fetch"]
      /\ UNCHANGED <<log, seen, out, dlq, faults, handled, life, lost>>
  BY DEF Commit
<1>2. /\ b \in Seq(Nat) /\ c \in Seq(Nat) /\ pos \in Nat
      /\ pos \in committed..Len(log)
      /\ Range(c) \subseteq (committed + 1)..pos
  BY <1>1, Facts DEF HolderCurrent
<1>3. /\ b \o c \in Seq(Nat)
      /\ Range(b \o c) = Range(b) \cup Range(c)
      /\ DOMAIN b = 1..Len(b) /\ DOMAIN c = 1..Len(c) /\ Len(b) \in Nat /\ Len(c) \in Nat
      /\ DOMAIN (b \o c) = 1..(Len(b) + Len(c))
      /\ \A i \in 1..(Len(b) + Len(c)) : (b \o c)[i] = IF i <= Len(b) THEN b[i] ELSE c[i - Len(b)]
  <2>1. /\ b \o c \in Seq(Nat) /\ Len(b \o c) = Len(b) + Len(c)
        /\ \A i \in 1..(Len(b) + Len(c)) : (b \o c)[i] = IF i <= Len(b) THEN b[i] ELSE c[i - Len(b)]
    BY <1>2, ConcatProperties
  <2>2. Range(b \o c) = Range(b) \cup Range(c)
    BY <1>2, RangeConcatenation
  <2> HIDE DEF b, c
  <2>3. /\ DOMAIN b = 1..Len(b) /\ DOMAIN c = 1..Len(c) /\ Len(b) \in Nat /\ Len(c) \in Nat
        /\ DOMAIN (b \o c) = 1..Len(b \o c)
    BY <1>2, <2>1, LenProperties
  <2>4. QED
    BY <2>1, <2>2, <2>3
<1>4. /\ batch'[p] = b \o c /\ polled'[p] = NoChunk /\ pc'[p] # "polled"
      /\ \A q \in Processes \ {p} : batch'[q] = batch[q] /\ polled'[q] = polled[q] /\ pc'[q] = pc[q]
  BY <1>1, Facts DEF TypePositions, Positions
<1>5. /\ Held(p) = Range(b) \cup Range(c)
      /\ \A q \in Processes : Held(q)' = Held(q)
  BY <1>3, <1>4, RangeOfNoChunk DEF Held
<1>6. NoProcess \notin Processes
  BY KafkaAssumption
<1> HIDE DEF b, c, pos
<1>7. TypePositions'
  <2>1. committed' \in 0..Len(log')
    BY <1>1, <1>2, Facts
  <2>2. pc' \in [Processes -> {"idle", "fetch", "polled", "handle"}]
    BY <1>1, Facts DEF TypePositions
  <2>3. \A q \in Processes : (Held(q) \subseteq DOMAIN log /\ polled[q].position \in 0..Len(log))'
    BY <1>1, <1>4, <1>5, RangeOfNoChunk, Facts DEF TypePositions
  <2>4. QED
    BY <1>1, <2>1, <2>2, <2>3, Facts DEF TypePositions
<1>8. Positions'
  <2>1. /\ batch' \in [Processes -> Seq(Nat)]
        /\ polled' \in [Processes -> [chunk : Seq(Nat), position : Nat]]
    BY <1>1, <1>3, RangeOfNoChunk, Facts DEF Positions
  <2>2. QED
    BY <2>1, <1>1, <1>4, Facts DEF Positions
<1>9. Partition'
  <2>1. Partition
    BY Facts
  <2>2. 1..committed \subseteq 1..pos /\ (1..committed) \cap Range(c) = {} /\ Range(c) \subseteq 1..pos
    BY <1>2, Facts
  <2>3. Range(batch[p]) = Range(b)
    BY DEF b
  <2>4. \A q \in Processes : Range(batch'[q]) = IF q = p THEN Range(b) \cup Range(c) ELSE Range(batch[q])
    BY <1>3, <1>4
  <2>5. \A q \in Processes : Range(batch'[q]) \subseteq (1..pos) \ Range(handled)
    BY <2>1, <2>2, <2>3, <2>4 DEF Partition
  <2>6. \A q, r \in Processes : q # r => Range(batch'[q]) \cap Range(batch'[r]) = {}
    BY <2>1, <2>2, <2>3, <2>4 DEF Partition
  <2>7. QED
    BY <1>1, <2>1, <2>2, <2>5, <2>6 DEF Partition
<1>10. HolderCurrent'
  BY <1>1, <1>6 DEF HolderCurrent
<1>11. \A q \in Processes : OnceEach(q)'
  <2>1. ASSUME NEW q \in Processes \ {p} PROVE OnceEach(q)'
    <3>1. OnceEach(q)
      BY Facts
    <3>2. batch'[q] = batch[q] /\ polled'[q] = polled[q] /\ seen'[q] = seen[q] /\ life' = life /\ log' = log
      BY <1>1, <1>4
    <3>3. QED
      BY <3>1, <3>2 DEF OnceEach, EventOf
  <2>2. OnceEach(p)'
    <3>1. /\ \A i, j \in DOMAIN b : EventOf(b[i]) = EventOf(b[j]) => i = j
          /\ \A i, j \in DOMAIN c : EventOf(c[i]) = EventOf(c[j]) => i = j
          /\ \A i \in DOMAIN b, j \in DOMAIN c : EventOf(b[i]) # EventOf(c[j])
          /\ \A i \in DOMAIN b : EventOf(b[i]) \in seen[p] \ Range(life[p])
          /\ \A i \in DOMAIN c : EventOf(c[i]) \in seen[p] \ Range(life[p])
          /\ Range(life[p]) \subseteq seen[p]
      BY Facts DEF OnceEach, b, c
    <3> DEFINE d == b \o c
    <3>2. \A i \in DOMAIN d : \/ i \in DOMAIN b /\ d[i] = b[i]
                              \/ i - Len(b) \in DOMAIN c /\ d[i] = c[i - Len(b)] /\ i \in Int
      BY <1>3
    <3>3. Len(b) \in Nat
      BY <1>3
    <3> HIDE DEF d
    <3>4. \A i, j \in DOMAIN d : EventOf(d[i]) = EventOf(d[j]) => i = j
      <4> SUFFICES ASSUME NEW i \in DOMAIN d, NEW j \in DOMAIN d, EventOf(d[i]) = EventOf(d[j])
                   PROVE  i = j
        OBVIOUS
      <4>1. CASE i \in DOMAIN b /\ d[i] = b[i]
        BY <4>1, <3>1, <3>2
      <4>2. CASE i - Len(b) \in DOMAIN c /\ d[i] = c[i - Len(b)] /\ i \in Int
        <5>1. j - Len(b) \in DOMAIN c /\ d[j] = c[j - Len(b)] /\ j \in Int
          BY <4>2, <3>1, <3>2
        <5>2. i - Len(b) = j - Len(b)
          BY <5>1, <4>2, <3>1
        <5>3. QED
          BY <5>1, <5>2, <4>2, <3>3
      <4>3. QED
        BY <4>1, <4>2, <3>2
    <3>5. \A i \in DOMAIN d : EventOf(d[i]) \in seen[p] \ Range(life[p])
      BY <3>1, <3>2
    <3>6. /\ batch'[p] = d /\ polled'[p].chunk = <<>> /\ DOMAIN polled'[p].chunk = {}
          /\ seen' = seen /\ life' = life /\ log' = log
      BY <1>1, <1>4, RangeOfNoChunk DEF d
    <3>7. QED
      BY <3>1, <3>4, <3>5, <3>6 DEF OnceEach, EventOf
  <2>3. QED
    BY <2>1, <2>2
<1>12. KeyOncePerLife'
  BY <1>1, Facts DEF KeyOncePerLife
<1>13. SeenAccounted'
  <2>1. SeenAccounted
    BY Facts
  <2>2. QED
    BY <2>1, <1>1, <1>5 DEF SeenAccounted, EventOf
<1>14. OffsetsAccounted'
  <2>1. InFlight' = InFlight \cup Held(p)
    <3>1. \A q \in Processes : Range(batch'[q]) = IF q = p THEN Held(p) ELSE Range(batch[q])
      BY <1>3, <1>4, <1>5
    <3>2. Range(batch[p]) \subseteq Held(p)
      BY DEF Held
    <3>3. QED
      BY <3>1, <3>2 DEF InFlight
  <2>2. \A i \in 1..pos : \E j \in Range(handled) \cup InFlight' \cup lost : EventOf(j) = EventOf(i)
    BY <1>1, <2>1, PolledAccounted DEF pos
  <2>3. QED
    BY <1>1, <2>2 DEF OffsetsAccounted, EventOf
<1>15. QED
  BY <1>7, <1>8, <1>9, <1>10, <1>11, <1>12, <1>13, <1>14 DEF PositionsKept, PositionInv

\* A drain fails or its process dies: what it held is lost, and the offset may
\* have moved past what it polled.
LEMMA RaisesMoves ==
  ASSUME KInv, NEW p \in Processes, Raises(p), LogKept, log' \in Seq(Message), handled' = handled,
         \/ committed' = committed
         \/ holder = p /\ committed' = polled[p].position,
         \/ UNCHANGED <<seen, life>>
         \/ seen' = [seen EXCEPT ![p] = {}] /\ life' = [life EXCEPT ![p] = <<>>]
  PROVE  PositionsKept
<1>1. /\ pc' = [pc EXCEPT ![p] = "idle"]
      /\ batch' = [batch EXCEPT ![p] = <<>>]
      /\ polled' = [polled EXCEPT ![p] = NoChunk]
      /\ holder' = (IF holder = p THEN NoProcess ELSE holder)
      /\ lost' = lost \cup Held(p)
  BY DEF Raises, Released
<1>2. /\ Len(log') \in Nat /\ DOMAIN log' = 1..Len(log') /\ Len(log) <= Len(log')
      /\ \A i \in DOMAIN log : i \in DOMAIN log' /\ log'[i] = log[i] /\ EventOf(i)' = EventOf(i)
  BY DEF LogKept, EventOf
<1>3. NoProcess \notin Processes
  BY KafkaAssumption
<1>4. /\ batch'[p] = <<>> /\ polled'[p] = NoChunk /\ pc'[p] = "idle"
      /\ \A q \in Processes \ {p} : /\ batch'[q] = batch[q] /\ polled'[q] = polled[q] /\ pc'[q] = pc[q]
                                    /\ seen'[q] = seen[q] /\ life'[q] = life[q]
      /\ \/ seen'[p] = seen[p] /\ life'[p] = life[p]
         \/ seen'[p] = {} /\ life'[p] = <<>>
  BY <1>1, Facts DEF TypePositions, Positions
<1>5. Range(<<>>) = {} /\ <<>> \in Seq(Nat) /\ <<>> \in Seq(Events)
  BY DEF Range
<1>6. /\ Held(p)' = {}
      /\ \A q \in Processes \ {p} : Held(q)' = Held(q)
  BY <1>4, <1>5, RangeOfNoChunk DEF Held
<1>7. committed' \in committed..Len(log) /\ committed' \in Nat /\ 1..committed \subseteq 1..committed'
  <2>1. committed' \in committed..Len(log)
    BY Facts DEF HolderCurrent
  <2>2. QED
    BY <2>1, Facts
<1>8. TypePositions'
  <2>1. TypePositions
    BY Facts
  <2>2. committed' \in 0..Len(log')
    BY <1>2, <1>7, Facts
  <2>3. holder' \in Processes \cup {NoProcess} /\ pc' \in [Processes -> {"idle", "fetch", "polled", "handle"}]
    BY <1>1, <2>1 DEF TypePositions
  <2>4. seen' \in [Processes -> SUBSET Events] /\ life' \in [Processes -> Seq(Events)]
    BY <2>1, <1>5 DEF TypePositions
  <2>5. Range(handled) \subseteq DOMAIN log' /\ lost' \subseteq DOMAIN log'
    BY <1>1, <1>2, <2>1 DEF TypePositions
  <2>6. \A q \in Processes : (Held(q) \subseteq DOMAIN log /\ polled[q].position \in 0..Len(log))'
    <3>1. \A k \in 0..Len(log) : k \in 0..Len(log')
      BY <1>2, Facts
    <3>2. 0 \in 0..Len(log')
      BY <1>2
    <3>3. ASSUME NEW q \in Processes \ {p}
          PROVE  (Held(q) \subseteq DOMAIN log /\ polled[q].position \in 0..Len(log))'
      <4>1. Held(q) \subseteq DOMAIN log /\ polled[q].position \in 0..Len(log)
        BY <2>1 DEF TypePositions
      <4>2. QED
        BY <4>1, <3>1, <1>2, <1>4, <1>6
    <3>4. (Held(p) \subseteq DOMAIN log /\ polled[p].position \in 0..Len(log))'
      BY <3>2, <1>4, <1>6, RangeOfNoChunk
    <3>5. QED
      BY <3>3, <3>4
  <2>7. QED
    BY <2>2, <2>3, <2>4, <2>5, <2>6 DEF TypePositions
<1>9. Positions'
  <2>1. /\ batch' \in [Processes -> Seq(Nat)]
        /\ polled' \in [Processes -> [chunk : Seq(Nat), position : Nat]]
    BY <1>1, <1>5, RangeOfNoChunk, Facts DEF Positions
  <2>2. QED
    BY <2>1, <1>4, Facts DEF Positions
<1>10. Partition'
  <2>1. Partition
    BY Facts
  <2>2. \A q \in Processes : Range(batch'[q]) = IF q = p THEN {} ELSE Range(batch[q])
    BY <1>4, <1>5
  <2>3. QED
    BY <2>1, <2>2, <1>7 DEF Partition
<1>11. HolderCurrent'
  <2> SUFFICES ASSUME NEW q \in Processes, holder' = q
               PROVE  /\ pc'[q] = "polled"
                      /\ polled'[q].position \in committed'..Len(log')
                      /\ Range(polled'[q].chunk) \subseteq (committed' + 1)..polled'[q].position
                      /\ \A i \in (committed' + 1)..polled'[q].position : log'[i].event \in seen'[q]
    BY DEF HolderCurrent
  <2>1. holder = q /\ q # p
    BY <1>1, <1>3
  <2>2. committed' = committed /\ polled'[q] = polled[q] /\ pc'[q] = pc[q] /\ seen'[q] = seen[q]
    BY <2>1, <1>4
  <2>3. /\ pc[q] = "polled"
        /\ polled[q].position \in committed..Len(log)
        /\ Range(polled[q].chunk) \subseteq (committed + 1)..polled[q].position
        /\ \A i \in (committed + 1)..polled[q].position : log[i].event \in seen[q]
    BY <2>1, Facts DEF HolderCurrent
  <2>4. \A i \in (committed + 1)..polled[q].position : i \in DOMAIN log
    BY Facts
  <2>5. polled[q].position \in committed..Len(log')
    BY <1>2, <2>3, Facts
  <2>6. QED
    BY <1>2, <2>2, <2>3, <2>4, <2>5
<1>12. \A q \in Processes : OnceEach(q)'
  <2>1. ASSUME NEW q \in Processes \ {p} PROVE OnceEach(q)'
    <3>1. \A i \in DOMAIN batch[q] : log'[batch[q][i]] = log[batch[q][i]]
      BY <1>2, Facts
    <3>2. \A i \in DOMAIN polled[q].chunk : log'[polled[q].chunk[i]] = log[polled[q].chunk[i]]
      BY <1>2, Facts
    <3>3. OnceEach(q)
      BY Facts
    <3>4. batch'[q] = batch[q] /\ polled'[q] = polled[q] /\ seen'[q] = seen[q] /\ life'[q] = life[q]
      BY <1>4
    <3>5. QED
      BY <3>1, <3>2, <3>3, <3>4, OnceEachStays
  <2>2. OnceEach(p)'
    <3>1. DOMAIN batch'[p] = {} /\ DOMAIN polled'[p].chunk = {}
      BY <1>4, RangeOfNoChunk
    <3>2. Range(life'[p]) \subseteq seen'[p]
      <4>1. Range(life[p]) \subseteq seen[p]
        BY Facts DEF OnceEach
      <4>2. QED
        BY <4>1, <1>4, <1>5
    <3>3. QED
      BY <3>1, <3>2 DEF OnceEach
  <2>3. QED
    BY <2>1, <2>2
<1>13. KeyOncePerLife'
  <2>1. KeyOncePerLife
    BY Facts
  <2>2. IsInjective(<<>>)
    BY DEF IsInjective
  <2>3. QED
    BY <2>1, <2>2, <1>4 DEF KeyOncePerLife
<1>14. SeenAccounted'
  <2>1. ASSUME NEW q \in Processes, NEW e \in seen'[q]
        PROVE  \E j \in (Range(handled) \cup Held(q) \cup lost)' : EventOf(j)' = e
    <3>1. e \in seen[q]
      BY <1>4
    <3>2. PICK j \in Range(handled) \cup Held(q) \cup lost : EventOf(j) = e
      BY <3>1, Facts DEF SeenAccounted
    <3>3. j \in DOMAIN log
      BY <3>2, Facts DEF TypePositions
    <3>4. j \in (Range(handled) \cup Held(q) \cup lost)'
      BY <3>2, <1>1, <1>6
    <3>5. QED
      BY <3>2, <3>3, <3>4, <1>2
  <2>2. QED
    BY <2>1 DEF SeenAccounted, EventOf
<1>15. OffsetsAccounted'
  <2> DEFINE old == Range(handled) \cup InFlight \cup lost
             new == Range(handled) \cup InFlight' \cup lost'
  <2>1. old \subseteq new /\ Held(p) \subseteq new /\ new \subseteq DOMAIN log
    <3>1. \A q \in Processes : Range(batch'[q]) = IF q = p THEN {} ELSE Range(batch[q])
      BY <1>4, <1>5
    <3>2. Range(batch[p]) \subseteq Held(p)
      BY DEF Held
    <3>3. InFlight \subseteq InFlight' \cup Held(p) /\ InFlight' \subseteq InFlight
      BY <3>1, <3>2 DEF InFlight
    <3>4. InFlight \subseteq DOMAIN log
      BY Facts DEF InFlight
    <3>5. QED
      BY <3>3, <3>4, <1>1, Facts DEF TypePositions
  <2>2. ASSUME NEW i \in 1..committed'
        PROVE  \E j \in new : EventOf(j) = EventOf(i)
    <3>1. CASE committed' = committed
      BY <3>1, <2>1, Facts DEF OffsetsAccounted, EventOf
    <3>2. CASE holder = p /\ committed' = polled[p].position
      BY <3>2, <2>1, PolledAccounted
    <3>3. QED
      BY <3>1, <3>2
  <2>3. 1..committed' \subseteq DOMAIN log
    BY <1>7, Facts
  <2> HIDE DEF new
  <2>4. \A i \in 1..committed' : \E j \in new : EventOf(j)' = EventOf(i)'
    BY <2>1, <2>2, <2>3, <1>2
  <2>5. QED
    BY <2>4 DEF OffsetsAccounted, EventOf, new
<1>16. QED
  BY <1>8, <1>9, <1>10, <1>11, <1>12, <1>13, <1>14, <1>15 DEF PositionsKept, PositionInv

\* A message is handled: its position leaves the batch.
LEMMA HandlesMoves ==
  ASSUME KInv, NEW p \in Processes, Handles(p), LogKept, log' \in Seq(Message),
         batch' = [batch EXCEPT ![p] = Tail(@)],
         UNCHANGED <<committed, holder, seen, pc, polled, lost>>
  PROVE  PositionsKept
<1>0. PICK b, h, t, e : b = batch[p] /\ h = Head(b) /\ t = Tail(b) /\ e = log[h].event
  OBVIOUS
<1>1. /\ pc[p] = "handle" /\ b # <<>>
      /\ handled' = Append(handled, h)
      /\ life' = [life EXCEPT ![p] = Append(@, e)]
  BY <1>0 DEF Handles
<1>2. /\ Len(log') \in Nat /\ DOMAIN log' = 1..Len(log') /\ Len(log) <= Len(log')
      /\ \A i \in DOMAIN log : i \in DOMAIN log' /\ log'[i] = log[i] /\ EventOf(i)' = EventOf(i)
  BY DEF LogKept, EventOf
<1>3. h \in Nat /\ h \in DOMAIN log /\ e \in Events /\ b \in Seq(Nat)
  BY <1>0, <1>1, HeadMessage, Facts
<1>4. /\ t \in Seq(Nat) /\ 1 \in DOMAIN b /\ h = b[1]
      /\ \A i \in DOMAIN t : i + 1 \in DOMAIN b /\ t[i] = b[i + 1] /\ i \in Nat /\ i # 0
      /\ Range(b) = {h} \cup Range(t)
  <2>1. b \in Seq(Nat) /\ b # <<>>
    BY <1>1, <1>3
  <2>2. /\ t \in Seq(Nat) /\ 1 \in DOMAIN b /\ h = b[1]
        /\ \A i \in DOMAIN t : i + 1 \in DOMAIN b /\ t[i] = b[i + 1]
        /\ Range(b) = {h} \cup Range(t)
    BY <1>0, <2>1, RangeOfTail
  <2>3. \A i \in DOMAIN t : i \in Nat /\ i # 0
    BY <2>2
  <2>4. QED
    BY <2>2, <2>3
<1>5. /\ handled' \in Seq(Nat) /\ Range(handled') = Range(handled) \cup {h}
      /\ Append(life[p], e) \in Seq(Events) /\ Range(Append(life[p], e)) = Range(life[p]) \cup {e}
      /\ handled \in Seq(Nat) /\ life[p] \in Seq(Events)
  <2>1. handled \in Seq(Nat) /\ life[p] \in Seq(Events)
    BY Facts DEF Positions, TypePositions
  <2>2. Range(Append(handled, h)) = Range(handled) \cup {h} /\ Append(handled, h) \in Seq(Nat)
    BY <2>1, <1>3, RangeOfAppend
  <2>3. Range(Append(life[p], e)) = Range(life[p]) \cup {e} /\ Append(life[p], e) \in Seq(Events)
    BY <2>1, <1>3, RangeOfAppend
  <2>4. QED
    BY <2>1, <2>2, <2>3, <1>1
<1>6. /\ batch'[p] = t /\ life'[p] = Append(life[p], e)
      /\ \A q \in Processes \ {p} : batch'[q] = batch[q] /\ life'[q] = life[q]
  BY <1>0, <1>1, Facts DEF TypePositions, Positions
<1>7. polled[p] = NoChunk /\ polled'[p] = NoChunk /\ polled[p].chunk = <<>> /\ DOMAIN polled[p].chunk = {}
  BY <1>1, RangeOfNoChunk, Facts DEF Positions
<1>8. /\ \A i, j \in DOMAIN b : EventOf(b[i]) = EventOf(b[j]) => i = j
      /\ \A i \in DOMAIN b : EventOf(b[i]) \in seen[p] \ Range(life[p])
      /\ Range(life[p]) \subseteq seen[p]
  BY <1>0, Facts DEF OnceEach
<1>9. e = EventOf(h) /\ e \in seen[p] /\ e \notin Range(life[p])
  BY <1>0, <1>4, <1>8 DEF EventOf
<1>10. \A i \in DOMAIN t : EventOf(t[i]) # e /\ t[i] \in DOMAIN log
  <2>1. ASSUME NEW i \in DOMAIN t PROVE EventOf(t[i]) # e
    <3>1. i + 1 \in DOMAIN b /\ i + 1 # 1 /\ t[i] = b[i + 1]
      BY <1>4
    <3>2. QED
      BY <3>1, <1>4, <1>8, <1>9
  <2>2. QED
    BY <2>1, <1>0, <1>4, Facts
<1>11. h \notin Range(t)
  BY <1>9, <1>10 DEF Range
<1>12. /\ Held(p) = {h} \cup Range(t) /\ Held(p)' = Range(t)
       /\ \A q \in Processes \ {p} : Held(q)' = Held(q)
  <2>1. Held(p) = Range(b)
    BY <1>0, <1>7, RangeOfNoChunk DEF Held
  <2>2. Held(p)' = Range(t)
    BY <1>6, <1>7, RangeOfNoChunk DEF Held
  <2>3. QED
    BY <1>4, <1>6, <2>1, <2>2 DEF Held
<1>13. TypePositions'
  <2>1. TypePositions
    BY Facts
  <2>2. \A k \in 0..Len(log) : k \in 0..Len(log')
    BY <1>2, Facts
  <2>3. \A q \in Processes : (Held(q) \subseteq DOMAIN log /\ polled[q].position \in 0..Len(log))'
    <3>1. ASSUME NEW q \in Processes
          PROVE  (Held(q) \subseteq DOMAIN log /\ polled[q].position \in 0..Len(log))'
      <4>1. Held(q) \subseteq DOMAIN log /\ polled[q].position \in 0..Len(log)
        BY <2>1 DEF TypePositions
      <4>2. Held(q)' \subseteq Held(q)
        BY <1>12
      <4>3. QED
        BY <4>1, <4>2, <2>2, <1>2
    <3>2. QED
      BY <3>1
  <2>4. life' \in [Processes -> Seq(Events)]
    BY <2>1, <1>1, <1>5 DEF TypePositions
  <2>5. Range(handled') \subseteq DOMAIN log' /\ lost \subseteq DOMAIN log'
    BY <2>1, <1>2, <1>3, <1>5 DEF TypePositions
  <2>6. QED
    BY <2>1, <2>2, <2>3, <2>4, <2>5 DEF TypePositions
<1>14. Positions'
  <2>1. batch' \in [Processes -> Seq(Nat)]
    BY <1>0, <1>4, Facts DEF Positions
  <2>2. QED
    BY <2>1, <1>5, Facts DEF Positions
<1>15. Partition'
  <2>1. Partition
    BY Facts
  <2>2. Range(batch[p]) = {h} \cup Range(t)
    BY <1>0, <1>4
  <2>3. \A q \in Processes : Range(batch'[q]) = IF q = p THEN Range(t) ELSE Range(batch[q])
    BY <1>0, Facts DEF Positions
  <2>4. Range(handled') \subseteq 1..committed
    BY <2>1, <2>2, <1>5 DEF Partition
  <2>5. \A q \in Processes : Range(batch'[q]) \subseteq (1..committed) \ Range(handled')
    BY <2>1, <2>2, <2>3, <1>5, <1>11 DEF Partition
  <2>6. \A q, r \in Processes : q # r => Range(batch'[q]) \cap Range(batch'[r]) = {}
    BY <2>1, <2>2, <2>3 DEF Partition
  <2>7. QED
    BY <2>4, <2>5, <2>6 DEF Partition
<1>16. HolderCurrent'
  <2> SUFFICES ASSUME NEW q \in Processes, holder = q
               PROVE  /\ pc[q] = "polled"
                      /\ polled[q].position \in committed..Len(log')
                      /\ Range(polled[q].chunk) \subseteq (committed + 1)..polled[q].position
                      /\ \A i \in (committed + 1)..polled[q].position : log'[i].event \in seen[q]
    BY DEF HolderCurrent
  <2>1. /\ pc[q] = "polled"
        /\ polled[q].position \in committed..Len(log)
        /\ Range(polled[q].chunk) \subseteq (committed + 1)..polled[q].position
        /\ \A i \in (committed + 1)..polled[q].position : log[i].event \in seen[q]
    BY Facts DEF HolderCurrent
  <2>2. \A i \in (committed + 1)..polled[q].position : i \in DOMAIN log
    BY Facts
  <2>3. polled[q].position \in committed..Len(log')
    BY <1>2, <2>1, Facts
  <2>4. QED
    BY <1>2, <2>1, <2>2, <2>3
<1>17. \A q \in Processes : OnceEach(q)'
  <2>1. ASSUME NEW q \in Processes \ {p} PROVE OnceEach(q)'
    <3>1. \A i \in DOMAIN batch[q] : log'[batch[q][i]] = log[batch[q][i]]
      BY <1>2, Facts
    <3>2. \A i \in DOMAIN polled[q].chunk : log'[polled[q].chunk[i]] = log[polled[q].chunk[i]]
      BY <1>2, Facts
    <3>3. OnceEach(q)
      BY Facts
    <3>4. batch'[q] = batch[q] /\ polled'[q] = polled[q] /\ seen'[q] = seen[q] /\ life'[q] = life[q]
      BY <1>6
    <3>5. QED
      BY <3>1, <3>2, <3>3, <3>4, OnceEachStays
  <2>2. OnceEach(p)'
    <3>1. \A i \in DOMAIN t : EventOf(t[i])' = EventOf(t[i])
      BY <1>2, <1>10 DEF EventOf
    <3>2. \A i, j \in DOMAIN t : EventOf(t[i]) = EventOf(t[j]) => i = j
      <4> SUFFICES ASSUME NEW i \in DOMAIN t, NEW j \in DOMAIN t, EventOf(t[i]) = EventOf(t[j]) PROVE i = j
        OBVIOUS
      <4>1. i + 1 = j + 1
        BY <1>4, <1>8
      <4>2. QED
        BY <4>1, <1>4
    <3>3. \A i \in DOMAIN t : EventOf(t[i]) \in seen[p] \ (Range(life[p]) \cup {e})
      BY <1>4, <1>8, <1>10
    <3>4. Range(life'[p]) = Range(life[p]) \cup {e} /\ Range(life'[p]) \subseteq seen[p]
      BY <1>5, <1>6, <1>8, <1>9
    <3>5. batch'[p] = t /\ DOMAIN polled'[p].chunk = {} /\ seen' = seen
      BY <1>6, <1>7
    <3>6. /\ \A i, j \in DOMAIN t : EventOf(t[i])' = EventOf(t[j])' => i = j
          /\ \A i \in DOMAIN t : EventOf(t[i])' \in seen[p] \ Range(life'[p])
      BY <3>1, <3>2, <3>3, <3>4
    <3>7. QED
      BY <3>4, <3>5, <3>6 DEF OnceEach, EventOf
  <2>3. QED
    BY <2>1, <2>2
<1>18. KeyOncePerLife'
  <2>1. KeyOncePerLife
    BY Facts
  <2>2. IsInjective(life'[p])
    <3> DEFINE l == life[p]
    <3>1. /\ l \in Seq(Events) /\ IsInjective(l) /\ e \notin Range(l)
      BY <1>5, <1>9, <2>1 DEF KeyOncePerLife
    <3> HIDE DEF l
    <3>2. /\ DOMAIN Append(l, e) = 1..(Len(l) + 1) /\ DOMAIN l = 1..Len(l) /\ Len(l) \in Nat
          /\ \A i \in 1..Len(l) : Append(l, e)[i] = l[i] /\ l[i] # e
          /\ Append(l, e)[Len(l) + 1] = e
          /\ \A i \in 1..(Len(l) + 1) : i \in 1..Len(l) \/ i = Len(l) + 1
      BY <3>1 DEF Range
    <3>3. IsInjective(Append(l, e))
      BY <3>1, <3>2 DEF IsInjective
    <3>4. QED
      BY <3>3, <1>6 DEF l
  <2>3. QED
    BY <2>1, <2>2, <1>6 DEF KeyOncePerLife
<1>19. SeenAccounted'
  <2>1. ASSUME NEW q \in Processes, NEW x \in seen[q]
        PROVE  \E j \in (Range(handled) \cup Held(q) \cup lost)' : EventOf(j)' = x
    <3>1. PICK j \in Range(handled) \cup Held(q) \cup lost : EventOf(j) = x
      BY Facts DEF SeenAccounted
    <3>2. j \in DOMAIN log
      BY <3>1, Facts DEF TypePositions
    <3>3. j \in (Range(handled) \cup Held(q) \cup lost)'
      <4>1. CASE q = p
        BY <3>1, <4>1, <1>5, <1>12
      <4>2. CASE q # p
        BY <3>1, <4>2, <1>5, <1>12
      <4>3. QED
        BY <4>1, <4>2
    <3>4. EventOf(j)' = x
      BY <3>1, <3>2, <1>2 DEF EventOf
    <3>5. QED
      BY <3>3, <3>4
  <2>2. QED
    BY <2>1 DEF SeenAccounted, EventOf
<1>20. OffsetsAccounted'
  <2> DEFINE old == Range(handled) \cup InFlight \cup lost
             new == Range(handled') \cup InFlight' \cup lost
  <2>1. old \subseteq new /\ old \subseteq DOMAIN log
    <3>1. Range(batch[p]) = {h} \cup Range(t)
      BY <1>0, <1>4
    <3>2. \A q \in Processes : Range(batch'[q]) = IF q = p THEN Range(t) ELSE Range(batch[q])
      BY <1>0, Facts DEF Positions
    <3>3. InFlight \subseteq InFlight' \cup {h}
      BY <3>1, <3>2 DEF InFlight
    <3>4. InFlight \subseteq DOMAIN log
      BY Facts DEF InFlight
    <3>5. QED
      BY <3>3, <3>4, <1>5, Facts DEF TypePositions
  <2>2. ASSUME NEW i \in 1..committed
        PROVE  \E j \in new : EventOf(j)' = EventOf(i)'
    <3>1. PICK j \in old : EventOf(j) = EventOf(i)
      BY Facts DEF OffsetsAccounted, EventOf
    <3>2. i \in DOMAIN log
      BY Facts
    <3>3. QED
      BY <3>1, <3>2, <2>1, <1>2
  <2>3. QED
    BY <2>2 DEF OffsetsAccounted, EventOf
<1>21. QED
  BY <1>13, <1>14, <1>15, <1>16, <1>17, <1>18, <1>19, <1>20 DEF PositionsKept, PositionInv

LEMMA PositionsStep ==
  ASSUME KInv, [Next]_vars
  PROVE  PositionsKept
<1>1. LogKept /\ log' \in Seq(Message)
  BY MessagesStep DEF MessagesKept, TypeMessages
<1>2. pc \in [Processes -> {"idle", "fetch", "polled", "handle"}]
  BY DEF KInv, TypeOK
<1>3. CASE UNCHANGED vars
  BY <1>1, <1>2, <1>3, NothingMoves DEF vars
<1>4. ASSUME NEW e \in Events, IngestRaw(e) PROVE PositionsKept
  BY <1>1, <1>2, <1>4, NothingMoves DEF IngestRaw
<1>5. ASSUME NEW p \in Processes, StartDrain(p) \/ PollTimesOut(p) \/ EndDrain(p) PROVE PositionsKept
  <2>1. PICK s \in {"idle", "fetch", "handle"} : pc' = [pc EXCEPT ![p] = s]
    BY <1>5 DEF StartDrain, PollTimesOut, EndDrain
  <2>2. pc[p] # "polled"
    BY <1>5 DEF StartDrain, PollTimesOut, EndDrain
  <2>3. UNCHANGED <<committed, seen, polled, batch, handled, life, lost, holder>>
    BY <1>5 DEF StartDrain, PollTimesOut, EndDrain
  <2>4. QED
    BY <1>1, <1>2, <2>1, <2>2, <2>3, NothingMoves
<1>6. ASSUME NEW p \in Processes, Evict(p) PROVE PositionsKept
  BY <1>1, <1>2, <1>6, NothingMoves DEF Evict
<1>7. ASSUME NEW p \in Processes, NEW n \in Nat, Poll(p, n) PROVE PositionsKept
  BY <1>7, PollMoves
<1>8. ASSUME NEW p \in Processes, Commit(p) PROVE PositionsKept
  BY <1>8, CommitMoves
<1>9. ASSUME NEW p \in Processes, CommitRefused(p) \/ CommitFails(p) \/ RetryTimesOut(p) \/ Crash(p)
      PROVE  PositionsKept
  <2>1. /\ Raises(p) /\ handled' = handled
        /\ \/ committed' = committed
           \/ holder = p /\ committed' = polled[p].position
        /\ \/ UNCHANGED <<seen, life>>
           \/ seen' = [seen EXCEPT ![p] = {}] /\ life' = [life EXCEPT ![p] = <<>>]
    BY <1>9 DEF CommitRefused, CommitFails, RetryTimesOut, Crash
  <2>2. QED
    BY <1>1, <2>1, RaisesMoves
<1>10. ASSUME NEW p \in Processes, Normalize(p) \/ NormalizeFails(p) \/ PublishTimesOut(p)
       PROVE  PositionsKept
  <2>1. /\ Handles(p) /\ batch' = [batch EXCEPT ![p] = Tail(@)]
        /\ UNCHANGED <<committed, holder, seen, pc, polled, lost>>
    BY <1>10 DEF Normalize, NormalizeFails, PublishTimesOut
  <2>2. QED
    BY <1>1, <2>1, HandlesMoves
<1>11. 0 \in Nat /\ 1..MaxRecords \subseteq Nat
  BY KafkaAssumption
<1>12. QED
  BY <1>3, <1>4, <1>5, <1>6, <1>7, <1>8, <1>9, <1>10, <1>11 DEF Next, Continue, PollSome

-----------------------------------------------------------------------------
(* The theorems                                                             *)

LEMMA InitKInv == Init => KInv
<1> SUFFICES ASSUME Init PROVE KInv
  OBVIOUS
<1>1. /\ log = <<>> /\ out = {} /\ dlq = <<>> /\ committed = 0 /\ holder = NoProcess
      /\ seen = [p \in Processes |-> {}]
      /\ pc = [p \in Processes |-> "idle"]
      /\ polled = [p \in Processes |-> NoChunk]
      /\ batch = [p \in Processes |-> <<>>]
      /\ faults = 0 /\ handled = <<>>
      /\ life = [p \in Processes |-> <<>>]
      /\ lost = {}
  BY DEF Init
<1>2. Range(<<>>) = {} /\ DOMAIN <<>> = {}
  BY DEF Range
<1>3. NoProcess \notin Processes /\ MaxFaults \in Nat
  BY KafkaAssumption
<1>4. \A p \in Processes : Held(p) = {} /\ polled[p].position = 0 /\ DOMAIN polled[p].chunk = {}
  BY <1>1, <1>2, RangeOfNoChunk DEF Held
<1>5. TypeOK
  BY <1>1, <1>2, <1>3, <1>4 DEF TypeOK
<1>6. MessageInv
  BY <1>1, <1>2 DEF MessageInv, Tried, DeadLetterTried
<1>7. Positions /\ Partition /\ HolderCurrent
  <2>1. Positions
    BY <1>1, RangeOfNoChunk DEF Positions
  <2>2. Partition
    BY <1>1, <1>2 DEF Partition
  <2>3. HolderCurrent
    BY <1>1, <1>3 DEF HolderCurrent
  <2>4. QED
    BY <2>1, <2>2, <2>3
<1>8. \A p \in Processes : OnceEach(p)
  BY <1>1, <1>2, <1>4 DEF OnceEach
<1>9. KeyOncePerLife
  BY <1>1 DEF KeyOncePerLife, IsInjective
<1>10. SeenAccounted /\ OffsetsAccounted
  BY <1>1 DEF SeenAccounted, OffsetsAccounted
<1>11. QED
  BY <1>5, <1>6, <1>7, <1>8, <1>9, <1>10 DEF KInv, PositionInv

LEMMA NextKInv == KInv /\ [Next]_vars => KInv'
<1> SUFFICES ASSUME KInv, [Next]_vars PROVE KInv'
  OBVIOUS
<1>1. TypeMessages' /\ MessageInv'
  BY MessagesStep DEF MessagesKept
<1>2. TypePositions' /\ PositionInv'
  BY PositionsStep DEF PositionsKept
<1>3. TypeOK'
  BY <1>1, <1>2 DEF TypeOK, TypeMessages, TypePositions
<1>4. QED
  BY <1>1, <1>2, <1>3 DEF KInv

\* The positions and the keys that processes hold, have handled or have lost
\* account for all that the consumer group has passed, in every reachable state
\* (consume and drain_raw).
THEOREM KafkaInvariant == Spec => []KInv
  BY InitKInv, NextKInv, PTL DEF Spec

\* The committed offset passes no event that was not handled, does not wait in
\* a process and was not held by a drain that failed (consume commits before
\* drain_raw handles).
THEOREM KafkaOffsets == Spec => []OffsetsAccounted
<1>1. KInv => OffsetsAccounted
  BY DEF KInv, PositionInv
<1>2. QED
  BY <1>1, KafkaInvariant, PTL

\* A process handles an event once in its life, and a dead letter has used up
\* its attempts (_consumed, and the except block of drain_raw).
THEOREM KafkaHandling == Spec => []HandlingSound
<1>1. KInv => HandlingSound
  BY DEF KInv, PositionInv, MessageInv, HandlingSound
<1>2. QED
  BY <1>1, KafkaInvariant, PTL

-----------------------------------------------------------------------------
(* The fabric implements Delivery                                           *)

\* A step that handles nothing publishes, drops what can no longer be handled,
\* or changes nothing of the view.
LEMMA NothingHandled ==
  ASSUME KInv, LogKept, log' \in Seq(Message), handled' = handled,
         Gone \subseteq Gone', committed' \in 0..Len(log)
  PROVE  [DeliveryView!Next]_(DeliveryView!vars)
<1>1. /\ Len(log) \in Nat /\ Len(log') \in Nat
      /\ Len(log') \in Len(log)..(Len(log) + 2)
      /\ Len(log') = Len(log) \/ Len(log') \in {Len(log) + 1, Len(log) + 2}
  BY Facts DEF LogKept
<1>2. CASE Gone' = Gone
  <2>1. CASE Len(log') = Len(log)
    BY <1>2, <2>1 DEF DeliveryView!vars
  <2>2. CASE Len(log') \in {Len(log) + 1, Len(log) + 2}
    <3>1. DeliveryView!Publish
      BY <1>2, <2>2 DEF DeliveryView!Publish
    <3>2. QED
      BY <3>1 DEF DeliveryView!Next
  <2>3. QED
    BY <1>1, <2>1, <2>2
<1>3. CASE Gone' # Gone
  <2> DEFINE S == Gone' \ Gone
  <2>1. S # {} /\ Gone' = Gone \cup S
    BY <1>3
  <2>2. Gone' \subseteq 1..Len(log) /\ Gone' \cap Range(handled) = {}
    <3>1. Gone' \subseteq 1..committed' /\ Gone' \cap Range(handled) = {}
      BY DEF Gone
    <3>2. 1..committed' \subseteq 1..Len(log)
      BY <1>1
    <3>3. QED
      BY <3>1, <3>2
  <2>3. S \subseteq DeliveryView!Waiting
    BY <2>2 DEF DeliveryView!Waiting, DeliveryView!Range, Range
  <2>4. DeliveryView!Drop(S)
    BY <1>1, <2>1 DEF DeliveryView!Drop
  <2> HIDE DEF S
  <2>5. QED
    BY <2>1, <2>3, <2>4 DEF DeliveryView!Next
<1>4. QED
  BY <1>2, <1>3

LEMMA DeliveryStep ==
  ASSUME KInv, [Next]_vars
  PROVE  [DeliveryView!Next]_(DeliveryView!vars)
<1>1. LogKept /\ log' \in Seq(Message) /\ committed \in 0..Len(log) /\ committed \in Nat
  BY MessagesStep, Facts DEF MessagesKept, TypeMessages
<1>2. CASE UNCHANGED <<committed, handled, batch>>
  <2>1. Gone' = Gone
    BY <1>2 DEF Gone, InFlight
  <2>2. QED
    BY <1>1, <1>2, <2>1, NothingHandled
<1>3. ASSUME NEW p \in Processes, Commit(p)
      PROVE  [DeliveryView!Next]_(DeliveryView!vars)
  <2>1. PICK c, pos : c = polled[p].chunk /\ pos = polled[p].position
    OBVIOUS
  <2>2. /\ committed' = pos /\ holder = p /\ handled' = handled
        /\ batch' = [batch EXCEPT ![p] = @ \o c]
    BY <1>3, <2>1 DEF Commit
  <2>3. /\ c \in Seq(Nat) /\ pos \in committed..Len(log) /\ pos \in Nat
        /\ Range(c) \subseteq (committed + 1)..pos
        /\ batch \in [Processes -> Seq(Nat)]
    BY <2>1, <2>2, Facts DEF HolderCurrent, Positions
  <2>4. 1..committed \subseteq 1..pos /\ pos \in 0..Len(log) /\ (1..committed) \cap Range(c) = {}
    BY <1>1, <2>3
  <2>5. ASSUME NEW q \in Processes PROVE Range(batch'[q]) \subseteq Range(batch[q]) \cup Range(c)
    <3>1. CASE q = p
      <4>1. batch'[p] = batch[p] \o c /\ batch[p] \in Seq(Nat)
        BY <2>2, <2>3
      <4>2. Range(batch[p] \o c) = Range(batch[p]) \cup Range(c)
        BY <4>1, <2>3, RangeConcatenation
      <4>3. QED
        BY <3>1, <4>1, <4>2
    <3>2. CASE q # p
      <4>1. batch'[q] = batch[q]
        BY <3>2, <2>2, <2>3
      <4>2. QED
        BY <4>1
    <3>3. QED
      BY <3>1, <3>2
  <2>6. InFlight' \subseteq InFlight \cup Range(c)
    BY <2>5 DEF InFlight
  <2>7. Gone \subseteq Gone'
    BY <2>2, <2>4, <2>6 DEF Gone
  <2>8. QED
    BY <1>1, <2>2, <2>4, <2>7, NothingHandled
<1>4. ASSUME NEW p \in Processes, CommitRefused(p) \/ CommitFails(p) \/ RetryTimesOut(p) \/ Crash(p)
      PROVE  [DeliveryView!Next]_(DeliveryView!vars)
  <2>1. /\ batch' = [batch EXCEPT ![p] = <<>>] /\ handled' = handled
        /\ \/ committed' = committed
           \/ holder = p /\ committed' = polled[p].position
    BY <1>4 DEF CommitRefused, CommitFails, RetryTimesOut, Crash, Raises
  <2>2. committed' \in committed..Len(log)
    BY <1>1, <2>1, Facts DEF HolderCurrent
  <2>3. 1..committed \subseteq 1..committed' /\ committed' \in 0..Len(log)
    BY <1>1, <2>2
  <2>4. \A q \in Processes : Range(batch'[q]) \subseteq Range(batch[q])
    BY <2>1, Facts DEF Positions, Range
  <2>5. InFlight' \subseteq InFlight
    BY <2>4 DEF InFlight
  <2>6. Gone \subseteq Gone'
    BY <2>1, <2>3, <2>5 DEF Gone
  <2>7. QED
    BY <1>1, <2>1, <2>3, <2>6, NothingHandled
<1>5. ASSUME NEW p \in Processes, Normalize(p) \/ NormalizeFails(p) \/ PublishTimesOut(p)
      PROVE  [DeliveryView!Next]_(DeliveryView!vars)
  <2>1. PICK b, h, t : b = batch[p] /\ h = Head(b) /\ t = Tail(b)
    OBVIOUS
  <2>2. /\ handled' = Append(handled, h) /\ b # <<>> /\ committed' = committed
        /\ batch' = [batch EXCEPT ![p] = t]
    BY <1>5, <2>1 DEF Normalize, NormalizeFails, PublishTimesOut, Handles
  <2>3. b \in Seq(Nat) /\ handled \in Seq(Nat) /\ batch \in [Processes -> Seq(Nat)]
    BY <2>1, Facts DEF Positions
  <2>4. h \in Nat /\ Range(b) = {h} \cup Range(t)
    BY <2>1, <2>2, <2>3, RangeOfTail
  <2>5. Range(handled') = Range(handled) \cup {h}
    BY <2>2, <2>3, <2>4, RangeOfAppend
  <2>6. h \in InFlight /\ h \in 1..committed /\ h \notin Range(handled)
    BY <2>1, <2>4, Facts DEF InFlight, Partition
  <2>7. InFlight \ {h} \subseteq InFlight' /\ InFlight' \subseteq InFlight
    <3>1. /\ Range(batch'[p]) = Range(t) /\ Range(batch[p]) = {h} \cup Range(t)
          /\ \A q \in Processes \ {p} : Range(batch'[q]) = Range(batch[q])
      BY <2>1, <2>2, <2>3, <2>4
    <3>2. QED
      BY <3>1 DEF InFlight
  <2>8. Gone' = Gone
    BY <2>2, <2>5, <2>6, <2>7 DEF Gone
  <2>9. h \in DeliveryView!Waiting
    <3>1. h \notin Gone /\ h \in 1..Len(log)
      BY <2>6, Facts DEF Gone
    <3>2. QED
      BY <2>6, <3>1 DEF DeliveryView!Waiting, DeliveryView!Range, Range
  <2>10. Len(log') \in Len(log)..(Len(log) + 2)
    BY <1>1, Facts DEF LogKept
  <2>11. DeliveryView!Deliver(h)
    BY <2>2, <2>8, <2>10 DEF DeliveryView!Deliver
  <2>12. QED
    BY <2>9, <2>11 DEF DeliveryView!Next
<1>6. CASE UNCHANGED vars
  BY <1>6, <1>2 DEF vars
<1>7. ASSUME NEW e \in Events, IngestRaw(e) PROVE [DeliveryView!Next]_(DeliveryView!vars)
  BY <1>7, <1>2 DEF IngestRaw
<1>8. ASSUME NEW p \in Processes, StartDrain(p) \/ PollTimesOut(p) \/ EndDrain(p) \/ Evict(p)
      PROVE  [DeliveryView!Next]_(DeliveryView!vars)
  BY <1>8, <1>2 DEF StartDrain, PollTimesOut, EndDrain, Evict
<1>9. ASSUME NEW p \in Processes, NEW n, Poll(p, n) PROVE [DeliveryView!Next]_(DeliveryView!vars)
  BY <1>9, <1>2 DEF Poll
<1>10. QED
  BY <1>3, <1>4, <1>5, <1>6, <1>7, <1>8, <1>9 DEF Next, Continue, PollSome

\* A message of the topic is handled at most once over all processes, restarts,
\* failed commits and lost partitions, and never once it was passed over: the
\* fabric implements Delivery (consume, drain_raw).
THEOREM KafkaImplementsDelivery == Spec => ImplementsDelivery
<1>1. Init => DeliveryView!Init
  BY DEF Init, DeliveryView!Init, Gone
<1>2. KInv /\ [Next]_vars => [DeliveryView!Next]_(DeliveryView!vars)
  BY DeliveryStep
<1>3. QED
  BY <1>1, <1>2, KafkaInvariant, PTL DEF Spec, ImplementsDelivery, DeliveryView!Spec
=============================================================================
