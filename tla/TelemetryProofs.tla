--------------------------- MODULE TelemetryProofs ---------------------------
(***************************************************************************)
(* Proofs about events on their way and in the tables.                     *)
(*                                                                         *)
(* First EventPipeline, for any number of events, workers, attempts and    *)
(* submissions: the inductive invariant says of every key that a group has *)
(* consumed where its event is.                                            *)
(*                                                                         *)
(* Then Connectors and Hunts, for any rows, batches, queries and limits:   *)
(* the inductive invariant says where the id of every stored event is      *)
(* from, so that the table holds each event once, counts what was stored   *)
(* and dead-lettered against what was sent, and says of an answer what it  *)
(* must be made of.                                                        *)
(***************************************************************************)
EXTENDS EventPipeline, Connectors, FiniteSetTheorems, SequenceTheorems, TLAPS

-----------------------------------------------------------------------------
(* The inductive invariant                                                  *)

\* The two topics that are drained.
Stages == {"raw", "normalized"}

Draining(w, t) == pc[w] \in {t, Handling[t]}

\* What the group of a stage remembers of an event, and the events it is done with.
Key(t, e) == <<Group[t], <<t, e>>>>

DeadLettered == {m.event : m \in Range(topics["deadletter"])}

Done(t) == IF t = "raw" THEN Range(normalized) \cup DeadLettered ELSE Range(evaluated)

\* A message on its way through stage t.
OfStage(m, t) == m.key = <<t, m.event>> /\ ~m.poison /\ m.attempt < max_attempts

Labelled ==
  \A t \in Stages :
    /\ \A m \in Range(topics[t]) : OfStage(m, t)
    /\ \A w \in Workers : Draining(w, t) => \A m \in Range(batch[w]) : OfStage(m, t)

\* What a worker holds was consumed and is not done yet, and no event is held twice.
Held ==
  \A t \in Stages, w \in Workers : Draining(w, t) =>
    \A i \in DOMAIN batch[w] :
      /\ Key(t, batch[w][i].event) \in consumed
      /\ batch[w][i].event \notin Done(t)
      /\ \A v \in Workers : Draining(v, t) =>
           \A j \in DOMAIN batch[v] : batch[w][i].event = batch[v][j].event => w = v /\ i = j

\* A key is consumed for the events that are done, ...
DoneConsumed == \A t \in Stages : \A e \in Done(t) : Key(t, e) \in consumed

\* ... and an event whose key is consumed is done, held, or poison.
ConsumedAccounted ==
  \A t \in Stages, e \in Events : Key(t, e) \in consumed =>
    \/ e \in Done(t)
    \/ t = "raw" /\ e \in Poison
    \/ \E w \in Workers : Draining(w, t) /\ Holds(batch[w], e)

\* What was published to a stage waits in its topic or was consumed.
Arrived ==
  /\ \A e \in Events : submits[e] > 0 => Holds(topics["raw"], e) \/ Key("raw", e) \in consumed
  /\ \A e \in Range(normalized) : Holds(topics["normalized"], e) \/ Key("normalized", e) \in consumed

Local ==
  /\ \A w \in Workers : pc[w] = "idle" => batch[w] = <<>>
  /\ Range(findings) \subseteq Range(evaluated)

EInv ==
  /\ TypeOK /\ Labelled /\ Held /\ DoneConsumed /\ ConsumedAccounted /\ Arrived /\ Local
  /\ ExactlyOnce /\ DeadLetterSound

-----------------------------------------------------------------------------
(* The constants of the stages                                              *)

LEMMA StageFacts ==
  /\ Group["raw"] = "normalizer" /\ Group["normalized"] = "detection"
  /\ Handling["raw"] = "handle raw" /\ Handling["normalized"] = "handle normalized"
  /\ Stages = {"raw", "normalized"} /\ Stages \subseteq Topics
BY DEF Group, Handling, Stages, Topics

\* A worker drains one stage at a time.
LEMMA OneStage ==
  ASSUME NEW w \in Workers, NEW t \in Stages, NEW u \in Stages, Draining(w, t), Draining(w, u)
  PROVE  t = u
BY StageFacts DEF Draining

\* The keys of the groups differ from stage to stage and from event to event.
LEMMA KeyFacts ==
  ASSUME NEW t \in Stages, NEW u \in Stages, NEW e, NEW f
  PROVE  /\ Key(t, e) = Key(u, f) => t = u /\ e = f
         /\ e \in Events => <<t, e>> \in Keys /\ Key(t, e) \in {Group.raw, Group.normalized} \X Keys
<1>1. Key(t, e) = Key(u, f) => t = u /\ e = f
  BY DEF Key
<1>2. ASSUME e \in Events PROVE <<t, e>> \in Keys
  <2>1. <<t, e>> \in Topics \X Events
    BY <1>2, StageFacts
  <2>2. QED
    BY <2>1 DEF Keys
<1>3. Group[t] \in {Group.raw, Group.normalized}
  BY StageFacts
<1>4. QED
  BY <1>1, <1>2, <1>3 DEF Key

LEMMA KeyOfMessage ==
  ASSUME NEW t \in Stages, NEW m \in Message, OfStage(m, t)
  PROVE  <<Group[t], m.key>> = Key(t, m.event) /\ m.event \in Events
BY DEF OfStage, Key, Message

-----------------------------------------------------------------------------
(* The loop of consume                                                      *)

Loop == INSTANCE FoldLaws WITH Op <- Pop

Locals(t) ==
  [group : {Group[t]}, chunk : Seq(Message),
   seen : SUBSET ({Group.raw, Group.normalized} \X Keys), rest : Seq(Message)]

\* What consume has done with the first n messages of q: it took the first one
\* of every key its group had not seen, dropped the others, left the rest.
Taken(acc, t, q, n) ==
  /\ \A i \in DOMAIN acc.chunk :
       /\ acc.chunk[i] \in Range(q)
       /\ <<Group[t], acc.chunk[i].key>> \in acc.seen \ consumed
  /\ \A i, j \in DOMAIN acc.chunk : acc.chunk[i].key = acc.chunk[j].key => i = j
  /\ \A i \in DOMAIN acc.rest : acc.rest[i] \in Range(q)
  /\ consumed \subseteq acc.seen
  /\ \A k \in acc.seen \ consumed : \E i \in DOMAIN acc.chunk : k = <<Group[t], acc.chunk[i].key>>
  /\ \A i \in 1..n : q[i] \in Range(acc.rest) \/ <<Group[t], q[i].key>> \in acc.seen

LEMMA PopTaken ==
  ASSUME NEW t \in Stages, NEW q \in Seq(Message), NEW k \in 1..Len(q),
         NEW acc \in Locals(t), Taken(acc, t, q, k - 1)
  PROVE  Pop(acc, q[k]) \in Locals(t) /\ Taken(Pop(acc, q[k]), t, q, k)
<1> PICK m : m = q[k]
  OBVIOUS
<1>1. m \in Message /\ m \in Range(q) /\ m.key \in Keys
  <2>1. m \in Message
    BY ElementOfSeq
  <2>2. QED
    BY <2>1 DEF Range, Message
<1>2. /\ acc.chunk \in Seq(Message) /\ acc.rest \in Seq(Message) /\ acc.group = Group[t]
      /\ acc.seen \in SUBSET ({Group.raw, Group.normalized} \X Keys)
      /\ acc = [group |-> Group[t], chunk |-> acc.chunk, seen |-> acc.seen, rest |-> acc.rest]
  BY DEF Locals
<1>3. \A i \in 1..k : i \in 1..(k - 1) \/ i = k
  OBVIOUS
<1>4. <<Group[t], m.key>> \in {Group.raw, Group.normalized} \X Keys
  BY <1>1, StageFacts
<1>5. CASE Len(acc.chunk) = MaxRecords
  <2> PICK r : r = Append(acc.rest, m)
    OBVIOUS
  <2>1. r \in Seq(Message) /\ \A x \in Range(r) : x \in Range(acc.rest) \/ x = m
    BY <1>1, <1>2 DEF Range
  <2>2. m \in Range(r) /\ \A x \in Range(acc.rest) : x \in Range(r)
    <3>1. /\ DOMAIN r = 1..(Len(acc.rest) + 1) /\ DOMAIN acc.rest = 1..Len(acc.rest)
          /\ r[Len(acc.rest) + 1] = m /\ Len(acc.rest) + 1 \in DOMAIN r
          /\ \A i \in DOMAIN acc.rest : i \in DOMAIN r /\ r[i] = acc.rest[i]
      BY <1>1, <1>2
    <3>2. QED
      BY <3>1 DEF Range
  <2>3. Pop(acc, m) = [group |-> Group[t], chunk |-> acc.chunk, seen |-> acc.seen, rest |-> r]
    BY <1>2, <1>5 DEF Pop
  <2>4. \A i \in DOMAIN r : r[i] \in Range(q)
    <3>1. \A i \in DOMAIN r : r[i] \in Range(r)
      BY DEF Range
    <3>2. \A x \in Range(acc.rest) : x \in Range(q)
      BY DEF Taken, Range
    <3>3. QED
      BY <3>1, <3>2, <2>1, <1>1
  <2>5. \A i \in 1..k : q[i] \in Range(r) \/ <<Group[t], q[i].key>> \in acc.seen
    BY <1>3, <2>2 DEF Taken
  <2>6. Pop(acc, m) \in Locals(t)
    BY <2>1, <2>3, <1>2 DEF Locals
  <2>7. Taken(Pop(acc, m), t, q, k)
    BY <2>3, <2>4, <2>5 DEF Taken
  <2>8. QED
    BY <2>6, <2>7
<1>6. CASE Len(acc.chunk) # MaxRecords /\ <<Group[t], m.key>> \in acc.seen
  <2>1. Pop(acc, m) = acc
    BY <1>2, <1>6 DEF Pop
  <2>2. Taken(acc, t, q, k)
    BY <1>3, <1>6 DEF Taken
  <2>3. QED
    BY <2>1, <2>2
<1>7. CASE Len(acc.chunk) # MaxRecords /\ <<Group[t], m.key>> \notin acc.seen
  <2> PICK c, s : c = Append(acc.chunk, m) /\ s = acc.seen \cup {<<Group[t], m.key>>}
    OBVIOUS
  <2>1. /\ c \in Seq(Message) /\ DOMAIN acc.chunk = 1..Len(acc.chunk)
        /\ DOMAIN c = 1..(Len(acc.chunk) + 1) /\ c[Len(acc.chunk) + 1] = m
        /\ \A i \in DOMAIN acc.chunk : i \in DOMAIN c /\ c[i] = acc.chunk[i]
        /\ \A i \in DOMAIN c : i \in DOMAIN acc.chunk \/ i = Len(acc.chunk) + 1
        /\ Len(acc.chunk) + 1 \in DOMAIN c
    BY <1>1, <1>2
  <2>2. Pop(acc, m) = [group |-> Group[t], chunk |-> c, seen |-> s, rest |-> acc.rest]
    BY <1>2, <1>7 DEF Pop
  <2>3. Pop(acc, m) \in Locals(t)
    BY <2>1, <2>2, <1>2, <1>4 DEF Locals
  <2>4. <<Group[t], m.key>> \notin consumed
    BY <1>7 DEF Taken
  <2>5. \A i \in DOMAIN c : c[i] \in Range(q) /\ <<Group[t], c[i].key>> \in s \ consumed
    BY <2>1, <2>4, <1>1 DEF Taken
  <2>6. \A i \in DOMAIN acc.chunk : acc.chunk[i].key # m.key
    BY <1>7 DEF Taken
  <2>7. \A i, j \in DOMAIN c : c[i].key = c[j].key => i = j
    BY <2>1, <2>6 DEF Taken
  <2>8. \A x \in s \ consumed : \E i \in DOMAIN c : x = <<Group[t], c[i].key>>
    <3>1. ASSUME NEW x \in acc.seen \ consumed PROVE \E i \in DOMAIN c : x = <<Group[t], c[i].key>>
      <4>1. PICK i \in DOMAIN acc.chunk : x = <<Group[t], acc.chunk[i].key>>
        BY DEF Taken
      <4>2. QED
        BY <4>1, <2>1
    <3>2. PICK n \in DOMAIN c : c[n] = m
      BY <2>1
    <3>3. ASSUME NEW x \in s \ consumed, x \notin acc.seen PROVE \E i \in DOMAIN c : x = <<Group[t], c[i].key>>
      <4>1. x = <<Group[t], c[n].key>>
        BY <3>2, <3>3
      <4>2. QED
        BY <4>1
    <3>4. QED
      BY <3>1, <3>3
  <2>9. consumed \subseteq s /\ \A i \in 1..k : q[i] \in Range(acc.rest) \/ <<Group[t], q[i].key>> \in s
    BY <1>3 DEF Taken
  <2>10. Taken(Pop(acc, m), t, q, k)
    BY <2>2, <2>5, <2>7, <2>8, <2>9 DEF Taken
  <2>11. QED
    BY <2>3, <2>10
<1>8. QED
  BY <1>5, <1>6, <1>7

\* consume, over the whole topic.
LEMMA TakeTaken ==
  ASSUME TypeOK, NEW t \in Stages, NEW q \in Seq(Message)
  PROVE  Take(t, q) \in Locals(t) /\ Taken(Take(t, q), t, q, Len(q))
<1> DEFINE I == [k \in 0..Len(q) |-> {acc \in Locals(t) : Taken(acc, t, q, k)}]
           base == [group |-> Group[t], chunk |-> <<>>, seen |-> consumed, rest |-> <<>>]
<1>1. base \in I[0]
  <2>1. base \in Locals(t)
    BY DEF TypeOK, Locals
  <2>2. Taken(base, t, q, 0)
    BY DEF Taken
  <2>3. QED
    BY <2>1, <2>2
<1>2. ASSUME NEW k \in 1..Len(q), NEW acc \in I[k - 1]
      PROVE  Pop(acc, q[k]) \in I[k]
  <2>1. acc \in Locals(t) /\ Taken(acc, t, q, k - 1) /\ k \in 0..Len(q)
    OBVIOUS
  <2>2. QED
    BY <2>1, PopTaken
<1> HIDE DEF I, base
<1>3. Loop!Fold(base, q) \in I[Len(q)]
  BY <1>1, <1>2, Loop!FoldInvariant
<1>4. Take(t, q) = Loop!Fold(base, q)
  BY DEF Take, base, Loop!Fold, Loop!FoldLeft, FoldLeft, Loop!MapThenFoldSet, MapThenFoldSet, Loop!Max, Max
<1>5. Take(t, q) \in I[Len(q)] /\ Len(q) \in 0..Len(q)
  BY <1>3, <1>4
<1>6. QED
  BY <1>5 DEF I

-----------------------------------------------------------------------------
(* Publishing a message                                                     *)

LEMMA PublishMoves ==
  ASSUME TypeOK, Labelled, NEW u \in Topics, NEW m \in Message, Publish(u, m),
         u \in Stages => OfStage(m, u), max_attempts' = max_attempts
  PROVE  /\ topics' \in [Topics -> Seq(Message)] /\ lag' \in [Topics -> Nat]
         /\ \A t \in Stages : \A x \in Range(topics'[t]) : OfStage(x, t)'
         /\ \A t \in Stages : \A e : Holds(topics[t], e) => Holds(topics'[t], e)
         /\ Holds(topics'[u], m.event)
         /\ u # "deadletter" => topics'["deadletter"] = topics["deadletter"]
         /\ u = "deadletter" => topics'["deadletter"] = Append(topics["deadletter"], m)
<1> PICK q, r : q = topics[u] /\ r = Append(q, m)
  OBVIOUS
<1>1. q \in Seq(Message) /\ topics \in [Topics -> Seq(Message)] /\ lag \in [Topics -> Nat]
  BY DEF TypeOK
<1>2. /\ r \in Seq(Message) /\ DOMAIN q = 1..Len(q) /\ DOMAIN r = 1..(Len(q) + 1)
      /\ \A i \in DOMAIN q : i \in DOMAIN r /\ r[i] = q[i]
      /\ \A i \in DOMAIN r : i \in DOMAIN q \/ r[i] = m
      /\ Len(q) + 1 \in DOMAIN r /\ r[Len(q) + 1] = m
  BY <1>1
<1>3. topics' = [topics EXCEPT ![u] = r] /\ lag' = [lag EXCEPT ![u] = Len(q) + 1]
  BY DEF Publish
<1>4. topics'[u] = r /\ \A t \in Topics : t # u => topics'[t] = topics[t]
  BY <1>1, <1>3
<1>5. topics' \in [Topics -> Seq(Message)] /\ lag' \in [Topics -> Nat]
  BY <1>1, <1>2, <1>3
<1>6. ASSUME NEW t \in Stages, NEW x \in Range(topics'[t]) PROVE OfStage(x, t)'
  <2>1. t \in Topics /\ \A y \in Range(topics[t]) : OfStage(y, t)
    BY StageFacts DEF Labelled
  <2>2. OfStage(x, t)
    <3>1. CASE t = u
      <4>1. x \in Range(q) \/ x = m
        <5>1. x \in Range(r)
          BY <1>4, <3>1
        <5>2. PICK i \in DOMAIN r : x = r[i]
          BY <5>1 DEF Range
        <5>3. QED
          BY <5>2, <1>2 DEF Range
      <4>2. QED
        BY <2>1, <3>1, <4>1
    <3>2. CASE t # u
      BY <2>1, <1>4, <3>2
    <3>3. QED
      BY <3>1, <3>2
  <2>3. QED
    BY <2>2 DEF OfStage
<1>7. ASSUME NEW t \in Stages, NEW e, Holds(topics[t], e) PROVE Holds(topics'[t], e)
  <2>1. t \in Topics
    BY StageFacts
  <2>2. CASE t = u
    <3>1. PICK i \in DOMAIN q : q[i].event = e
      BY <1>7, <2>2 DEF Holds
    <3>2. i \in DOMAIN r /\ r[i].event = e
      BY <1>2, <3>1
    <3>3. QED
      BY <1>4, <2>2, <3>2 DEF Holds
  <2>3. CASE t # u
    BY <1>4, <1>7, <2>1, <2>3
  <2>4. QED
    BY <2>2, <2>3
<1>8. Holds(topics'[u], m.event)
  BY <1>2, <1>4 DEF Holds
<1>9. "deadletter" \in Topics
  BY DEF Topics
<1>10. QED
  BY <1>4, <1>5, <1>6, <1>7, <1>8, <1>9

\* An envelope for a stage is a message of it.
LEMMA EnvelopeFacts ==
  ASSUME TypeOK, NEW t \in Topics, NEW e \in Events
  PROVE  /\ Envelope(t, e) \in Message /\ Envelope(t, e).event = e
         /\ OfStage(Envelope(t, e), t)
<1>1. <<t, e>> \in Keys
  BY DEF Keys
<1>2. max_attempts \in Nat \ {0}
  BY PipelineAssumption DEF TypeOK
<1>3. QED
  BY <1>1, <1>2 DEF Envelope, Message, OfStage

-----------------------------------------------------------------------------
(* Handling the first message of a batch                                    *)

LEMMA FirstOfBatch ==
  ASSUME EInv, NEW w \in Workers, NEW t \in Stages, NextMessage(w, Handling[t])
  PROVE  /\ Draining(w, t) /\ batch[w] \in Seq(Message) /\ 1 \in DOMAIN batch[w]
         /\ Head(batch[w]) = batch[w][1] /\ Head(batch[w]) \in Message
         /\ OfStage(Head(batch[w]), t) /\ Head(batch[w]).event \in Events
         /\ Key(t, Head(batch[w]).event) \in consumed /\ Head(batch[w]).event \notin Done(t)
<1>1. batch[w] \in Seq(Message) /\ batch[w] # <<>> /\ pc[w] = Handling[t]
  BY DEF EInv, TypeOK, NextMessage
<1>2. Draining(w, t)
  BY <1>1 DEF Draining
<1>3. 1 \in DOMAIN batch[w] /\ Head(batch[w]) = batch[w][1] /\ Head(batch[w]) \in Message
  BY <1>1
<1>4. batch[w][1] \in Range(batch[w])
  BY <1>3 DEF Range
<1>5. OfStage(Head(batch[w]), t)
  BY <1>2, <1>3, <1>4 DEF EInv, Labelled
<1>6. Key(t, batch[w][1].event) \in consumed /\ batch[w][1].event \notin Done(t)
  BY <1>2, <1>3 DEF EInv, Held
<1>7. QED
  BY <1>1, <1>2, <1>3, <1>5, <1>6 DEF Message

\* A worker is done with the first message of its batch, or gives it up as poison.
LEMMA HandleMoves ==
  ASSUME EInv, NEW w \in Workers, NEW t \in Stages, NextMessage(w, Handling[t]),
         consumed' = consumed, max_attempts' = max_attempts,
         NEW D \in SUBSET {Head(batch[w]).event},
         Done(t)' = Done(t) \cup D, \A u \in Stages : u # t => Done(u)' = Done(u),
         Head(batch[w]).event \in D \/ (t = "raw" /\ Head(batch[w]).event \in Poison)
  PROVE  /\ batch' \in [Workers -> Seq(Message)] /\ pc' = pc
         /\ \A u \in Stages, v \in Workers : Draining(v, u)' => \A m \in Range(batch'[v]) : OfStage(m, u)'
         /\ \A v \in Workers : pc'[v] = "idle" => batch'[v] = <<>>
         /\ Held' /\ DoneConsumed' /\ ConsumedAccounted'
<1> PICK b, e : b = batch[w] /\ e = Head(b).event
  OBVIOUS
<1>1. /\ Draining(w, t) /\ b \in Seq(Message) /\ 1 \in DOMAIN b /\ e = b[1].event
      /\ Key(t, e) \in consumed /\ e \notin Done(t) /\ e \in Events
  BY FirstOfBatch
<1>2. batch \in [Workers -> Seq(Message)] /\ pc' = pc /\ b # <<>> /\ batch' = [batch EXCEPT ![w] = Tail(b)] /\ pc[w] = Handling[t]
  BY DEF EInv, TypeOK, NextMessage
<1>3. /\ Tail(b) \in Seq(Message)
      /\ \A i \in DOMAIN Tail(b) : i + 1 \in DOMAIN b /\ i + 1 # 1 /\ Tail(b)[i] = b[i + 1] /\ i \in Nat
      /\ \A i \in DOMAIN b : i = 1 \/ (i - 1 \in DOMAIN Tail(b) /\ Tail(b)[i - 1] = b[i])
  <2>1. Tail(b) \in Seq(Message) /\ Len(Tail(b)) = Len(b) - 1 /\ \A i \in 1..(Len(b) - 1) : Tail(b)[i] = b[i + 1]
    BY <1>1, <1>2
  <2>2. DOMAIN b = 1..Len(b) /\ DOMAIN Tail(b) = 1..(Len(b) - 1) /\ Len(b) \in Nat
    BY <1>1, <2>1
  <2>3. \A i \in DOMAIN b : i # 1 => i - 1 \in 1..(Len(b) - 1) /\ (i - 1) + 1 = i
    BY <2>2
  <2>4. QED
    BY <2>1, <2>2, <2>3
<1>4. batch'[w] = Tail(b) /\ \A v \in Workers : v # w => batch'[v] = batch[v]
  BY <1>2
<1>5. \A v \in Workers, u \in Stages : Draining(v, u)' <=> Draining(v, u)
  BY <1>2 DEF Draining
\* Whatever a batch holds now it held before, elsewhere than first of b.
<1>6. \A v \in Workers : \A i \in DOMAIN batch'[v] :
        \E j \in DOMAIN batch[v] : batch'[v][i] = batch[v][j] /\ (v = w => j # 1) /\ j = IF v = w THEN i + 1 ELSE i
  <2>1. \A i \in DOMAIN batch'[w] :
          \E j \in DOMAIN batch[w] : batch'[w][i] = batch[w][j] /\ j # 1 /\ j = i + 1
    BY <1>3, <1>4
  <2>2. ASSUME NEW v \in Workers, v # w PROVE batch'[v] = batch[v]
    BY <1>4, <2>2
  <2>3. QED
    BY <2>1, <2>2
<1>7. \A u \in Stages, v \in Workers : Draining(v, u)' => \A m \in Range(batch'[v]) : OfStage(m, u)'
  <2> SUFFICES ASSUME NEW u \in Stages, NEW v \in Workers, Draining(v, u)', NEW m \in Range(batch'[v])
               PROVE  OfStage(m, u)'
    OBVIOUS
  <2>1. m \in Range(batch[v])
    BY <1>6 DEF Range
  <2>2. OfStage(m, u)
    BY <1>5, <2>1 DEF EInv, Labelled
  <2>3. QED
    BY <2>2 DEF OfStage
<1>8. Held'
  <2> SUFFICES ASSUME NEW u \in Stages, NEW v \in Workers, Draining(v, u)', NEW i \in DOMAIN batch'[v]
               PROVE  /\ Key(u, batch'[v][i].event) \in consumed'
                      /\ batch'[v][i].event \notin Done(u)'
                      /\ \A x \in Workers : Draining(x, u)' =>
                           \A j \in DOMAIN batch'[x] : batch'[v][i].event = batch'[x][j].event => v = x /\ i = j
    BY DEF Held, Key
  <2>1. PICK k \in DOMAIN batch[v] : /\ batch'[v][i] = batch[v][k] /\ (v = w => k # 1)
                                     /\ k = IF v = w THEN i + 1 ELSE i
    BY <1>6
  <2>2. Draining(v, u)
    BY <1>5
  <2> PICK f : f = batch[v][k].event
    OBVIOUS
  <2>3. /\ Key(u, f) \in consumed /\ f \notin Done(u)
        /\ \A x \in Workers : Draining(x, u) => \A j \in DOMAIN batch[x] : f = batch[x][j].event => v = x /\ k = j
    BY <2>2 DEF EInv, Held
  <2>4. f \notin Done(u)'
    <3>1. CASE u = t
      <4>1. f # e
        BY <1>1, <2>1, <2>3, <3>1
      <4>2. QED
        BY <4>1, <2>3, <3>1
    <3>2. CASE u # t
      BY <2>3, <3>2
    <3>3. QED
      BY <3>1, <3>2
  <2>5. ASSUME NEW x \in Workers, Draining(x, u)', NEW j \in DOMAIN batch'[x], f = batch'[x][j].event
        PROVE  v = x /\ i = j
    <3>1. PICK l \in DOMAIN batch[x] : /\ batch'[x][j] = batch[x][l] /\ l = IF x = w THEN j + 1 ELSE j
      BY <1>6
    <3>2. v = x /\ k = l
      BY <1>5, <2>3, <2>5, <3>1
    <3>3. v = w => i \in Nat /\ j \in Nat
      BY <1>3, <1>4, <3>2
    <3>4. QED
      BY <3>1, <3>2, <3>3, <2>1
  <2>6. QED
    BY <2>1, <2>3, <2>4, <2>5
<1>9. DoneConsumed'
  <2> SUFFICES ASSUME NEW u \in Stages, NEW f \in Done(u)' PROVE Key(u, f) \in consumed'
    BY DEF DoneConsumed, Key
  <2>1. f \in Done(u) \/ (u = t /\ f = e)
    OBVIOUS
  <2>2. QED
    BY <1>1, <2>1 DEF EInv, DoneConsumed
<1>10. ConsumedAccounted'
  <2> SUFFICES ASSUME NEW u \in Stages, NEW f \in Events, Key(u, f) \in consumed'
               PROVE  \/ f \in Done(u)'
                      \/ u = "raw" /\ f \in Poison
                      \/ \E v \in Workers : Draining(v, u)' /\ Holds(batch'[v], f)
    BY DEF ConsumedAccounted, Key
  <2>1. CASE f \in Done(u) \/ (u = "raw" /\ f \in Poison)
    BY <2>1
  <2>2. CASE \E v \in Workers : Draining(v, u) /\ Holds(batch[v], f)
    <3>1. PICK v \in Workers : Draining(v, u) /\ Holds(batch[v], f)
      BY <2>2
    <3>2. PICK i \in DOMAIN batch[v] : batch[v][i].event = f
      BY <3>1 DEF Holds
    <3>3. CASE v = w /\ i = 1
      <4>1. f = e /\ u = t
        BY <1>1, <3>1, <3>2, <3>3, OneStage
      <4>2. QED
        BY <4>1
    <3>4. CASE v # w \/ i # 1
      <4>1. Holds(batch'[v], f)
        <5>1. CASE v = w
          <6>1. i \in DOMAIN b /\ i # 1 /\ b[i].event = f /\ batch'[v] = Tail(b)
            BY <1>4, <3>2, <3>4, <5>1
          <6>2. i - 1 \in DOMAIN Tail(b) /\ Tail(b)[i - 1] = b[i]
            BY <1>3, <6>1
          <6>3. QED
            BY <6>1, <6>2 DEF Holds
        <5>2. CASE v # w
          BY <1>4, <3>1, <5>2
        <5>3. QED
          BY <5>1, <5>2
      <4>2. QED
        BY <4>1, <3>1, <1>5
    <3>5. QED
      BY <3>3, <3>4
  <2>3. QED
    BY <2>1, <2>2 DEF EInv, ConsumedAccounted
<1>11. batch' \in [Workers -> Seq(Message)]
  BY <1>2, <1>3
<1>12. \A v \in Workers : pc'[v] = "idle" => batch'[v] = <<>>
  <2>1. pc[w] # "idle"
    BY <1>2, StageFacts
  <2>2. QED
    BY <1>2, <1>4, <2>1 DEF EInv, Local
<1>13. QED
  BY <1>2, <1>7, <1>8, <1>9, <1>10, <1>11, <1>12

-----------------------------------------------------------------------------
(* The steps                                                                *)

LEMMA InitSound == Init => EInv
<1> SUFFICES ASSUME Init PROVE EInv
  OBVIOUS
<1>1. "raw" \in Topics /\ "normalized" \in Topics /\ "deadletter" \in Topics
  BY DEF Topics
<1>2. /\ \A t \in Topics : topics[t] = <<>>
      /\ \A w \in Workers : batch[w] = <<>> /\ pc[w] = "idle"
      /\ \A e \in Events : submits[e] = 0
      /\ consumed = {} /\ normalized = <<>> /\ evaluated = <<>> /\ findings = <<>>
  BY DEF Init
<1>3. Range(<<>>) = {}
  BY DEF Range
<1>4. TypeOK
  <2>1. \A t : <<>> \in Seq(t)
    OBVIOUS
  <2>2. 0 \in 0..MaxSubmits
    BY PipelineAssumption
  <2>3. QED
    BY <2>1, <2>2 DEF Init, TypeOK
<1>5. DeadLettered = {}
  BY <1>1, <1>2, <1>3 DEF DeadLettered
<1>6. \A t \in Stages : Done(t) = {}
  BY <1>2, <1>3, <1>5 DEF Done
<1>7. Labelled
  BY <1>2, <1>3, StageFacts DEF Labelled
<1>8. Held
  BY <1>2 DEF Held
<1>9. DoneConsumed /\ ConsumedAccounted
  BY <1>2, <1>6 DEF DoneConsumed, ConsumedAccounted
<1>10. Arrived
  BY <1>2, <1>3 DEF Arrived
<1>11. Local
  BY <1>2, <1>3 DEF Local
<1>12. ExactlyOnce
  BY <1>2 DEF ExactlyOnce, IsInjective
<1>13. DeadLetterSound
  BY <1>1, <1>2 DEF DeadLetterSound
<1>14. QED
  BY <1>4, <1>7, <1>8, <1>9, <1>10, <1>11, <1>12, <1>13 DEF EInv

\* ingest_raw puts a message for the event into the raw topic.
LEMMA IngestRawStep ==
  ASSUME EInv, NEW e \in Events, IngestRaw(e)
  PROVE  EInv'
<1>1. "raw" \in Topics /\ "raw" \in Stages /\ "raw" # "deadletter" /\ "normalized" \in Stages
  BY StageFacts
<1>2. TypeOK /\ Labelled /\ Publish("raw", Envelope("raw", e))
  BY DEF EInv, IngestRaw
<1>3. Envelope("raw", e) \in Message /\ Envelope("raw", e).event = e /\ OfStage(Envelope("raw", e), "raw")
  BY <1>1, <1>2, EnvelopeFacts
<1>4. UNCHANGED <<max_attempts, consumed, normalized, findings, pc, batch, evaluated>>
  BY DEF IngestRaw
<1>5. /\ topics' \in [Topics -> Seq(Message)] /\ lag' \in [Topics -> Nat]
      /\ \A t \in Stages : \A x \in Range(topics'[t]) : OfStage(x, t)'
      /\ \A t \in Stages : \A f : Holds(topics[t], f) => Holds(topics'[t], f)
      /\ Holds(topics'["raw"], e)
      /\ topics'["deadletter"] = topics["deadletter"]
  <2>1. max_attempts' = max_attempts
    BY <1>4
  <2>2. QED
    BY <2>1, <1>1, <1>2, <1>3, PublishMoves
<1>6. /\ submits \in [Events -> 0..MaxSubmits] /\ submits' \in [Events -> 0..MaxSubmits]
      /\ \A f \in Events : f # e => submits'[f] = submits[f]
  <2>1. submits \in [Events -> 0..MaxSubmits] /\ submits[e] < MaxSubmits /\ submits' = [submits EXCEPT ![e] = submits[e] + 1]
    BY <1>2 DEF TypeOK, IngestRaw
  <2>2. submits[e] + 1 \in 0..MaxSubmits
    BY <2>1, PipelineAssumption
  <2>3. QED
    BY <2>1, <2>2
<1>7. TypeOK'
  BY <1>2, <1>4, <1>5, <1>6 DEF TypeOK
<1>8. Labelled'
  <2>1. \A t \in Stages, w \in Workers : Draining(w, t) => \A m \in Range(batch[w]) : OfStage(m, t)
    BY <1>2 DEF Labelled
  <2>2. QED
    BY <2>1, <1>4, <1>5 DEF Labelled, Draining, OfStage
<1>9. DeadLettered' = DeadLettered
  BY <1>5 DEF DeadLettered
<1>10. \A t \in Stages : Done(t)' = Done(t)
  BY <1>4, <1>9 DEF Done
<1>11. Held' /\ DoneConsumed' /\ ConsumedAccounted'
  BY <1>4, <1>10 DEF EInv, Held, DoneConsumed, ConsumedAccounted, Draining, Key
<1>12. Arrived'
  BY <1>1, <1>4, <1>5, <1>6 DEF EInv, Arrived, Key
<1>13. Local' /\ ExactlyOnce' /\ DeadLetterSound'
  BY <1>4, <1>5 DEF EInv, Local, ExactlyOnce, DeadLetterSound
<1>14. QED
  BY <1>7, <1>8, <1>11, <1>12, <1>13 DEF EInv

\* A drain starts or ends with nothing in its hands.
LEMMA DrainStep ==
  ASSUME EInv, NEW w \in Workers, EndDrain(w) \/ \E t \in Stages : StartDrain(w, t)
  PROVE  EInv'
<1>1. /\ UNCHANGED <<max_attempts, topics, consumed, lag, normalized, findings, submits, evaluated>>
      /\ batch \in [Workers -> Seq(Message)] /\ pc \in [Workers -> {"idle", "raw", "normalized", "handle raw", "handle normalized"}]
  BY StageFacts DEF EInv, TypeOK, EndDrain, StartDrain
<1>2. batch[w] = <<>> /\ batch' = batch
  <2>1. CASE EndDrain(w)
    BY <2>1 DEF EndDrain
  <2>2. CASE \E t \in Stages : StartDrain(w, t)
    BY <1>1, <2>2 DEF StartDrain, EInv, Local
  <2>3. QED
    BY <2>1, <2>2
<1>3. /\ pc' \in [Workers -> {"idle", "raw", "normalized", "handle raw", "handle normalized"}]
      /\ \A v \in Workers : v # w => pc'[v] = pc[v]
  BY <1>1, StageFacts DEF EndDrain, StartDrain
<1>4. \A v \in Workers, t \in Stages : v # w => (Draining(v, t)' <=> Draining(v, t))
  BY <1>3 DEF Draining
<1>5. DOMAIN batch[w] = {} /\ Range(batch[w]) = {} /\ \A e : ~Holds(batch[w], e)
  BY <1>2 DEF Range, Holds
<1>6. \A t \in Stages : Done(t)' = Done(t)
  BY <1>1 DEF Done, DeadLettered
<1>7. TypeOK'
  BY <1>1, <1>2, <1>3, StageFacts DEF EInv, TypeOK
<1>8. Labelled'
  <2>1. \A t \in Stages : \A m \in Range(topics[t]) : OfStage(m, t)
    BY DEF EInv, Labelled
  <2>2. \A t \in Stages, v \in Workers : Draining(v, t)' => \A m \in Range(batch[v]) : OfStage(m, t)
    BY <1>4, <1>5 DEF EInv, Labelled
  <2>3. QED
    BY <2>1, <2>2, <1>1, <1>2 DEF Labelled, OfStage
<1>9. Held'
  <2> SUFFICES ASSUME NEW t \in Stages, NEW v \in Workers, Draining(v, t)', NEW i \in DOMAIN batch'[v]
               PROVE  /\ Key(t, batch'[v][i].event) \in consumed'
                      /\ batch'[v][i].event \notin Done(t)'
                      /\ \A x \in Workers : Draining(x, t)' =>
                           \A j \in DOMAIN batch'[x] : batch'[v][i].event = batch'[x][j].event => v = x /\ i = j
    BY DEF Held, Key
  <2>1. v # w /\ Draining(v, t) /\ i \in DOMAIN batch[v]
    BY <1>2, <1>4, <1>5
  <2>2. /\ Key(t, batch[v][i].event) \in consumed
        /\ batch[v][i].event \notin Done(t)
        /\ \A x \in Workers : Draining(x, t) =>
             \A j \in DOMAIN batch[x] : batch[v][i].event = batch[x][j].event => v = x /\ i = j
    BY <2>1 DEF EInv, Held
  <2>3. ASSUME NEW x \in Workers, Draining(x, t)', NEW j \in DOMAIN batch[x], batch[v][i].event = batch[x][j].event
        PROVE  v = x /\ i = j
    <3>1. Draining(x, t)
      BY <2>3, <1>4, <1>5
    <3>2. QED
      BY <2>2, <2>3, <3>1
  <2>4. QED
    BY <2>2, <2>3, <1>1, <1>2, <1>6
<1>10. DoneConsumed'
  BY <1>1, <1>6 DEF EInv, DoneConsumed, Key
<1>11. ConsumedAccounted'
  <2> SUFFICES ASSUME NEW t \in Stages, NEW e \in Events, Key(t, e) \in consumed
               PROVE  \/ e \in Done(t)
                      \/ t = "raw" /\ e \in Poison
                      \/ \E v \in Workers : Draining(v, t)' /\ Holds(batch[v], e)
    BY <1>1, <1>2, <1>6 DEF ConsumedAccounted, Key
  <2>1. \A v \in Workers : Draining(v, t) /\ Holds(batch[v], e) => Draining(v, t)'
    BY <1>4, <1>5
  <2>2. QED
    BY <2>1 DEF EInv, ConsumedAccounted
<1>12. Arrived' /\ ExactlyOnce' /\ DeadLetterSound'
  BY <1>1 DEF EInv, Arrived, Key, ExactlyOnce, DeadLetterSound
<1>13. Local'
  BY <1>1, <1>2, <1>3 DEF EInv, Local
<1>14. QED
  BY <1>7, <1>8, <1>9, <1>10, <1>11, <1>12, <1>13 DEF EInv

\* The positions of a batch b that c was appended to.
Joined(bc, b, c, n) ==
  /\ bc \in Seq(Message) /\ n \in Nat
  /\ \A i \in DOMAIN bc : (i \in DOMAIN b /\ bc[i] = b[i]) \/ (i \in Nat /\ i - n \in DOMAIN c /\ bc[i] = c[i - n])
  /\ \A i \in DOMAIN b : i \in DOMAIN bc /\ bc[i] = b[i]
  /\ \A i \in DOMAIN c : i + n \in DOMAIN bc /\ bc[i + n] = c[i]

LEMMA JoinedPositions ==
  ASSUME NEW b \in Seq(Message), NEW c \in Seq(Message)
  PROVE  Joined(b \o c, b, c, Len(b))
<1> PICK n, k : n = Len(b) /\ k = Len(c)
  OBVIOUS
<1>1. n \in Nat /\ k \in Nat /\ DOMAIN b = 1..n /\ DOMAIN c = 1..k
  OBVIOUS
<1>2. PICK bc : bc = b \o c
  OBVIOUS
<1>3. /\ bc \in Seq(Message) /\ DOMAIN bc = 1..(n + k)
      /\ \A i \in 1..(n + k) : bc[i] = IF i <= n THEN b[i] ELSE c[i - n]
  BY <1>2
<1>4. \A i \in 1..(n + k) : i \in 1..n \/ (i \in Nat /\ i - n \in 1..k /\ ~(i <= n))
  BY <1>1
<1>5. \A i \in 1..n : i \in 1..(n + k) /\ i <= n
  BY <1>1
<1>6. ASSUME NEW i \in 1..k PROVE i + n \in 1..(n + k) /\ bc[i + n] = c[i]
  <2>1. i + n \in 1..(n + k) /\ ~(i + n <= n) /\ (i + n) - n = i
    BY <1>1
  <2>2. QED
    BY <2>1, <1>3
<1>7. \A i \in 1..n : bc[i] = b[i]
  BY <1>3, <1>5
<1>8. \A i \in 1..(n + k) : i \notin 1..n => bc[i] = c[i - n]
  BY <1>3, <1>4
<1>9. QED
  BY <1>1, <1>2, <1>3, <1>4, <1>5, <1>6, <1>7, <1>8 DEF Joined

\* One consume call of a drain: the messages taken go to the worker's batch.
LEMMA FetchStep ==
  ASSUME EInv, NEW w \in Workers, NEW t \in Stages, Fetch(w, t)
  PROVE  EInv'
<1> PICK q, r : q = topics[t] /\ r = Take(t, q)
  OBVIOUS
<1> PICK b, c : b = batch[w] /\ c = r.chunk
  OBVIOUS
<1>1. TypeOK /\ t \in Topics /\ q \in Seq(Message) /\ b \in Seq(Message)
  BY StageFacts DEF EInv, TypeOK
<1>2. r \in Locals(t) /\ Taken(r, t, q, Len(q))
  BY <1>1, TakeTaken
<1>3. /\ c \in Seq(Message) /\ r.rest \in Seq(Message)
      /\ r.seen \in SUBSET ({Group.raw, Group.normalized} \X Keys)
  BY <1>2 DEF Locals
<1>joined. PICK bc, n : Joined(bc, b, c, n) /\ batch' = [batch EXCEPT ![w] = bc]
  BY <1>1, <1>3, JoinedPositions DEF Fetch
<1>4. /\ pc[w] = t
      /\ topics' = [topics EXCEPT ![t] = r.rest] /\ consumed' = r.seen
      /\ lag' = [lag EXCEPT ![t] = Len(r.rest)]
      /\ pc' = IF c = <<>> THEN [pc EXCEPT ![w] = Handling[t]] ELSE pc
      /\ UNCHANGED <<max_attempts, normalized, findings, submits, evaluated>>
  BY DEF Fetch
<1>5. /\ topics \in [Topics -> Seq(Message)] /\ batch \in [Workers -> Seq(Message)] /\ lag \in [Topics -> Nat]
      /\ pc \in [Workers -> {"idle", "raw", "normalized", "handle raw", "handle normalized"}]
  BY <1>1, StageFacts DEF TypeOK
<1>6. /\ topics'[t] = r.rest /\ \A u \in Topics : u # t => topics'[u] = topics[u]
      /\ batch'[w] = bc /\ \A v \in Workers : v # w => batch'[v] = batch[v]
  BY <1>1, <1>4, <1>5, <1>joined
<1>7. \A v \in Workers, u \in Stages : Draining(v, u)' <=> Draining(v, u)
  BY <1>4, <1>5, StageFacts DEF Draining
<1>8. Draining(w, t)
  BY <1>4 DEF Draining
\* The messages of the topic and those taken belong to stage t.
<1>9. \A m \in Range(q) : OfStage(m, t) /\ m \in Message /\ <<Group[t], m.key>> = Key(t, m.event) /\ m.event \in Events
  <2> SUFFICES ASSUME NEW m \in Range(q)
               PROVE OfStage(m, t) /\ m \in Message /\ <<Group[t], m.key>> = Key(t, m.event) /\ m.event \in Events
    OBVIOUS
  <2>1. OfStage(m, t)
    BY DEF EInv, Labelled
  <2>2. m \in Message
    BY <1>1 DEF Range
  <2>3. QED
    BY <2>1, <2>2, KeyOfMessage
<1>10. /\ \A i \in DOMAIN c : /\ OfStage(c[i], t) /\ c[i].event \in Events
                             /\ Key(t, c[i].event) \in consumed' /\ Key(t, c[i].event) \notin consumed
       /\ \A i, j \in DOMAIN c : c[i].event = c[j].event => i = j
       /\ \A k \in consumed' : k \in consumed \/ \E i \in DOMAIN c : k = Key(t, c[i].event)
       /\ consumed \subseteq consumed'
  <2>1. \A i \in DOMAIN c : c[i] \in Range(q) /\ <<Group[t], c[i].key>> \in r.seen \ consumed
    BY <1>2 DEF Taken
  <2>2. \A i \in DOMAIN c : /\ OfStage(c[i], t) /\ c[i].event \in Events
                            /\ Key(t, c[i].event) \in consumed' /\ Key(t, c[i].event) \notin consumed
    <3> SUFFICES ASSUME NEW i \in DOMAIN c
                 PROVE  /\ OfStage(c[i], t) /\ c[i].event \in Events
                        /\ Key(t, c[i].event) \in consumed' /\ Key(t, c[i].event) \notin consumed
      OBVIOUS
    <3>1. OfStage(c[i], t) /\ c[i].event \in Events /\ <<Group[t], c[i].key>> = Key(t, c[i].event)
      BY <2>1, <1>9
    <3>2. QED
      BY <3>1, <2>1, <1>4
  <2>3. ASSUME NEW i \in DOMAIN c, NEW j \in DOMAIN c, c[i].event = c[j].event PROVE i = j
    <3>1. c[i].key = c[j].key
      BY <2>2, <2>3 DEF OfStage
    <3>2. QED
      BY <3>1, <1>2 DEF Taken
  <2>4. ASSUME NEW k \in consumed', k \notin consumed PROVE \E i \in DOMAIN c : k = Key(t, c[i].event)
    <3>1. PICK i \in DOMAIN c : k = <<Group[t], c[i].key>>
      BY <1>2, <1>4, <2>4 DEF Taken
    <3>2. QED
      BY <3>1, <2>1, <1>9
  <2>5. consumed \subseteq consumed'
    BY <1>2, <1>4 DEF Taken
  <2>6. QED
    BY <2>2, <2>3, <2>4, <2>5
<1>12. DeadLettered' = DeadLettered
  <2>1. "deadletter" \in Topics /\ t # "deadletter"
    BY StageFacts DEF Topics
  <2>2. QED
    BY <2>1, <1>6 DEF DeadLettered
<1>13. \A u \in Stages : Done(u)' = Done(u)
  BY <1>4, <1>12 DEF Done
<1>14. TypeOK'
  <2>1. topics' \in [Topics -> Seq(Message)] /\ lag' \in [Topics -> Nat] /\ batch' \in [Workers -> Seq(Message)]
    <3>1. Len(r.rest) \in Nat
      BY <1>3
    <3>2. QED
      BY <1>3, <1>4, <1>5, <1>joined, <3>1 DEF Joined
  <2>2. pc' \in [Workers -> {"idle", "raw", "normalized", "handle raw", "handle normalized"}]
    BY <1>4, <1>5, StageFacts
  <2>3. consumed' \subseteq {Group.raw, Group.normalized} \X Keys
    BY <1>3, <1>4
  <2>4. QED
    BY <1>1, <1>4, <2>1, <2>2, <2>3, StageFacts DEF TypeOK
<1>15. Labelled'
  <2>1. \A u \in Stages : \A m \in Range(topics'[u]) : OfStage(m, u)
    <3> SUFFICES ASSUME NEW u \in Stages, NEW m \in Range(topics'[u]) PROVE OfStage(m, u)
      OBVIOUS
    <3>1. CASE u = t
      <4>1. m \in Range(r.rest)
        BY <1>6, <3>1
      <4>2. m \in Range(q)
        BY <4>1, <1>2 DEF Range, Taken
      <4>3. QED
        BY <4>2, <1>9, <3>1
    <3>2. CASE u # t
      BY <1>6, <3>2, StageFacts DEF EInv, Labelled
    <3>3. QED
      BY <3>1, <3>2
  <2>2. \A u \in Stages, v \in Workers : Draining(v, u)' => \A m \in Range(batch'[v]) : OfStage(m, u)
    <3> SUFFICES ASSUME NEW u \in Stages, NEW v \in Workers, Draining(v, u)', NEW m \in Range(batch'[v])
                 PROVE  OfStage(m, u)
      OBVIOUS
    <3>1. Draining(v, u) /\ \A x \in Range(batch[v]) : OfStage(x, u)
      BY <1>7 DEF EInv, Labelled
    <3>2. CASE v = w
      <4>1. u = t
        BY <1>8, <3>1, <3>2, OneStage
      <4>2. PICK i \in DOMAIN bc : m = bc[i]
        BY <1>6, <3>2 DEF Range
      <4>3. m \in Range(b) \/ \E j \in DOMAIN c : m = c[j]
        BY <1>joined, <4>2 DEF Range, Joined
      <4>4. QED
        BY <4>1, <4>3, <3>1, <3>2, <1>10
    <3>3. CASE v # w
      BY <3>1, <3>3, <1>6
    <3>4. QED
      BY <3>2, <3>3
  <2>3. QED
    BY <2>1, <2>2, <1>4 DEF Labelled, OfStage
<1>16. Held'
  <2> SUFFICES ASSUME NEW u \in Stages, NEW v \in Workers, Draining(v, u)', NEW i \in DOMAIN batch'[v]
               PROVE  /\ Key(u, batch'[v][i].event) \in consumed'
                      /\ batch'[v][i].event \notin Done(u)'
                      /\ \A x \in Workers : Draining(x, u)' =>
                           \A j \in DOMAIN batch'[x] : batch'[v][i].event = batch'[x][j].event => v = x /\ i = j
    BY DEF Held, Key
  \* A position of a batch is an old one, or one of what w has just taken.
  <2>1. ASSUME NEW x \in Workers, NEW j \in DOMAIN batch'[x], Draining(x, u)'
        PROVE  /\ Draining(x, u)
               /\ \/ j \in DOMAIN batch[x] /\ batch'[x][j] = batch[x][j]
                  \/ /\ x = w /\ u = t /\ j \in Nat /\ j - n \in DOMAIN c
                     /\ batch'[x][j] = c[j - n]
    <3>1. Draining(x, u)
      BY <1>7, <2>1
    <3>2. CASE x = w
      <4>1. u = t
        BY <1>8, <3>1, <3>2, OneStage
      <4>2. QED
        <5>1. j \in DOMAIN bc /\ batch'[x] = bc /\ batch[x] = b
          BY <1>6, <3>2
        <5>2. QED
          BY <1>joined, <3>1, <3>2, <4>1, <5>1 DEF Joined
    <3>3. CASE x # w
      BY <1>6, <3>1, <3>3
    <3>4. QED
      BY <3>2, <3>3
  <2>2. ASSUME NEW x \in Workers, NEW j \in DOMAIN batch[x], Draining(x, u)
        PROVE  /\ Key(u, batch[x][j].event) \in consumed
               /\ batch[x][j].event \notin Done(u)
               /\ \A y \in Workers : Draining(y, u) =>
                    \A k \in DOMAIN batch[y] : batch[x][j].event = batch[y][k].event => x = y /\ j = k
    BY <2>2 DEF EInv, Held
  <2>3. \A j \in DOMAIN c : c[j].event \notin Done(t)
    BY <1>10 DEF EInv, DoneConsumed
  <2>4. Key(u, batch'[v][i].event) \in consumed' /\ batch'[v][i].event \notin Done(u)
    <3>1. CASE i \in DOMAIN batch[v] /\ batch'[v][i] = batch[v][i]
      BY <3>1, <2>1, <2>2, <1>10
    <3>2. CASE v = w /\ u = t /\ i - n \in DOMAIN c /\ batch'[v][i] = c[i - n]
      BY <3>2, <2>3, <1>10
    <3>3. QED
      BY <3>1, <3>2, <2>1
  <2>5. ASSUME NEW x \in Workers, Draining(x, u)', NEW j \in DOMAIN batch'[x],
               batch'[v][i].event = batch'[x][j].event
        PROVE  v = x /\ i = j
    <3>1. CASE /\ i \in DOMAIN batch[v] /\ batch'[v][i] = batch[v][i]
               /\ j \in DOMAIN batch[x] /\ batch'[x][j] = batch[x][j]
      <4>1. Draining(v, u) /\ Draining(x, u) /\ batch[v][i].event = batch[x][j].event
        BY <3>1, <2>1, <2>5
      <4>2. QED
        BY <4>1, <3>1, <2>2
    <3>2. CASE /\ i \in DOMAIN batch[v] /\ batch'[v][i] = batch[v][i]
               /\ u = t /\ j - n \in DOMAIN c /\ batch'[x][j] = c[j - n]
      <4>1. Key(u, batch[v][i].event) \in consumed
        BY <3>2, <2>1, <2>2
      <4>2. Key(u, c[j - n].event) \notin consumed
        BY <3>2, <1>10
      <4>3. QED
        BY <4>1, <4>2, <3>2, <2>5
    <3>3. CASE /\ j \in DOMAIN batch[x] /\ batch'[x][j] = batch[x][j]
               /\ u = t /\ i - n \in DOMAIN c /\ batch'[v][i] = c[i - n]
      <4>1. Key(u, batch[x][j].event) \in consumed
        BY <3>3, <2>1, <2>2, <2>5
      <4>2. Key(u, c[i - n].event) \notin consumed
        BY <3>3, <1>10
      <4>3. QED
        BY <4>1, <4>2, <3>3, <2>5
    <3>4. CASE /\ v = w /\ i \in Nat /\ i - n \in DOMAIN c /\ batch'[v][i] = c[i - n]
               /\ x = w /\ j \in Nat /\ j - n \in DOMAIN c /\ batch'[x][j] = c[j - n]
      <4>1. i - n = j - n
        BY <3>4, <2>5, <1>10
      <4>2. QED
        BY <4>1, <3>4, <1>joined DEF Joined
    <3>5. QED
      BY <3>1, <3>2, <3>3, <3>4, <2>1, <2>5
  <2>6. QED
    BY <2>4, <2>5, <1>13
<1>17. DoneConsumed'
  <2> SUFFICES ASSUME NEW u \in Stages, NEW e \in Done(u)' PROVE Key(u, e) \in consumed'
    BY DEF DoneConsumed, Key
  <2>1. QED
    BY <1>10, <1>13 DEF EInv, DoneConsumed
<1>18. ConsumedAccounted'
  <2> SUFFICES ASSUME NEW u \in Stages, NEW e \in Events, Key(u, e) \in consumed'
               PROVE  \/ e \in Done(u)'
                      \/ u = "raw" /\ e \in Poison
                      \/ \E v \in Workers : Draining(v, u)' /\ Holds(batch'[v], e)
    BY DEF ConsumedAccounted, Key
  <2>1. CASE Key(u, e) \in consumed
    <3>1. \A v \in Workers : Holds(batch[v], e) => Holds(batch'[v], e)
      <4> SUFFICES ASSUME NEW v \in Workers, Holds(batch[v], e) PROVE Holds(batch'[v], e)
        OBVIOUS
      <4>1. PICK i \in DOMAIN batch[v] : batch[v][i].event = e
        BY DEF Holds
      <4>2. i \in DOMAIN batch'[v] /\ batch'[v][i] = batch[v][i]
        BY <1>6, <1>joined DEF Joined
      <4>3. QED
        BY <4>1, <4>2 DEF Holds
    <3>2. QED
      BY <2>1, <3>1, <1>7, <1>13 DEF EInv, ConsumedAccounted
  <2>2. CASE Key(u, e) \notin consumed
    <3>1. PICK i \in DOMAIN c : Key(u, e) = Key(t, c[i].event)
      BY <2>2, <1>10
    <3>2. u = t /\ e = c[i].event
      BY <3>1 DEF Key
    <3>3. Holds(batch'[w], e)
      <4>1. i + n \in DOMAIN batch'[w] /\ batch'[w][i + n] = c[i]
        BY <1>6, <1>joined DEF Joined
      <4>2. QED
        BY <3>2, <4>1 DEF Holds
    <3>4. QED
      BY <3>2, <3>3, <1>7, <1>8
  <2>3. QED
    BY <2>1, <2>2
<1>19. \A u \in Stages, e \in Events : Holds(topics[u], e) => Holds(topics'[u], e) \/ Key(u, e) \in consumed'
  <2> SUFFICES ASSUME NEW u \in Stages, NEW e \in Events, Holds(topics[u], e)
               PROVE  Holds(topics'[u], e) \/ Key(u, e) \in consumed'
    OBVIOUS
  <2>1. CASE u # t
    BY <2>1, <1>6, StageFacts
  <2>2. CASE u = t
    <3>1. PICK i \in DOMAIN q : q[i].event = e
      BY <2>2 DEF Holds
    <3>2. i \in 1..Len(q) /\ q[i] \in Range(q)
      BY <1>1 DEF Range
    <3>3. CASE q[i] \in Range(r.rest)
      BY <3>1, <3>3, <2>2, <1>6 DEF Range, Holds
    <3>4. CASE <<Group[t], q[i].key>> \in r.seen
      BY <3>1, <3>2, <3>4, <2>2, <1>4, <1>9
    <3>5. QED
      BY <3>2, <3>3, <3>4, <1>2 DEF Taken
  <2>3. QED
    BY <2>1, <2>2
<1>20. Arrived'
  <2>1. normalized' = normalized /\ submits' = submits /\ normalized \in Seq(Events)
    BY <1>1, <1>4 DEF TypeOK
  <2>2. ASSUME NEW e \in Events, submits[e] > 0
        PROVE  Holds(topics'["raw"], e) \/ Key("raw", e) \in consumed'
    <3>1. Holds(topics["raw"], e) \/ Key("raw", e) \in consumed
      BY <2>2 DEF EInv, Arrived
    <3>2. QED
      BY <3>1, <1>10, <1>19, StageFacts
  <2>3. ASSUME NEW e \in Range(normalized)
        PROVE  Holds(topics'["normalized"], e) \/ Key("normalized", e) \in consumed'
    <3>1. e \in Events /\ (Holds(topics["normalized"], e) \/ Key("normalized", e) \in consumed)
      BY <2>1 DEF EInv, Arrived, Range
    <3>2. QED
      BY <3>1, <1>10, <1>19, StageFacts
  <2>4. QED
    BY <2>1, <2>2, <2>3 DEF Arrived, Key
<1>21. Local'
  <2>1. \A v \in Workers : pc'[v] = "idle" => v # w /\ pc[v] = "idle"
    BY <1>4, <1>5, StageFacts
  <2>2. QED
    BY <2>1, <1>4, <1>6 DEF EInv, Local
<1>22. topics'["deadletter"] = topics["deadletter"]
  BY <1>6, StageFacts DEF Topics
<1>23. ExactlyOnce' /\ DeadLetterSound'
  BY <1>4, <1>22 DEF EInv, ExactlyOnce, DeadLetterSound
<1>24. QED
  BY <1>14, <1>15, <1>16, <1>17, <1>18, <1>20, <1>21, <1>23 DEF EInv

\* A list without duplicates stays so when a new element is added.
LEMMA AppendNew ==
  ASSUME NEW S, NEW q \in Seq(S), NEW e \in S, IsInjective(q), e \notin Range(q)
  PROVE  Append(q, e) \in Seq(S) /\ IsInjective(Append(q, e)) /\ Range(Append(q, e)) = Range(q) \cup {e}
<1>1. /\ DOMAIN q = 1..Len(q) /\ Len(q) \in Nat /\ DOMAIN Append(q, e) = 1..(Len(q) + 1)
      /\ \A i \in 1..Len(q) : Append(q, e)[i] = q[i]
      /\ Append(q, e)[Len(q) + 1] = e
      /\ Append(q, e) \in Seq(S)
  OBVIOUS
<1>2. \A i \in 1..(Len(q) + 1) : i \in 1..Len(q) \/ i = Len(q) + 1
  BY <1>1
<1>3. \A i \in 1..Len(q) : i \in 1..(Len(q) + 1)
  BY <1>1
<1>4. Len(q) + 1 \in 1..(Len(q) + 1)
  BY <1>1
<1> PICK r, n : r = Append(q, e) /\ n = Len(q)
  OBVIOUS
<1>5. \A i \in 1..n : q[i] # e
  BY <1>1 DEF Range
<1>6. IsInjective(r)
  BY <1>1, <1>2, <1>3, <1>4, <1>5 DEF IsInjective
<1>7. \A x \in Range(r) : x \in Range(q) \cup {e}
  BY <1>1, <1>2 DEF Range
<1>8. \A x \in Range(q) \cup {e} : x \in Range(r)
  BY <1>1, <1>3, <1>4 DEF Range
<1>9. QED
  BY <1>1, <1>6, <1>7, <1>8

\* drain_raw passes a message on to the normalized topic.
LEMMA NormalizeStep ==
  ASSUME EInv, NEW w \in Workers, Normalize(w)
  PROVE  EInv'
<1> PICK e : e = Head(batch[w]).event
  OBVIOUS
<1>1. "raw" \in Stages /\ "normalized" \in Stages /\ "normalized" \in Topics /\ "normalized" # "deadletter" /\ "normalized" # "raw"
  BY StageFacts
<1>2. /\ NextMessage(w, Handling["raw"])
      /\ normalized' = Append(normalized, e) /\ Publish("normalized", Envelope("normalized", e))
      /\ UNCHANGED <<max_attempts, consumed, findings, submits, evaluated>>
  BY DEF Normalize
<1>3. e \in Events /\ e \notin Done("raw")
  BY <1>1, <1>2, FirstOfBatch
<1>4. TypeOK /\ Labelled /\ normalized \in Seq(Events) /\ e \notin Range(normalized) /\ IsInjective(normalized)
  BY <1>3 DEF EInv, TypeOK, Done, ExactlyOnce
<1>5. normalized' \in Seq(Events) /\ IsInjective(normalized') /\ Range(normalized') = Range(normalized) \cup {e}
  BY <1>2, <1>3, <1>4, AppendNew
<1>6. /\ topics' \in [Topics -> Seq(Message)] /\ lag' \in [Topics -> Nat]
      /\ \A t \in Stages : \A x \in Range(topics'[t]) : OfStage(x, t)'
      /\ \A t \in Stages : \A f : Holds(topics[t], f) => Holds(topics'[t], f)
      /\ Holds(topics'["normalized"], e)
      /\ topics'["deadletter"] = topics["deadletter"]
  <2>1. Envelope("normalized", e) \in Message /\ Envelope("normalized", e).event = e /\ OfStage(Envelope("normalized", e), "normalized")
    BY <1>1, <1>3, <1>4, EnvelopeFacts
  <2>2. max_attempts' = max_attempts
    BY <1>2
  <2>3. QED
    BY <2>1, <2>2, <1>1, <1>2, <1>4, PublishMoves
<1>7. Done("raw")' = Done("raw") \cup {e} /\ \A u \in Stages : u # "raw" => Done(u)' = Done(u)
  <2>1. DeadLettered' = DeadLettered
    BY <1>6 DEF DeadLettered
  <2>2. QED
    BY <2>1, <1>2, <1>5 DEF Done
<1>8. /\ batch' \in [Workers -> Seq(Message)] /\ pc' = pc
      /\ \A u \in Stages, v \in Workers : Draining(v, u)' => \A m \in Range(batch'[v]) : OfStage(m, u)'
      /\ \A v \in Workers : pc'[v] = "idle" => batch'[v] = <<>>
      /\ Held' /\ DoneConsumed' /\ ConsumedAccounted'
  <2>1. consumed' = consumed /\ max_attempts' = max_attempts /\ {e} \in SUBSET {Head(batch[w]).event} /\ Head(batch[w]).event \in {e}
    BY <1>2
  <2>2. QED
    BY <2>1, <1>1, <1>2, <1>7, HandleMoves
<1>9. TypeOK'
  BY <1>2, <1>4, <1>5, <1>6, <1>8 DEF TypeOK
<1>10. Labelled'
  BY <1>6, <1>8 DEF Labelled
<1>11. Arrived'
  BY <1>1, <1>2, <1>5, <1>6 DEF EInv, Arrived, Key
<1>12. Local' /\ ExactlyOnce' /\ DeadLetterSound'
  BY <1>2, <1>5, <1>6, <1>8 DEF EInv, Local, ExactlyOnce, DeadLetterSound
<1>13. QED
  BY <1>8, <1>9, <1>10, <1>11, <1>12 DEF EInv

\* The key of a dead letter is the old one after "dlq".
LEMMA DlqKey ==
  ASSUME NEW a, NEW b
  PROVE  <<"dlq">> \o <<a, b>> = <<"dlq", a, b>>
<1> DEFINE S == {"dlq", a, b}
<1>1. <<"dlq">> \in Seq(S) /\ <<a, b>> \in Seq(S) /\ <<"dlq", a, b>> \in Seq(S)
  OBVIOUS
<1>2. Len(<<"dlq">>) = 1 /\ Len(<<a, b>>) = 2 /\ Len(<<"dlq", a, b>>) = 3
  OBVIOUS
<1>3. PICK l : l = <<"dlq">> \o <<a, b>>
  OBVIOUS
<1>4. l \in Seq(S) /\ Len(l) = 3 /\ l[1] = "dlq" /\ l[2] = a /\ l[3] = b
  BY <1>1, <1>2, <1>3
<1>5. \A i \in 1..3 : l[i] = <<"dlq", a, b>>[i]
  BY <1>4
<1>6. QED
  BY <1>1, <1>2, <1>3, <1>4, <1>5, SeqEqual

\* dead_letter adds the copy of a message that used up its attempts.
LEMMA DeadLetterMoves ==
  ASSUME EInv, NEW m \in Message, OfStage(m, "raw"), m.event \in Poison, m.event \notin DeadLettered,
         m.attempt + 1 >= max_attempts, DeadLetter(m), max_attempts' = max_attempts
  PROVE  /\ topics' \in [Topics -> Seq(Message)] /\ lag' \in [Topics -> Nat]
         /\ \A t \in Stages : \A x \in Range(topics'[t]) : OfStage(x, t)'
         /\ \A t \in Stages : \A f : Holds(topics[t], f) => Holds(topics'[t], f)
         /\ DeadLettered' = DeadLettered \cup {m.event}
         /\ DeadLetterSound'
<1> PICK d : d = [m EXCEPT !.poison = TRUE, !.attempt = m.attempt + 1, !.key = <<"dlq">> \o m.key]
  OBVIOUS
<1>1. m.event \in Events /\ m.key = <<"raw", m.event>> /\ m.attempt \in Nat /\ max_attempts \in Nat \ {0}
  BY PipelineAssumption DEF Message, OfStage, EInv, TypeOK
<1>2. m.attempt + 1 = max_attempts
  BY <1>1 DEF OfStage
<1>3. <<"dlq">> \o m.key \in Keys
  <2>1. <<"dlq">> \o <<"raw", m.event>> = <<"dlq", "raw", m.event>>
    BY DlqKey
  <2>2. "raw" \in Topics
    BY DEF Topics
  <2>3. <<"dlq", "raw", m.event>> \in {<<"dlq", t, e>> : t \in Topics, e \in Events}
    BY <2>2, <1>1
  <2>4. QED
    BY <2>1, <2>3, <1>1 DEF Keys
<1>4. d \in Message /\ d.event = m.event /\ d.poison /\ d.attempt = max_attempts
  BY <1>1, <1>2, <1>3 DEF Message
<1>5. Publish("deadletter", d) /\ "deadletter" \in Topics /\ "deadletter" \notin Stages
  BY StageFacts DEF DeadLetter, Topics
<1>6. /\ topics' \in [Topics -> Seq(Message)] /\ lag' \in [Topics -> Nat]
      /\ \A t \in Stages : \A x \in Range(topics'[t]) : OfStage(x, t)'
      /\ \A t \in Stages : \A f : Holds(topics[t], f) => Holds(topics'[t], f)
      /\ topics'["deadletter"] = Append(topics["deadletter"], d)
  <2>1. TypeOK /\ Labelled
    BY DEF EInv
  <2>2. QED
    BY <2>1, <1>4, <1>5, PublishMoves
<1>7. PICK q, r, n : q = topics["deadletter"] /\ r = topics'["deadletter"] /\ n = Len(q)
  OBVIOUS
<1>8. q \in Seq(Message)
  BY <1>5, <1>7 DEF EInv, TypeOK
<1>9. /\ n \in Nat /\ DOMAIN q = 1..n /\ DOMAIN r = 1..(n + 1)
      /\ \A i \in 1..n : r[i] = q[i]
      /\ r[n + 1] = d
  BY <1>4, <1>6, <1>7, <1>8
<1>10. (\A i \in 1..(n + 1) : i \in 1..n \/ i = n + 1) /\ (\A i \in 1..n : i \in 1..(n + 1)) /\ n + 1 \in 1..(n + 1)
  BY <1>9
<1>11. DeadLettered = {x.event : x \in Range(q)} /\ DeadLettered' = {x.event : x \in Range(r)}
  BY <1>7 DEF DeadLettered
<1>12. Range(r) = Range(q) \cup {d}
  <2>1. \A x \in Range(r) : x \in Range(q) \cup {d}
    BY <1>9, <1>10 DEF Range
  <2>2. \A x \in Range(q) \cup {d} : x \in Range(r)
    BY <1>9, <1>10 DEF Range
  <2>3. QED
    BY <2>1, <2>2
<1>13. DeadLettered' = DeadLettered \cup {m.event}
  BY <1>4, <1>11, <1>12
<1>14. \A i \in 1..n : q[i].event # m.event
  BY <1>9, <1>11 DEF Range
<1>15. \A i \in 1..n : /\ q[i].event \in Poison /\ q[i].poison /\ q[i].attempt = max_attempts
                       /\ \A j \in 1..n : q[j].event = q[i].event => i = j
  BY <1>7, <1>9 DEF EInv, DeadLetterSound
<1>16. \A i \in 1..(n + 1) : /\ r[i].event \in Poison /\ r[i].poison /\ r[i].attempt = max_attempts
                             /\ \A j \in 1..(n + 1) : r[j].event = r[i].event => i = j
  <2> SUFFICES ASSUME NEW i \in 1..(n + 1)
               PROVE  /\ r[i].event \in Poison /\ r[i].poison /\ r[i].attempt = max_attempts
                      /\ \A j \in 1..(n + 1) : r[j].event = r[i].event => i = j
    OBVIOUS
  <2>1. CASE i \in 1..n
    <3>1. r[i] = q[i] /\ r[n + 1].event = m.event
      BY <2>1, <1>4, <1>9
    <3>2. \A j \in 1..(n + 1) : r[j].event = r[i].event => i = j
      <4> SUFFICES ASSUME NEW j \in 1..(n + 1), r[j].event = r[i].event PROVE i = j
        OBVIOUS
      <4>1. j # n + 1
        BY <2>1, <3>1, <1>14
      <4>2. j \in 1..n /\ r[j] = q[j]
        BY <4>1, <1>9, <1>10
      <4>3. QED
        BY <4>2, <2>1, <3>1, <1>15
    <3>3. QED
      BY <2>1, <3>1, <3>2, <1>15
  <2>2. CASE i = n + 1
    <3>1. r[i] = d /\ \A j \in 1..n : r[j].event # m.event
      BY <2>2, <1>9, <1>14
    <3>2. \A j \in 1..(n + 1) : r[j].event = r[i].event => i = j
      BY <2>2, <3>1, <1>4, <1>10
    <3>3. QED
      BY <3>1, <3>2, <1>4
  <2>3. QED
    BY <2>1, <2>2, <1>10
<1>17. DeadLetterSound'
  BY <1>7, <1>9, <1>16 DEF DeadLetterSound
<1>18. QED
  BY <1>6, <1>13, <1>17

\* drain_raw gives a message another attempt or sends it to the dead letters.
LEMMA NormalizeFailsStep ==
  ASSUME EInv, NEW w \in Workers, NormalizeFails(w)
  PROVE  EInv'
<1> PICK m, e : m = Head(batch[w]) /\ e = m.event
  OBVIOUS
<1>1. "raw" \in Stages /\ "raw" \in Topics /\ "raw" # "deadletter" /\ "normalized" # "raw"
  BY StageFacts
<1>2. /\ NextMessage(w, Handling["raw"]) /\ e \in Poison
      /\ UNCHANGED <<max_attempts, consumed, normalized, findings, submits, evaluated>>
      /\ IF m.attempt + 1 >= max_attempts THEN DeadLetter(m) ELSE Publish("raw", [m EXCEPT !.attempt = m.attempt + 1])
  BY DEF NormalizeFails
<1>3. e \in Events /\ e \notin Done("raw") /\ m \in Message /\ OfStage(m, "raw")
  BY <1>1, <1>2, FirstOfBatch
<1>4. TypeOK /\ Labelled /\ e \notin DeadLettered /\ max_attempts \in Nat \ {0} /\ m.attempt \in Nat
  BY <1>3, PipelineAssumption DEF EInv, TypeOK, Done, Message
<1>5. PICK D \in SUBSET {e} :
        /\ topics' \in [Topics -> Seq(Message)] /\ lag' \in [Topics -> Nat]
        /\ \A t \in Stages : \A x \in Range(topics'[t]) : OfStage(x, t)'
        /\ \A t \in Stages : \A f : Holds(topics[t], f) => Holds(topics'[t], f)
        /\ DeadLettered' = DeadLettered \cup D
        /\ DeadLetterSound'
  <2>1. max_attempts' = max_attempts
    BY <1>2
  <2>2. CASE m.attempt + 1 >= max_attempts
    <3>1. DeadLetter(m)
      BY <1>2, <2>2
    <3>2. QED
      BY <3>1, <2>1, <2>2, <1>2, <1>3, <1>4, DeadLetterMoves
  <2>3. CASE ~(m.attempt + 1 >= max_attempts)
    <3> PICK r : r = [m EXCEPT !.attempt = m.attempt + 1]
      OBVIOUS
    <3>1. Publish("raw", r)
      BY <1>2, <2>3
    <3>2. r \in Message /\ OfStage(r, "raw")
      BY <1>3, <1>4, <2>3 DEF Message, OfStage
    <3>3. /\ topics' \in [Topics -> Seq(Message)] /\ lag' \in [Topics -> Nat]
          /\ \A t \in Stages : \A x \in Range(topics'[t]) : OfStage(x, t)'
          /\ \A t \in Stages : \A f : Holds(topics[t], f) => Holds(topics'[t], f)
          /\ topics'["deadletter"] = topics["deadletter"]
      BY <3>1, <3>2, <2>1, <1>1, <1>4, PublishMoves
    <3>4. DeadLettered' = DeadLettered \cup {}
      BY <3>3 DEF DeadLettered
    <3>5. DeadLetterSound'
      BY <3>3, <2>1 DEF EInv, DeadLetterSound
    <3>6. QED
      BY <3>3, <3>4, <3>5
  <2>4. QED
    BY <2>2, <2>3
<1>6. Done("raw")' = Done("raw") \cup D /\ \A u \in Stages : u # "raw" => Done(u)' = Done(u)
  BY <1>2, <1>5 DEF Done
<1>7. /\ batch' \in [Workers -> Seq(Message)] /\ pc' = pc
      /\ \A u \in Stages, v \in Workers : Draining(v, u)' => \A x \in Range(batch'[v]) : OfStage(x, u)'
      /\ \A v \in Workers : pc'[v] = "idle" => batch'[v] = <<>>
      /\ Held' /\ DoneConsumed' /\ ConsumedAccounted'
  <2>1. consumed' = consumed /\ max_attempts' = max_attempts /\ D \in SUBSET {Head(batch[w]).event} /\ Head(batch[w]).event \in Poison
    BY <1>2
  <2>2. QED
    BY <2>1, <1>1, <1>2, <1>6, HandleMoves
<1>8. TypeOK'
  BY <1>2, <1>4, <1>5, <1>7 DEF TypeOK
<1>9. Labelled'
  BY <1>5, <1>7 DEF Labelled
<1>10. Arrived'
  <2>1. "normalized" \in Stages
    BY StageFacts
  <2>2. QED
    BY <2>1, <1>1, <1>2, <1>5 DEF EInv, Arrived, Key
<1>11. Local' /\ ExactlyOnce'
  BY <1>2, <1>7 DEF EInv, Local, ExactlyOnce
<1>12. QED
  BY <1>5, <1>7, <1>8, <1>9, <1>10, <1>11 DEF EInv

\* drain_normalized gives a message to the rules.
LEMMA EvaluateStep ==
  ASSUME EInv, NEW w \in Workers, Evaluate(w)
  PROVE  EInv'
<1> PICK e : e = Head(batch[w]).event
  OBVIOUS
<1>1. "normalized" \in Stages /\ "raw" \in Stages /\ "findings" \in Topics /\ "findings" \notin Stages /\ "findings" # "deadletter" /\ "normalized" # "raw"
  BY StageFacts DEF Topics
<1>2. /\ NextMessage(w, Handling["normalized"])
      /\ evaluated' = Append(evaluated, e)
      /\ UNCHANGED <<max_attempts, consumed, normalized, submits>>
      /\ IF e \in Alerting
         THEN findings' = Append(findings, e) /\ Publish("findings", Envelope("findings", e))
         ELSE UNCHANGED <<findings, topics, lag>>
  BY DEF Evaluate
<1>3. e \in Events /\ e \notin Done("normalized")
  BY <1>1, <1>2, FirstOfBatch
<1>4. /\ TypeOK /\ Labelled /\ evaluated \in Seq(Events) /\ e \notin Range(evaluated) /\ IsInjective(evaluated)
      /\ findings \in Seq(Events) /\ e \notin Range(findings) /\ IsInjective(findings) /\ Range(findings) \subseteq Range(evaluated)
  BY <1>1, <1>3 DEF EInv, TypeOK, Done, ExactlyOnce, Local
<1>5. evaluated' \in Seq(Events) /\ IsInjective(evaluated') /\ Range(evaluated') = Range(evaluated) \cup {e}
  BY <1>2, <1>3, <1>4, AppendNew
<1>6. findings' \in Seq(Events) /\ IsInjective(findings') /\ Range(findings') \subseteq Range(evaluated')
  <2>1. CASE e \in Alerting
    <3>1. findings' = Append(findings, e)
      BY <1>2, <2>1
    <3>2. QED
      BY <3>1, <1>3, <1>4, <1>5, AppendNew
  <2>2. CASE e \notin Alerting
    BY <2>2, <1>2, <1>4, <1>5
  <2>3. QED
    BY <2>1, <2>2
<1>7. /\ topics' \in [Topics -> Seq(Message)] /\ lag' \in [Topics -> Nat]
      /\ \A t \in Stages : \A x \in Range(topics'[t]) : OfStage(x, t)'
      /\ \A t \in Stages : \A f : Holds(topics[t], f) => Holds(topics'[t], f)
      /\ topics'["deadletter"] = topics["deadletter"]
  <2>1. CASE e \in Alerting
    <3>1. Envelope("findings", e) \in Message
      BY <1>1, <1>3, <1>4, EnvelopeFacts
    <3>2. max_attempts' = max_attempts /\ Publish("findings", Envelope("findings", e))
      BY <1>2, <2>1
    <3>3. QED
      BY <3>1, <3>2, <1>1, <1>4, PublishMoves
  <2>2. CASE e \notin Alerting
    BY <2>2, <1>2, <1>4 DEF TypeOK, Labelled, OfStage
  <2>3. QED
    BY <2>1, <2>2
<1>8. Done("normalized")' = Done("normalized") \cup {e} /\ \A u \in Stages : u # "normalized" => Done(u)' = Done(u)
  <2>1. DeadLettered' = DeadLettered
    BY <1>7 DEF DeadLettered
  <2>2. QED
    BY <2>1, <1>1, <1>2, <1>5, StageFacts DEF Done
<1>9. /\ batch' \in [Workers -> Seq(Message)] /\ pc' = pc
      /\ \A u \in Stages, v \in Workers : Draining(v, u)' => \A m \in Range(batch'[v]) : OfStage(m, u)'
      /\ \A v \in Workers : pc'[v] = "idle" => batch'[v] = <<>>
      /\ Held' /\ DoneConsumed' /\ ConsumedAccounted'
  <2>1. consumed' = consumed /\ max_attempts' = max_attempts /\ {e} \in SUBSET {Head(batch[w]).event} /\ Head(batch[w]).event \in {e}
    BY <1>2
  <2>2. QED
    BY <2>1, <1>1, <1>2, <1>8, HandleMoves
<1>10. TypeOK'
  BY <1>2, <1>4, <1>5, <1>6, <1>7, <1>9 DEF TypeOK
<1>11. Labelled'
  BY <1>7, <1>9 DEF Labelled
<1>12. Arrived'
  BY <1>1, <1>2, <1>7 DEF EInv, Arrived, Key
<1>13. Local' /\ ExactlyOnce' /\ DeadLetterSound'
  BY <1>2, <1>5, <1>6, <1>7, <1>9 DEF EInv, Local, ExactlyOnce, DeadLetterSound
<1>14. QED
  BY <1>9, <1>10, <1>11, <1>12, <1>13 DEF EInv

LEMMA PipelineStep == EInv /\ [Next]_vars => EInv'
<1> SUFFICES ASSUME EInv, [Next]_vars PROVE EInv'
  OBVIOUS
<1>1. CASE UNCHANGED vars
  <2>1. UNCHANGED <<topics, consumed, lag, normalized, findings, max_attempts, pc, batch, submits, evaluated>>
    BY <1>1 DEF vars
  <2>2. \A t \in Stages : Done(t)' = Done(t)
    BY <2>1 DEF Done, DeadLettered
  <2>3. TypeOK' /\ Arrived' /\ Local' /\ ExactlyOnce' /\ DeadLetterSound'
    BY <2>1 DEF EInv, TypeOK, Arrived, Local, ExactlyOnce, DeadLetterSound, Key
  <2>4. Labelled'
    BY <2>1 DEF EInv, Labelled, Draining, OfStage
  <2>5. Held' /\ DoneConsumed' /\ ConsumedAccounted'
    BY <2>1, <2>2 DEF EInv, Held, DoneConsumed, ConsumedAccounted, Draining, Key
  <2>6. QED
    BY <2>3, <2>4, <2>5 DEF EInv
<1>2. CASE \E e \in Events : IngestRaw(e)
  BY <1>2, IngestRawStep
<1>3. ASSUME NEW w \in Workers, Continue(w) \/ \E t \in {"raw", "normalized"} : StartDrain(w, t)
      PROVE  EInv'
  <2>1. CASE EndDrain(w) \/ \E t \in Stages : StartDrain(w, t)
    BY <2>1, DrainStep
  <2>2. CASE \E t \in Stages : Fetch(w, t)
    BY <2>2, FetchStep
  <2>3. CASE Normalize(w)
    BY <2>3, NormalizeStep
  <2>4. CASE NormalizeFails(w)
    BY <2>4, NormalizeFailsStep
  <2>5. CASE Evaluate(w)
    BY <2>5, EvaluateStep
  <2>6. QED
    BY <1>3, <2>1, <2>2, <2>3, <2>4, <2>5 DEF Continue, Stages
<1>4. QED
  BY <1>1, <1>2, <1>3 DEF Next

-----------------------------------------------------------------------------
(* The theorems                                                             *)

\* The inductive invariant holds: every key that consume remembers belongs to
\* an event that is done with, held by a worker, or poison.
THEOREM PipelineInvariant == Spec => []EInv
<1>1. Init => EInv
  BY InitSound
<1>2. EInv /\ [Next]_vars => EInv'
  BY PipelineStep
<1>3. QED
  BY <1>1, <1>2, PTL DEF Spec

\* However the drains of any number of workers interleave and however often an
\* event is submitted: each event is normalized, evaluated and reported at most
\* once, no good event is lost between two stages, and the dead letters are
\* poison events that used up their attempts (consume, dead_letter, drain_raw,
\* drain_normalized).
THEOREM PipelineSound == Spec => []MessagesSound
<1>1. ASSUME EInv PROVE MessagesSound
  <2>1. ASSUME NEW t \in Stages, NEW e \in Events \ Poison, Holds(topics[t], e) \/ Key(t, e) \in consumed
        PROVE  InFlight(t, e) \/ e \in Done(t)
    BY <1>1, <2>1 DEF EInv, ConsumedAccounted, InFlight, Draining
  <2>2. ASSUME NEW e \in Events \ Poison PROVE e \notin DeadLettered
    <3> SUFFICES ASSUME e \in DeadLettered PROVE FALSE
      OBVIOUS
    <3>1. PICK m \in Range(topics["deadletter"]) : m.event = e
      BY DEF DeadLettered
    <3>2. PICK i \in DOMAIN topics["deadletter"] : m = topics["deadletter"][i]
      BY DEF Range
    <3>3. QED
      BY <1>1, <3>1, <3>2 DEF EInv, DeadLetterSound
  <2>3. ASSUME NEW e \in Events \ Poison, submits[e] > 0
        PROVE  InFlight("raw", e) \/ e \in Range(normalized)
    BY <1>1, <2>1, <2>2, <2>3, StageFacts DEF EInv, Arrived, Done
  <2>4. ASSUME NEW e \in Events \ Poison, e \in Range(normalized)
        PROVE  InFlight("normalized", e) \/ e \in Range(evaluated)
    BY <1>1, <2>1, <2>4, StageFacts DEF EInv, Arrived, Done
  <2>5. NothingLost
    BY <2>3, <2>4 DEF NothingLost
  <2>6. QED
    BY <1>1, <2>5 DEF EInv, MessagesSound
<1>2. QED
  BY <1>1, PipelineInvariant, PTL

-----------------------------------------------------------------------------
(* Sequences                                                                *)

\* One element more.
LEMMA AppendOne ==
  ASSUME NEW T, NEW s \in Seq(T), NEW x \in T
  PROVE  /\ Append(s, x) \in Seq(T) /\ Len(Append(s, x)) = Len(s) + 1
         /\ DOMAIN Append(s, x) = 1..(Len(s) + 1) /\ DOMAIN s = 1..Len(s) /\ Len(s) \in Nat
         /\ \A i \in 1..Len(s) : Append(s, x)[i] = s[i]
         /\ Append(s, x)[Len(s) + 1] = x
         /\ Range(Append(s, x)) = Range(s) \cup {x}
<1>1. /\ DOMAIN Append(s, x) = 1..(Len(s) + 1) /\ DOMAIN s = 1..Len(s)
      /\ \A i \in 1..Len(s) : Append(s, x)[i] = s[i]
      /\ Append(s, x)[Len(s) + 1] = x
      /\ \A i \in 1..(Len(s) + 1) : i \in 1..Len(s) \/ i = Len(s) + 1
  OBVIOUS
<1>2. Range(Append(s, x)) = Range(s) \cup {x}
  BY <1>1 DEF Range
<1>3. QED
  BY <1>1, <1>2

\* The first k elements and the next one.
LEMMA OneMoreElement ==
  ASSUME NEW s, NEW k \in Nat \ {0}
  PROVE  {s[i] : i \in 1..k} = {s[i] : i \in 1..(k - 1)} \cup {s[k]}
<1>1. \A i \in 1..k : i = k \/ i \in 1..(k - 1)
  OBVIOUS
<1>2. k \in 1..k /\ \A i \in 1..(k - 1) : i \in 1..k
  OBVIOUS
<1>3. QED
  BY <1>1, <1>2

\* All elements.
LEMMA WholeRange ==
  ASSUME NEW T, NEW s \in Seq(T)
  PROVE  Range(s) = {s[i] : i \in 1..Len(s)} /\ ToSet(s) = Range(s) /\ Range(s) \subseteq T
BY DEF Range, ToSet

\* The elements of a sequence are finitely many.
LEMMA RangeFinite ==
  ASSUME NEW T, NEW s \in Seq(T)
  PROVE  IsFiniteSet(Range(s))
<1>1. Len(s) \in Nat /\ DOMAIN s = 1..Len(s)
  OBVIOUS
<1>2. IsFiniteSet(1..Len(s))
  BY <1>1, FS_Interval
<1>3. s \in Surjection(1..Len(s), Range(s))
  BY <1>1 DEF Surjection, Range
<1>4. QED
  BY <1>2, <1>3, FS_Surjection

-----------------------------------------------------------------------------
(* Selections                                                               *)

Picking == INSTANCE FoldLaws WITH Op <- Pick

\* A selection is a loop over the sequence.
LEMMA OnlyFold ==
  ASSUME NEW s, NEW S
  PROVE  Only(s, S) = Picking!Fold([from |-> S, kept |-> <<>>], s).kept
BY DEF Only, Picking!Fold, Picking!FoldLeft, FoldLeft, Picking!MapThenFoldSet, MapThenFoldSet,
       Picking!Max, Max

\* The loop keeps the set it selects from.
PickState(T, S) == [from : {S}, kept : Seq(T)]
PickedUpTo(T, s, S, k) ==
  {acc \in PickState(T, S) : Range(acc.kept) = {s[i] : i \in 1..k} \cap S}

\* One element of a selection.
LEMMA PickStep ==
  ASSUME NEW T, NEW S, NEW x \in T, NEW acc \in PickState(T, S)
  PROVE  /\ Pick(acc, x) \in PickState(T, S)
         /\ x \in S => Pick(acc, x).kept = Append(acc.kept, x)
         /\ x \notin S => Pick(acc, x) = acc
<1>1. acc.from = S /\ acc.kept \in Seq(T) /\ Append(acc.kept, x) \in Seq(T)
  BY DEF PickState
<1>2. CASE x \in S
  <2>1. Pick(acc, x) = [acc EXCEPT !.kept = Append(acc.kept, x)]
    BY <1>1, <1>2 DEF Pick
  <2>2. QED
    BY <1>1, <1>2, <2>1 DEF PickState
<1>3. CASE x \notin S
  BY <1>1, <1>3 DEF Pick
<1>4. QED
  BY <1>2, <1>3

\* The whole selection.
LEMMA PickedAll ==
  ASSUME NEW T, NEW s \in Seq(T), NEW S
  PROVE  Picking!Fold([from |-> S, kept |-> <<>>], s) \in PickedUpTo(T, s, S, Len(s))
<1> DEFINE I == [k \in 0..Len(s) |-> PickedUpTo(T, s, S, k)]
           base == [from |-> S, kept |-> <<>>]
<1>1. base \in I[0]
  <2>1. base \in PickState(T, S) /\ base.kept = <<>> /\ 0 \in 0..Len(s)
    BY DEF PickState
  <2>2. Range(<<>>) = {} /\ {s[i] : i \in 1..0} = {}
    BY DEF Range
  <2>3. QED
    BY <2>1, <2>2 DEF PickedUpTo
<1>2. ASSUME NEW k \in 1..Len(s), NEW acc \in I[k - 1] PROVE Pick(acc, s[k]) \in I[k]
  <2>1. /\ acc \in PickState(T, S) /\ k \in 0..Len(s) /\ s[k] \in T /\ k \in Nat \ {0}
        /\ Range(acc.kept) = {s[i] : i \in 1..(k - 1)} \cap S
    <3>1. k - 1 \in 0..Len(s) /\ k \in 0..Len(s) /\ s[k] \in T /\ k \in Nat \ {0}
      OBVIOUS
    <3>2. acc \in PickedUpTo(T, s, S, k - 1)
      BY <3>1
    <3>3. QED
      BY <3>1, <3>2 DEF PickedUpTo
  <2>2. {s[i] : i \in 1..k} = {s[i] : i \in 1..(k - 1)} \cup {s[k]}
    BY <2>1, OneMoreElement
  <2>3. /\ Pick(acc, s[k]) \in PickState(T, S)
        /\ s[k] \in S => Pick(acc, s[k]).kept = Append(acc.kept, s[k])
        /\ s[k] \notin S => Pick(acc, s[k]) = acc
    BY <2>1, PickStep
  <2>4. Range(Append(acc.kept, s[k])) = Range(acc.kept) \cup {s[k]}
    BY <2>1, AppendOne DEF PickState
  <2>5. Range(Pick(acc, s[k]).kept) = {s[i] : i \in 1..k} \cap S
    BY <2>1, <2>2, <2>3, <2>4
  <2>6. QED
    BY <2>1, <2>3, <2>5 DEF PickedUpTo
<1>3. Picking!Fold(base, s) \in I[Len(s)]
  <2> HIDE DEF I, base
  <2>1. QED
    BY <1>1, <1>2, Picking!FoldInvariant
<1>4. QED
  BY <1>3

\* What a selection keeps.
LEMMA OnlyKeeps ==
  ASSUME NEW T, NEW s \in Seq(T), NEW S
  PROVE  Only(s, S) \in Seq(T) /\ Range(Only(s, S)) = Range(s) \cap S
<1> DEFINE acc == Picking!Fold([from |-> S, kept |-> <<>>], s)
<1>1. acc \in PickedUpTo(T, s, S, Len(s))
  BY PickedAll
<1>2. Only(s, S) = acc.kept
  BY OnlyFold
<1>3. Range(s) = {s[i] : i \in 1..Len(s)}
  BY WholeRange
<1> HIDE DEF acc
<1>4. QED
  BY <1>1, <1>2, <1>3 DEF PickedUpTo, PickState

\* Nothing is selected from nothing ...
LEMMA OnlyEmpty ==
  ASSUME NEW S
  PROVE  Only(<<>>, S) = <<>>
<1>1. Picking!Fold([from |-> S, kept |-> <<>>], <<>>) = [from |-> S, kept |-> <<>>]
  BY Picking!FoldEmpty
<1>2. QED
  BY <1>1, OnlyFold

\* ... and one element more is selected or not.
LEMMA OnlyAppend ==
  ASSUME NEW T, NEW s \in Seq(T), NEW x \in T, NEW S
  PROVE  Only(Append(s, x), S) = IF x \in S THEN Append(Only(s, S), x) ELSE Only(s, S)
<1> DEFINE base == [from |-> S, kept |-> <<>>]
           acc == Picking!Fold(base, s)
<1>1. acc \in PickState(T, S)
  BY PickedAll DEF PickedUpTo
<1>2. Picking!Fold(base, Append(s, x)) = Pick(acc, x)
  <2> HIDE DEF base
  <2>1. QED
    BY Picking!FoldAppend
<1>3. Only(s, S) = acc.kept /\ Only(Append(s, x), S) = Pick(acc, x).kept
  BY <1>2, OnlyFold
<1> HIDE DEF acc
<1>4. /\ x \in S => Pick(acc, x).kept = Append(acc.kept, x)
      /\ x \notin S => Pick(acc, x) = acc
  BY <1>1, PickStep
<1>5. QED
  BY <1>3, <1>4

-----------------------------------------------------------------------------
(* The window                                                               *)

Inserting == INSTANCE FoldLaws WITH Op <- Insert

Ordered(w) == \A i, j \in 1..Len(w) : i < j => w[i].time <= w[j].time

EventTimes == \A e \in Event : e.time \in Int
\* Times can be compared.
LEMMA TimesAreNumbers == EventTimes
<1> SUFFICES ASSUME NEW e \in Event PROVE e.time \in Int
  BY DEF EventTimes
<1>1. e.time \in Times
  BY DEF Event
<1>2. e.time \in Nat
  BY <1>1, TimesAssumption
<1>3. QED
  BY <1>2

\* Where Insert puts things: an earlier event stays, a later one moves up.
LEMMA InsertPlaces ==
  ASSUME NEW w \in Seq(Event), NEW e \in Event, e.tenant = "own"
  PROVE  /\ Insert(w, e) \in Seq(Event) /\ Len(Insert(w, e)) = Len(w) + 1
         /\ \A i \in 1..(Len(w) + 1) :
              \/ i \in 1..Len(w) /\ w[i].time <= e.time /\ Insert(w, e)[i] = w[i]
              \/ /\ i \in 1..Len(w) => w[i].time > e.time
                 /\ i - 1 \in 1..Len(w) => w[i - 1].time <= e.time
                 /\ Insert(w, e)[i] = e
              \/ i - 1 \in 1..Len(w) /\ w[i - 1].time > e.time /\ Insert(w, e)[i] = w[i - 1]
<1> DEFINE n == Len(w)
           W == [i \in 1..(n + 1) |->
                   IF i <= n /\ w[i].time <= e.time THEN w[i]
                   ELSE IF i = 1 \/ w[i - 1].time <= e.time THEN e ELSE w[i - 1]]
<1>1. n \in Nat /\ \A i \in 1..n : w[i] \in Event /\ w[i].time \in Int
  BY TimesAreNumbers DEF EventTimes
<1>2. e.time \in Int
  BY TimesAreNumbers DEF EventTimes
<1>3. Insert(w, e) = W
  BY DEF Insert
<1>4. \A i \in 1..(n + 1) : i <= n => i \in 1..n
  BY <1>1
<1>5. \A i \in 1..(n + 1) : i # 1 => i - 1 \in 1..n
  BY <1>1
<1>6. \A i \in 1..(n + 1) : W[i] \in Event
  <2> SUFFICES ASSUME NEW i \in 1..(n + 1) PROVE W[i] \in Event
    OBVIOUS
  <2>1. CASE i <= n /\ w[i].time <= e.time
    BY <1>1, <1>4, <2>1
  <2>2. CASE ~(i <= n /\ w[i].time <= e.time) /\ (i = 1 \/ w[i - 1].time <= e.time)
    BY <2>2
  <2>3. CASE ~(i <= n /\ w[i].time <= e.time) /\ ~(i = 1 \/ w[i - 1].time <= e.time)
    BY <1>1, <1>5, <2>3
  <2>4. QED
    BY <2>1, <2>2, <2>3
<1>7. n + 1 \in Nat /\ W \in [1..(n + 1) -> Event]
  BY <1>1, <1>6
<1>8. W \in Seq(Event) /\ Len(W) = n + 1
  <2> HIDE DEF W
  <2>1. QED
    BY <1>7
<1>9. ASSUME NEW i \in 1..(n + 1)
      PROVE  \/ i \in 1..n /\ w[i].time <= e.time /\ W[i] = w[i]
             \/ /\ i \in 1..n => w[i].time > e.time
                /\ i - 1 \in 1..n => w[i - 1].time <= e.time
                /\ W[i] = e
             \/ i - 1 \in 1..n /\ w[i - 1].time > e.time /\ W[i] = w[i - 1]
  <2>1. CASE i <= n /\ w[i].time <= e.time
    BY <1>4, <2>1
  <2>2. CASE ~(i <= n /\ w[i].time <= e.time) /\ (i = 1 \/ w[i - 1].time <= e.time)
    <3>1. W[i] = e
      BY <2>2
    <3>2. i \in 1..n => w[i].time > e.time
      BY <1>1, <1>2, <2>2
    <3>3. i - 1 \in 1..n => w[i - 1].time <= e.time
      BY <1>1, <2>2
    <3>4. QED
      BY <3>1, <3>2, <3>3
  <2>3. CASE ~(i <= n /\ w[i].time <= e.time) /\ ~(i = 1 \/ w[i - 1].time <= e.time)
    <3>1. W[i] = w[i - 1] /\ i - 1 \in 1..n
      BY <1>5, <2>3
    <3>2. w[i - 1].time > e.time
      BY <1>1, <1>2, <2>3, <3>1
    <3>3. QED
      BY <3>1, <3>2
  <2>4. QED
    BY <2>1, <2>2, <2>3
<1> HIDE DEF W
<1>10. QED
  BY <1>3, <1>8, <1>9

\* An insertion keeps the order of the window.
LEMMA InsertOrdered ==
  ASSUME NEW w \in Seq(Event), NEW e \in Event, e.tenant = "own", Ordered(w)
  PROVE  Ordered(Insert(w, e))
<1> DEFINE n == Len(w)
<1>1. n \in Nat /\ \A i \in 1..n : w[i].time \in Int
  BY TimesAreNumbers DEF EventTimes
<1>2. e.time \in Int
  BY TimesAreNumbers DEF EventTimes
<1> DEFINE W == Insert(w, e)
<1>3. /\ Len(W) = n + 1
      /\ \A i \in 1..(n + 1) :
           \/ i \in 1..n /\ w[i].time <= e.time /\ W[i] = w[i]
           \/ /\ i \in 1..n => w[i].time > e.time
              /\ i - 1 \in 1..n => w[i - 1].time <= e.time
              /\ W[i] = e
           \/ i - 1 \in 1..n /\ w[i - 1].time > e.time /\ W[i] = w[i - 1]
  BY InsertPlaces
<1> HIDE DEF W, n
<1>4. \A i, j \in 1..n : i < j => w[i].time <= w[j].time
  BY DEF Ordered, n
<1>5. ASSUME NEW i \in 1..(n + 1), NEW j \in 1..(n + 1), i < j
      PROVE  W[i].time <= W[j].time
  <2>1. CASE i \in 1..n /\ w[i].time <= e.time /\ W[i] = w[i]
    <3>1. CASE j \in 1..n /\ w[j].time <= e.time /\ W[j] = w[j]
      BY <2>1, <3>1, <1>4, <1>5
    <3>2. CASE W[j] = e
      BY <2>1, <3>2
    <3>3. CASE j - 1 \in 1..n /\ w[j - 1].time > e.time /\ W[j] = w[j - 1]
      BY <2>1, <3>3, <1>1, <1>2
    <3>4. QED
      BY <1>3, <3>1, <3>2, <3>3
  <2>2. CASE /\ i \in 1..n => w[i].time > e.time
             /\ i - 1 \in 1..n => w[i - 1].time <= e.time
             /\ W[i] = e
    <3>0. i \in 1..n /\ w[i].time > e.time
      BY <1>1, <1>5, <2>2
    <3>1. CASE j \in 1..n /\ w[j].time <= e.time /\ W[j] = w[j]
      <4>1. w[i].time <= w[j].time
        BY <3>0, <3>1, <1>4, <1>5
      <4>2. QED
        BY <3>0, <3>1, <4>1, <1>1, <1>2
    <3>2. CASE W[j] = e
      BY <2>2, <3>2, <1>2
    <3>3. CASE j - 1 \in 1..n /\ w[j - 1].time > e.time /\ W[j] = w[j - 1]
      BY <2>2, <3>3, <1>1, <1>2
    <3>4. QED
      BY <1>3, <3>1, <3>2, <3>3
  <2>3. CASE i - 1 \in 1..n /\ w[i - 1].time > e.time /\ W[i] = w[i - 1]
    <3>1. CASE j \in 1..n /\ w[j].time <= e.time /\ W[j] = w[j]
      <4>1. i - 1 < j /\ w[i - 1].time <= w[j].time
        BY <2>3, <3>1, <1>4, <1>5
      <4>2. QED
        BY <2>3, <3>1, <4>1
    <3>2. CASE /\ j \in 1..n => w[j].time > e.time
               /\ j - 1 \in 1..n => w[j - 1].time <= e.time
               /\ W[j] = e
      <4>1. j - 1 \in 1..n /\ i - 1 < j - 1
        BY <1>1, <1>5, <2>3
      <4>2. w[i - 1].time <= w[j - 1].time /\ w[j - 1].time <= e.time
        BY <4>1, <2>3, <3>2, <1>4
      <4>3. QED
        BY <4>1, <4>2, <2>3, <1>1, <1>2
    <3>3. CASE j - 1 \in 1..n /\ w[j - 1].time > e.time /\ W[j] = w[j - 1]
      <4>1. i - 1 < j - 1
        BY <1>5, <2>3, <3>3
      <4>2. QED
        BY <4>1, <2>3, <3>3, <1>4
    <3>4. QED
      BY <1>3, <3>1, <3>2, <3>3
  <2>4. QED
    BY <1>3, <2>1, <2>2, <2>3
<1>6. QED
  BY <1>3, <1>5 DEF Ordered, W

\* A new event keeps the events of a window apart.
LEMMA InsertApart ==
  ASSUME NEW w \in Seq(Event), NEW e \in Event, e.tenant = "own", Ordered(w), IsInjective(w),
         e \notin Range(w)
  PROVE  IsInjective(Insert(w, e))
<1> DEFINE n == Len(w)
           W == Insert(w, e)
<1>1. n \in Nat /\ (\A i \in 1..n : w[i].time \in Int) /\ DOMAIN w = 1..n
  BY TimesAreNumbers DEF EventTimes
<1>2. e.time \in Int
  BY TimesAreNumbers DEF EventTimes
<1>3. /\ DOMAIN W = 1..(n + 1)
      /\ \A i \in 1..(n + 1) :
           \/ i \in 1..n /\ w[i].time <= e.time /\ W[i] = w[i]
           \/ /\ i \in 1..n => w[i].time > e.time
              /\ i - 1 \in 1..n => w[i - 1].time <= e.time
              /\ W[i] = e
           \/ i - 1 \in 1..n /\ w[i - 1].time > e.time /\ W[i] = w[i - 1]
  BY InsertPlaces
<1>4. /\ \A i, j \in 1..n : i < j => w[i].time <= w[j].time
      /\ \A i, j \in 1..n : w[i] = w[j] => i = j
      /\ \A i \in 1..n : w[i] # e
  BY <1>1 DEF Ordered, IsInjective, Range
<1> HIDE DEF W, n
<1>5. ASSUME NEW i \in 1..(n + 1), NEW j \in 1..(n + 1), i < j
      PROVE  W[i] # W[j]
  <2>1. CASE i \in 1..n /\ w[i].time <= e.time /\ W[i] = w[i]
    <3>1. CASE j \in 1..n /\ w[j].time <= e.time /\ W[j] = w[j]
      BY <2>1, <3>1, <1>4, <1>5
    <3>2. CASE W[j] = e
      BY <2>1, <3>2, <1>4
    <3>3. CASE j - 1 \in 1..n /\ w[j - 1].time > e.time /\ W[j] = w[j - 1]
      <4>1. j - 1 # i
        BY <2>1, <3>3, <1>1, <1>2
      <4>2. QED
        BY <2>1, <3>3, <4>1, <1>4
    <3>4. QED
      BY <1>3, <3>1, <3>2, <3>3
  <2>2. CASE /\ i \in 1..n => w[i].time > e.time
             /\ i - 1 \in 1..n => w[i - 1].time <= e.time
             /\ W[i] = e
    <3>0. i \in 1..n /\ w[i].time > e.time
      BY <1>1, <1>5, <2>2
    <3>1. CASE j \in 1..n /\ w[j].time <= e.time /\ W[j] = w[j]
      BY <2>2, <3>1, <1>4
    <3>2. CASE j - 1 \in 1..n => w[j - 1].time <= e.time
      <4>1. j - 1 \in 1..n /\ (i < j - 1 \/ i = j - 1)
        BY <1>1, <1>5, <3>0
      <4>2. w[i].time <= w[j - 1].time
        BY <4>1, <3>0, <1>1, <1>4
      <4>3. QED
        BY <4>1, <4>2, <3>0, <3>2, <1>1, <1>2
    <3>3. CASE j - 1 \in 1..n /\ w[j - 1].time > e.time /\ W[j] = w[j - 1]
      BY <2>2, <3>3, <1>4
    <3>4. QED
      BY <1>3, <3>1, <3>2, <3>3
  <2>3. CASE i - 1 \in 1..n /\ w[i - 1].time > e.time /\ W[i] = w[i - 1]
    <3>1. CASE j \in 1..n /\ w[j].time <= e.time /\ W[j] = w[j]
      <4>1. i - 1 # j
        BY <2>3, <1>5
      <4>2. QED
        BY <2>3, <3>1, <4>1, <1>4
    <3>2. CASE W[j] = e
      BY <2>3, <3>2, <1>4
    <3>3. CASE j - 1 \in 1..n /\ w[j - 1].time > e.time /\ W[j] = w[j - 1]
      <4>1. i - 1 # j - 1
        BY <1>5, <2>3, <3>3
      <4>2. QED
        BY <4>1, <2>3, <3>3, <1>4
    <3>4. QED
      BY <1>3, <3>1, <3>2, <3>3
  <2>4. QED
    BY <1>3, <2>1, <2>2, <2>3
<1>6. \A i, j \in 1..(n + 1) : i < j \/ j < i \/ i = j
  BY <1>1
<1>7. \A i, j \in 1..(n + 1) : W[i] = W[j] => i = j
  BY <1>5, <1>6
<1>8. QED
  BY <1>3, <1>7 DEF IsInjective, W

\* A window: events of the tenant from the table, by time, and each once if the
\* table has each once.
IsWindow(w, S) ==
  /\ w \in Seq(Event) /\ Ordered(w) /\ IsInjective(w)
  /\ Range(w) \subseteq {e \in S : e.tenant = "own"}

\* One event more in a window.
LEMMA InsertWindow ==
  ASSUME NEW w, NEW S, IsWindow(w, S), NEW e \in Event, e \notin S
  PROVE  IsWindow(Insert(w, e), S \cup {e})
<1>1. CASE e.tenant # "own"
  <2>1. Insert(w, e) = w
    BY <1>1 DEF Insert
  <2>2. QED
    BY <2>1 DEF IsWindow
<1>2. CASE e.tenant = "own"
  <2>1. w \in Seq(Event) /\ Ordered(w) /\ IsInjective(w) /\ e \notin Range(w) /\ Range(w) \subseteq S
    BY DEF IsWindow
  <2>2. Ordered(Insert(w, e)) /\ IsInjective(Insert(w, e))
    BY <1>2, <2>1, InsertOrdered, InsertApart
  <2>3. Insert(w, e) \in Seq(Event) /\ DOMAIN Insert(w, e) = 1..(Len(w) + 1)
    BY <1>2, <2>1, InsertPlaces
  <2>4. \A i \in 1..(Len(w) + 1) : Insert(w, e)[i] \in Range(w) \cup {e}
    <3>1. \A i \in 1..Len(w) : w[i] \in Range(w)
      BY <2>1 DEF Range
    <3>2. QED
      BY <1>2, <2>1, <3>1, InsertPlaces
  <2>5. Range(Insert(w, e)) \subseteq Range(w) \cup {e}
    BY <2>3, <2>4 DEF Range
  <2>6. Range(w) \subseteq {f \in S : f.tenant = "own"}
    BY DEF IsWindow
  <2>7. QED
    BY <1>2, <2>2, <2>3, <2>5, <2>6 DEF IsWindow
<1>3. QED
  BY <1>1, <1>2

\* load_window is the window of a table without repetitions.
LEMMA LoadsWindow ==
  ASSUME table \in Seq(Event), IsInjective(table)
  PROVE  IsWindow(load_window, Range(table))
<1> DEFINE I == [k \in 0..Len(table) |-> {w \in Seq(Event) : IsWindow(w, {table[i] : i \in 1..k})}]
<1>1. <<>> \in I[0]
  <2>1. IsWindow(<<>>, {table[i] : i \in 1..0})
    BY DEF IsWindow, Ordered, IsInjective, Range
  <2>2. 0 \in 0..Len(table)
    OBVIOUS
  <2>3. QED
    BY <2>1, <2>2 DEF IsWindow
<1>2. ASSUME NEW k \in 1..Len(table), NEW w \in I[k - 1] PROVE Insert(w, table[k]) \in I[k]
  <2> DEFINE S == {table[i] : i \in 1..(k - 1)}
  <2>1. k - 1 \in 0..Len(table) /\ k \in 0..Len(table) /\ k \in Nat \ {0} /\ table[k] \in Event
    OBVIOUS
  <2>2. IsWindow(w, S)
    BY <2>1
  <2>3. table[k] \notin S
    <3>1. \A i \in 1..(k - 1) : i \in DOMAIN table /\ k \in DOMAIN table /\ i # k
      OBVIOUS
    <3>2. QED
      BY <3>1 DEF IsInjective
  <2>4. {table[i] : i \in 1..k} = S \cup {table[k]}
    BY <2>1, OneMoreElement
  <2> HIDE DEF S
  <2>5. IsWindow(Insert(w, table[k]), S \cup {table[k]})
    BY <2>1, <2>2, <2>3, InsertWindow
  <2>6. Insert(w, table[k]) \in Seq(Event)
    BY <2>5 DEF IsWindow
  <2>7. QED
    BY <2>1, <2>4, <2>5, <2>6
<1>3. Inserting!Fold(<<>>, table) \in I[Len(table)]
  <2> HIDE DEF I
  <2>1. QED
    BY <1>1, <1>2, Inserting!FoldInvariant
<1>4. load_window = Inserting!Fold(<<>>, table)
  BY DEF load_window, Inserting!Fold, Inserting!FoldLeft, FoldLeft, Inserting!MapThenFoldSet, MapThenFoldSet,
         Inserting!Max, Max
<1>5. Range(table) = {table[i] : i \in 1..Len(table)} /\ Len(table) \in 0..Len(table)
  BY WholeRange
<1>6. QED
  BY <1>3, <1>4, <1>5

-----------------------------------------------------------------------------
(* The rows of the connectors                                               *)

IngestingRows == INSTANCE FoldLaws WITH Op <- IngestRow

RowCopies(tb, p) == Cardinality({e \in Range(tb) : e.row = p})
FedInto(tb) == {e \in Range(tb) : e.row # NoRow}

\* Where the id of an event is from, when the program has made n of them.
IdMade(e, n) ==
  \/ e.row = NoRow /\ e.id \in 1..n
  \/ /\ e.row \in Payloads /\ e.tenant = "own"
     /\ KeepsId(e.row) => e.id = Rows[e.row].key
     /\ ~KeepsId(e.row) => e.id \in FreshBase..(FreshBase + n - 1)

IdsDiffer(tb) == \A i, j \in DOMAIN tb : tb[i].id = tb[j].id => i = j

TableOK(tb, n) == tb \in Seq(Event) /\ IdsDiffer(tb) /\ \A e \in Range(tb) : IdMade(e, n)

\* The rows that are not from the connectors are another tenant's.
OthersForeign(tb) == \A e \in Range(tb) : e.row = NoRow => e.tenant = "other"

\* Rows stored and dead-lettered, against how often each was sent.
Balanced(tb, letters, times) ==
  \A p \in Payloads :
    /\ (times[p] > 0) <=> (RowCopies(tb, p) + letters[p] > 0)
    /\ RowCopies(tb, p) + letters[p] <= times[p]

OnceIn(cl) == \A i, j \in DOMAIN cl : cl[i] = cl[j] /\ cl[i].row # NoRow => i = j

StoresAgree(tb, cl, undone, away) ==
  /\ ~undone => FedInto(cl) \subseteq FedInto(tb) /\ OnceIn(cl)
  /\ ~away => FedInto(tb) \subseteq FedInto(cl)

\* What a client's row is made of.
LEMMA RowTypes ==
  ASSUME NEW p \in Payloads
  PROVE  /\ p \in Names /\ p # NoRow
         /\ Rows[p].key \in Nat /\ Rows[p].key < FreshBase
         /\ Rows[p].time \in Times /\ Rows[p].raw \in Bodies
         /\ FreshBase \in Nat /\ FreshBase > 0
BY ConnectorAssumption DEF Payloads

\* Every adapter makes a body.
LEMMA NormalizedIsBody ==
  ASSUME NEW p \in Payloads
  PROVE  Normalized(p) \in Bodies
<1> DEFINE raw == Rows[p].raw
<1>1. raw \in Bodies
  BY RowTypes
<1> HIDE DEF raw
<1>2. NoBody \in Bodies
  <2>1. "" \in Sources /\ <<>> \in Seq(Names) /\ 0 \in Nat /\ FALSE \in BOOLEAN
    BY DEF Sources
  <2>2. "" \in Names
    BY NamesAssumption
  <2>3. QED
    BY <2>1, <2>2 DEF NoBody, Bodies
<1>3. /\ raw.host \in Names /\ raw.src \in Names /\ raw.dst \in Names /\ raw.pid \in Nat /\ raw.ppid \in Nat
      /\ raw.name \in Seq(Names) /\ raw.pname \in Seq(Names) /\ raw.rule \in BOOLEAN /\ raw.high \in BOOLEAN
      /\ raw.source \in Sources
  BY <1>1 DEF Bodies
<1>4. Basename(raw.name) \in Seq(Names)
  <2>1. CASE raw.name = <<>>
    BY <2>1 DEF Basename
  <2>2. CASE raw.name # <<>>
    <3>1. Len(raw.name) \in DOMAIN raw.name
      BY <1>3, <2>2
    <3>2. Last(raw.name) \in Names
      BY <1>3, <3>1 DEF Last
    <3>3. QED
      BY <2>2, <3>2 DEF Basename
  <2>3. QED
    BY <2>1, <2>2
<1>5. normalize_wazuh(raw) \in Bodies
  BY <1>2, <1>3 DEF normalize_wazuh, Bodies, Sources, Endpoint
<1>6. normalize_sysmon(raw) \in Bodies
  BY <1>2, <1>3, <1>4 DEF normalize_sysmon, Bodies, Sources, Endpoint
<1>7. normalize_network(raw) \in Bodies
  <2>1. (raw.high /\ raw.source = "suricata") \in BOOLEAN
    OBVIOUS
  <2>2. QED
    BY <1>2, <1>3, <2>1 DEF normalize_network, Bodies
<1>8. normalize_audit(raw) \in Bodies
  <2>0. "azure-ad" \in Names
    BY NamesAssumption
  <2>1. (IF raw.host = "" THEN "azure-ad" ELSE raw.host) \in Names
    BY <1>3, <2>0
  <2>2. "azure-ad" \in Sources
    BY DEF Sources
  <2> DEFINE host == IF raw.host = "" THEN "azure-ad" ELSE raw.host
  <2>3. normalize_audit(raw) =
          [NoBody EXCEPT !.source = "azure-ad", !.host = host, !.src = raw.src, !.high = raw.high]
    BY DEF normalize_audit
  <2> HIDE DEF host
  <2>4. host \in Names
    BY <2>1 DEF host
  <2>5. QED
    BY <1>2, <1>3, <2>2, <2>3, <2>4 DEF Bodies
<1>9. QED
  BY <1>5, <1>6, <1>7, <1>8 DEF Normalized, raw

\* The event made of a row.
LEMMA EventOfRow ==
  ASSUME NEW acc, acc.minted \in Nat, NEW p \in Payloads
  PROVE  /\ EventOf(acc, p) \in Event /\ EventOf(acc, p).row = p /\ EventOf(acc, p).tenant = "own"
         /\ KeepsId(p) => EventOf(acc, p).id = Rows[p].key
         /\ ~KeepsId(p) => EventOf(acc, p).id = FreshBase + acc.minted
<1>1. Normalized(p) \in Bodies
  BY NormalizedIsBody
<1>2. /\ p \in Names /\ Rows[p].key \in Nat /\ Rows[p].time \in Times /\ FreshBase \in Nat
  BY RowTypes
<1>3. (IF KeepsId(p) THEN Rows[p].key ELSE FreshBase + acc.minted) \in Nat
  BY <1>2
<1>4. QED
  BY <1>1, <1>2, <1>3 DEF EventOf, Event, Tenants

-----------------------------------------------------------------------------
(* Counting                                                                 *)

\* What is counted is finite.
LEMMA CountsAreNumbers ==
  ASSUME NEW tb \in Seq(Event)
  PROVE  Cardinality(FedInto(tb)) \in Nat /\ \A p : RowCopies(tb, p) \in Nat
<1>1. IsFiniteSet(Range(tb))
  BY RangeFinite
<1>2. IsFiniteSet(FedInto(tb)) /\ \A p : IsFiniteSet({e \in Range(tb) : e.row = p})
  <2>1. FedInto(tb) \in SUBSET Range(tb) /\ \A p : {e \in Range(tb) : e.row = p} \in SUBSET Range(tb)
    BY DEF FedInto
  <2>2. QED
    BY <1>1, <2>1, FS_Subset
<1>3. QED
  BY <1>2, FS_CardinalityType DEF RowCopies

\* One event more.
LEMMA CountOneMore ==
  ASSUME NEW tb \in Seq(Event), NEW e \in Event, e \notin Range(tb), e.row # NoRow
  PROVE  /\ \A p : RowCopies(Append(tb, e), p) = IF p = e.row THEN RowCopies(tb, p) + 1 ELSE RowCopies(tb, p)
         /\ FedInto(Append(tb, e)) = FedInto(tb) \cup {e}
         /\ Cardinality(FedInto(Append(tb, e))) = Cardinality(FedInto(tb)) + 1
<1>1. Range(Append(tb, e)) = Range(tb) \cup {e} /\ IsFiniteSet(Range(tb))
  BY AppendOne, RangeFinite
<1>2. FedInto(Append(tb, e)) = FedInto(tb) \cup {e}
  BY <1>1 DEF FedInto
<1>3. Cardinality(FedInto(tb) \cup {e}) = Cardinality(FedInto(tb)) + 1
  <2>1. FedInto(tb) \in SUBSET Range(tb) /\ e \notin FedInto(tb)
    BY DEF FedInto
  <2>2. IsFiniteSet(FedInto(tb))
    BY <1>1, <2>1, FS_Subset
  <2>3. QED
    BY <2>1, <2>2, FS_AddElement
<1>4. ASSUME NEW p
      PROVE  RowCopies(Append(tb, e), p) = IF p = e.row THEN RowCopies(tb, p) + 1 ELSE RowCopies(tb, p)
  <2> DEFINE old == {f \in Range(tb) : f.row = p}
             new == {f \in Range(Append(tb, e)) : f.row = p}
  <2>1. CASE p = e.row
    <3>1. new = old \cup {e} /\ e \notin old /\ old \in SUBSET Range(tb)
      BY <1>1, <2>1
    <3> HIDE DEF old, new
    <3>2. IsFiniteSet(old)
      BY <1>1, <3>1, FS_Subset
    <3>3. Cardinality(new) = Cardinality(old) + 1
      BY <3>1, <3>2, FS_AddElement
    <3>4. QED
      BY <2>1, <3>3 DEF RowCopies, old, new
  <2>2. CASE p # e.row
    <3>1. new = old
      BY <1>1, <2>2
    <3>2. QED
      BY <2>2, <3>1 DEF RowCopies
  <2>3. QED
    BY <2>1, <2>2
<1>5. QED
  BY <1>2, <1>3, <1>4

\* How often each row was sent, when k rows of a batch have been handled.
SentWith(times, bt, k) == [p \in Payloads |-> times[p] + Cardinality({i \in 1..k : bt[i] = p})]

\* One row of the batch more.
LEMMA SentOneMore ==
  ASSUME NEW times \in [Payloads -> Nat], NEW bt, NEW k \in Nat \ {0}
  PROVE  /\ SentWith(times, bt, k) \in [Payloads -> Nat]
         /\ SentWith(times, bt, k - 1) \in [Payloads -> Nat]
         /\ \A p \in Payloads :
              SentWith(times, bt, k)[p] = IF p = bt[k] THEN SentWith(times, bt, k - 1)[p] + 1
                                          ELSE SentWith(times, bt, k - 1)[p]
<1>1. ASSUME NEW p
      PROVE  /\ Cardinality({i \in 1..k : bt[i] = p}) \in Nat
             /\ Cardinality({i \in 1..(k - 1) : bt[i] = p}) \in Nat
             /\ Cardinality({i \in 1..k : bt[i] = p}) =
                  IF p = bt[k] THEN Cardinality({i \in 1..(k - 1) : bt[i] = p}) + 1
                  ELSE Cardinality({i \in 1..(k - 1) : bt[i] = p})
  <2> DEFINE old == {i \in 1..(k - 1) : bt[i] = p}
             new == {i \in 1..k : bt[i] = p}
  <2>1. \A i \in 1..k : i = k \/ i \in 1..(k - 1)
    OBVIOUS
  <2>2. k \in 1..k /\ k \notin 1..(k - 1) /\ \A i \in 1..(k - 1) : i \in 1..k
    OBVIOUS
  <2>3. IsFiniteSet(1..k) /\ IsFiniteSet(1..(k - 1))
    BY FS_Interval
  <2>4. old \in SUBSET (1..(k - 1)) /\ new \in SUBSET (1..k)
    OBVIOUS
  <2>5. IsFiniteSet(old) /\ IsFiniteSet(new)
    BY <2>3, <2>4, FS_Subset
  <2>6. Cardinality(old) \in Nat /\ Cardinality(new) \in Nat
    BY <2>5, FS_CardinalityType
  <2>7. CASE p = bt[k]
    <3>1. new = old \cup {k} /\ k \notin old
      BY <2>1, <2>2, <2>7
    <3> HIDE DEF old, new
    <3>2. Cardinality(new) = Cardinality(old) + 1
      BY <2>5, <3>1, FS_AddElement
    <3>3. QED
      BY <2>6, <2>7, <3>2 DEF old, new
  <2>8. CASE p # bt[k]
    <3>1. new = old
      BY <2>1, <2>2, <2>8
    <3>2. QED
      BY <2>6, <2>8, <3>1
  <2>9. QED
    BY <2>7, <2>8
<1>2. ASSUME NEW p \in Payloads
      PROVE  /\ SentWith(times, bt, k)[p] \in Nat /\ SentWith(times, bt, k - 1)[p] \in Nat
             /\ SentWith(times, bt, k)[p] = IF p = bt[k] THEN SentWith(times, bt, k - 1)[p] + 1
                                            ELSE SentWith(times, bt, k - 1)[p]
  <2> DEFINE a == Cardinality({i \in 1..k : bt[i] = p})
             b == Cardinality({i \in 1..(k - 1) : bt[i] = p})
  <2>1. a \in Nat /\ b \in Nat /\ a = IF p = bt[k] THEN b + 1 ELSE b
    BY <1>1
  <2>2. SentWith(times, bt, k)[p] = times[p] + a /\ SentWith(times, bt, k - 1)[p] = times[p] + b
    BY DEF SentWith
  <2> HIDE DEF a, b
  <2>3. times[p] \in Nat
    OBVIOUS
  <2>4. QED
    BY <2>1, <2>2, <2>3
<1>3. SentWith(times, bt, k) \in [Payloads -> Nat] /\ SentWith(times, bt, k - 1) \in [Payloads -> Nat]
  <2>1. \A m : SentWith(times, bt, m) = [p \in Payloads |-> SentWith(times, bt, m)[p]]
    BY DEF SentWith
  <2>2. QED
    BY <1>2, <2>1
<1>4. QED
  BY <1>2, <1>3

\* The row p was sent once more.
SentAgain(times, times2, p) ==
  \A q \in Payloads : times[q] \in Nat /\ times2[q] = IF q = p THEN times[q] + 1 ELSE times[q]

\* The same as a relation.
LEMMA SentNext ==
  ASSUME NEW times \in [Payloads -> Nat], NEW bt, NEW k \in Nat \ {0}
  PROVE  SentAgain(SentWith(times, bt, k - 1), SentWith(times, bt, k), bt[k])
BY SentOneMore DEF SentAgain

\* One more row of p is handled: it was stored, dead-lettered, or is there.
LEMMA BalancedStep ==
  ASSUME NEW tb, NEW tb2, NEW letters, NEW letters2, NEW times, NEW times2, NEW p \in Payloads,
         Balanced(tb, letters, times), SentAgain(times, times2, p),
         \A q \in Payloads : RowCopies(tb, q) + letters[q] \in Nat,
         \A q \in Payloads \ {p} : RowCopies(tb2, q) + letters2[q] = RowCopies(tb, q) + letters[q],
         \/ RowCopies(tb2, p) + letters2[p] = RowCopies(tb, p) + letters[p] + 1
         \/ RowCopies(tb2, p) + letters2[p] = RowCopies(tb, p) + letters[p] /\ RowCopies(tb, p) + letters[p] > 0
  PROVE  Balanced(tb2, letters2, times2)
<1> SUFFICES ASSUME NEW q \in Payloads
             PROVE  /\ (times2[q] > 0) <=> (RowCopies(tb2, q) + letters2[q] > 0)
                    /\ RowCopies(tb2, q) + letters2[q] <= times2[q]
  BY DEF Balanced
<1> DEFINE a == RowCopies(tb, q) + letters[q]
           b == RowCopies(tb2, q) + letters2[q]
<1>1. ((times[q] > 0) <=> (a > 0)) /\ a <= times[q] /\ a \in Nat /\ times[q] \in Nat
  BY DEF Balanced, SentAgain
<1>2. CASE q = p
  <2>1. times2[q] = times[q] + 1 /\ (b = a + 1 \/ (b = a /\ a > 0))
    BY <1>2 DEF SentAgain
  <2> HIDE DEF a, b
  <2>2. ((times2[q] > 0) <=> (b > 0)) /\ b <= times2[q]
    BY <1>1, <2>1
  <2>3. QED
    BY <2>2 DEF b
<1>3. CASE q # p
  <2>1. times2[q] = times[q] /\ b = a
    BY <1>3 DEF SentAgain
  <2> HIDE DEF a, b
  <2>2. ((times2[q] > 0) <=> (b > 0)) /\ b <= times2[q]
    BY <1>1, <2>1
  <2>3. QED
    BY <2>2 DEF b
<1>4. QED
  BY <1>2, <1>3

-----------------------------------------------------------------------------
(* The loop of ingest_payloads                                              *)

LoopState(pr) ==
  [table : Seq(Event), columns : Seq(Event), minted : Nat, dead : [Payloads -> Nat], accepted : Nat,
   raised : BOOLEAN, projected : {pr}]

\* After k rows of a batch.
LoopInv(acc, bt, k, pr) ==
  /\ acc \in LoopState(pr)
  /\ TableOK(acc.table, acc.minted) /\ OthersForeign(acc.table)
  /\ StoresAgree(acc.table, acc.columns, rolledBack, skipped \/ ~pr)
  /\ Range(columns) \subseteq Range(acc.columns)
  /\ minted <= acc.minted
  /\ \A p \in Payloads : acc.dead[p] > 0 => dead[p] > 0 \/ p \in Range(bt)
  /\ ~acc.raised => /\ Balanced(acc.table, acc.dead, SentWith(sent, bt, k))
                    /\ Cardinality(FedInto(acc.table)) = accepted + acc.accepted

FeedTypes ==
  /\ columns \in Seq(Event) /\ minted \in Nat
  /\ dead \in [Payloads -> Nat] /\ sent \in [Payloads -> Nat]
  /\ accepted \in Nat /\ requests \in Nat
  /\ rolledBack \in BOOLEAN /\ skipped \in BOOLEAN

\* A row that is dead-lettered.
LEMMA RowDies ==
  ASSUME FeedTypes, NEW bt \in Seq(Payloads), NEW k \in 1..Len(bt), NEW pr \in BOOLEAN,
         NEW acc, LoopInv(acc, bt, k - 1, pr), ~acc.raised
  PROVE  LoopInv(DeadLetterRow(acc, bt[k]), bt, k, pr)
<1> DEFINE p == bt[k]
           d == [acc.dead EXCEPT ![p] = acc.dead[p] + 1]
           new == DeadLetterRow(acc, p)
<1>1. p \in Payloads /\ p \in Range(bt) /\ k \in Nat \ {0}
  BY DEF Range
<1>2. acc \in LoopState(pr) /\ acc.dead \in [Payloads -> Nat] /\ acc.dead[p] \in Nat /\ acc.table \in Seq(Event)
  BY <1>1 DEF LoopInv, LoopState
<1>3. d \in [Payloads -> Nat] /\ \A q \in Payloads : d[q] = IF q = p THEN acc.dead[q] + 1 ELSE acc.dead[q]
  BY <1>1, <1>2
<1>4. new = [acc EXCEPT !.dead = d]
  BY DEF DeadLetterRow
<1> HIDE DEF d, new, p
<1>5. /\ new \in LoopState(pr) /\ new.table = acc.table /\ new.columns = acc.columns /\ new.minted = acc.minted
      /\ new.accepted = acc.accepted /\ new.raised = acc.raised /\ new.dead = d
  BY <1>2, <1>3, <1>4 DEF LoopState
<1>6. Balanced(acc.table, d, SentWith(sent, bt, k))
  <2>1. SentAgain(SentWith(sent, bt, k - 1), SentWith(sent, bt, k), p)
    <3>1. sent \in [Payloads -> Nat]
      BY DEF FeedTypes
    <3>2. SentAgain(SentWith(sent, bt, k - 1), SentWith(sent, bt, k), bt[k])
      BY <1>1, <3>1, SentNext
    <3>3. QED
      BY <3>2 DEF p
  <2>2. Balanced(acc.table, acc.dead, SentWith(sent, bt, k - 1))
    BY DEF LoopInv
  <2>3. \A q \in Payloads : RowCopies(acc.table, q) \in Nat /\ acc.dead[q] \in Nat
    BY <1>2, CountsAreNumbers
  <2>4. \A q \in Payloads : RowCopies(acc.table, q) + acc.dead[q] \in Nat
    BY <2>3
  <2>5. \A q \in Payloads \ {p} : RowCopies(acc.table, q) + d[q] = RowCopies(acc.table, q) + acc.dead[q]
    BY <1>3
  <2>6. RowCopies(acc.table, p) + d[p] = RowCopies(acc.table, p) + acc.dead[p] + 1
    BY <1>1, <1>3, <2>3
  <2>7. QED
    BY <1>1, <2>1, <2>2, <2>4, <2>5, <2>6, BalancedStep
<1>7. \A q \in Payloads : d[q] > 0 => dead[q] > 0 \/ q \in Range(bt)
  <2>1. \A q \in Payloads : q # p => d[q] = acc.dead[q]
    BY <1>3
  <2>2. \A q \in Payloads : acc.dead[q] > 0 => dead[q] > 0 \/ q \in Range(bt)
    BY DEF LoopInv
  <2>3. QED
    BY <1>1, <2>1, <2>2
<1>8. LoopInv(new, bt, k, pr)
  BY <1>5, <1>6, <1>7 DEF LoopInv
<1>9. QED
  BY <1>8 DEF new, p

\* A row whose event is there already.
LEMMA RowRepeated ==
  ASSUME FeedTypes, NEW bt \in Seq(Payloads), NEW k \in 1..Len(bt), NEW pr \in BOOLEAN,
         NEW acc, LoopInv(acc, bt, k - 1, pr), ~acc.raised,
         NEW f \in Range(acc.table), f.row = bt[k]
  PROVE  LoopInv(acc, bt, k, pr)
<1> DEFINE p == bt[k]
<1>1. p \in Payloads /\ k \in Nat \ {0}
  OBVIOUS
<1>2. acc.dead \in [Payloads -> Nat] /\ acc.table \in Seq(Event)
  BY <1>1 DEF LoopInv, LoopState
<1> HIDE DEF p
<1>3. RowCopies(acc.table, p) > 0
  <2> DEFINE S == {e \in Range(acc.table) : e.row = p}
  <2>1. S # {} /\ S \in SUBSET Range(acc.table)
    BY DEF p
  <2> HIDE DEF S
  <2>2. IsFiniteSet(S)
    BY <1>2, <2>1, RangeFinite, FS_Subset
  <2>3. Cardinality(S) # 0 /\ Cardinality(S) \in Nat
    BY <2>1, <2>2, FS_EmptySet, FS_CardinalityType
  <2>4. QED
    BY <2>3 DEF S, RowCopies
<1>4. Balanced(acc.table, acc.dead, SentWith(sent, bt, k))
  <2>1. SentAgain(SentWith(sent, bt, k - 1), SentWith(sent, bt, k), p)
    <3>1. sent \in [Payloads -> Nat]
      BY DEF FeedTypes
    <3>2. SentAgain(SentWith(sent, bt, k - 1), SentWith(sent, bt, k), bt[k])
      BY <1>1, <3>1, SentNext
    <3>3. QED
      BY <3>2 DEF p
  <2>2. Balanced(acc.table, acc.dead, SentWith(sent, bt, k - 1))
    BY DEF LoopInv
  <2>3. \A q \in Payloads : RowCopies(acc.table, q) \in Nat /\ acc.dead[q] \in Nat
    BY <1>2, CountsAreNumbers
  <2>4. \A q \in Payloads : RowCopies(acc.table, q) + acc.dead[q] \in Nat
    BY <2>3
  <2>5. RowCopies(acc.table, p) + acc.dead[p] > 0
    BY <1>1, <1>3, <2>3
  <2>6. QED
    BY <1>1, <2>1, <2>2, <2>4, <2>5, BalancedStep
<1>5. QED
  BY <1>4 DEF LoopInv

\* A new id, and the client's, are those of no other row.
LEMMA IdsIdentify ==
  ASSUME NEW n \in Nat, NEW e, NEW f, IdMade(f, n), IdMade(e, n + 1), e.row # NoRow, e.id = f.id,
         ~KeepsId(e.row) => e.id = FreshBase + n, f.row = NoRow => f.tenant = "other", f.tenant = "own"
  PROVE  f.row = e.row
<1>1. f.row \in Payloads /\ e.row \in Payloads
  BY DEF IdMade
<1>2. FreshBase \in Nat /\ FreshBase > 0 /\ Rows[e.row].key \in Nat /\ Rows[e.row].key < FreshBase
      /\ Rows[f.row].key \in Nat /\ Rows[f.row].key < FreshBase
  BY <1>1, RowTypes
<1>3. f.row # NoRow
  OBVIOUS
<1>4. KeepsId(f.row) => f.id = Rows[f.row].key
  BY <1>3 DEF IdMade
<1>5. ~KeepsId(f.row) => f.id \in FreshBase..(FreshBase + n - 1)
  BY <1>3 DEF IdMade
<1>6. KeepsId(e.row) => e.id = Rows[e.row].key
  BY DEF IdMade
<1>7. CASE KeepsId(e.row)
  <2>1. KeepsId(f.row)
    BY <1>2, <1>5, <1>6, <1>7
  <2>2. Rows[e.row].key = Rows[f.row].key
    BY <2>1, <1>4, <1>6, <1>7
  <2>3. QED
    BY <1>1, <1>7, <2>1, <2>2, IdsAssumption
<1>8. CASE ~KeepsId(e.row)
  <2>1. e.id = FreshBase + n
    BY <1>8
  <2>2. QED
    BY <1>2, <1>4, <1>5, <2>1
<1>9. QED
  BY <1>7, <1>8

\* An id that was made stays one.
LEMMA MadeLater ==
  ASSUME NEW n \in Nat, NEW m \in Nat, n <= m, NEW e, IdMade(e, n)
  PROVE  IdMade(e, m)
<1>1. CASE e.row = NoRow /\ e.id \in 1..n
  BY <1>1 DEF IdMade
<1>2. CASE /\ e.row \in Payloads /\ e.tenant = "own"
           /\ KeepsId(e.row) => e.id = Rows[e.row].key
           /\ ~KeepsId(e.row) => e.id \in FreshBase..(FreshBase + n - 1)
  <2>1. FreshBase \in Nat
    BY <1>2, RowTypes
  <2>2. \A i \in FreshBase..(FreshBase + n - 1) : i \in FreshBase..(FreshBase + m - 1)
    BY <2>1
  <2>3. QED
    BY <1>2, <2>2 DEF IdMade
<1>3. QED
  BY <1>1, <1>2 DEF IdMade

\* A new event in the table.
LEMMA TableOneMore ==
  ASSUME NEW n \in Nat, NEW m \in Nat, n <= m, NEW tb, TableOK(tb, n), NEW e \in Event, IdMade(e, m),
         \A f \in Range(tb) : f.id # e.id
  PROVE  TableOK(Append(tb, e), m) /\ e \notin Range(tb)
<1>1. tb \in Seq(Event) /\ IdsDiffer(tb) /\ \A f \in Range(tb) : IdMade(f, n)
  BY DEF TableOK
<1>2. /\ Append(tb, e) \in Seq(Event) /\ DOMAIN Append(tb, e) = 1..(Len(tb) + 1)
      /\ DOMAIN tb = 1..Len(tb) /\ Len(tb) \in Nat
      /\ \A i \in 1..Len(tb) : Append(tb, e)[i] = tb[i]
      /\ Append(tb, e)[Len(tb) + 1] = e
      /\ Range(Append(tb, e)) = Range(tb) \cup {e}
  BY <1>1, AppendOne
<1> DEFINE s == Append(tb, e)
           l == Len(tb)
<1> HIDE DEF s
<1>3. /\ s \in Seq(Event) /\ DOMAIN s = 1..(l + 1) /\ l \in Nat /\ DOMAIN tb = 1..l
      /\ (\A i \in 1..l : s[i] = tb[i]) /\ s[l + 1] = e /\ Range(s) = Range(tb) \cup {e}
  BY <1>2 DEF s
<1> HIDE DEF l
<1>4. \A i \in 1..l : tb[i].id # e.id
  BY <1>3 DEF Range
<1>5. IdsDiffer(s)
  <2> SUFFICES ASSUME NEW i \in 1..(l + 1), NEW j \in 1..(l + 1), s[i].id = s[j].id
               PROVE  i = j
    BY <1>3 DEF IdsDiffer
  <2>1. (i \in 1..l \/ i = l + 1) /\ (j \in 1..l \/ j = l + 1)
    BY <1>3
  <2>2. CASE i \in 1..l /\ j \in 1..l
    BY <1>1, <1>3, <2>2 DEF IdsDiffer
  <2>3. CASE i \in 1..l /\ j = l + 1
    BY <1>3, <1>4, <2>3
  <2>4. CASE i = l + 1 /\ j \in 1..l
    BY <1>3, <1>4, <2>4
  <2>5. QED
    BY <2>1, <2>2, <2>3, <2>4
<1>6. \A f \in Range(tb) : IdMade(f, m)
  BY <1>1, MadeLater
<1>7. \A f \in Range(s) : IdMade(f, m)
  BY <1>3, <1>6
<1>8. e \notin Range(tb)
  OBVIOUS
<1>9. QED
  BY <1>3, <1>5, <1>7, <1>8 DEF TableOK, s

\* The new event in both stores, or in the table while ClickHouse is away.
LEMMA StoresOneMore ==
  ASSUME NEW tb \in Seq(Event), NEW cl \in Seq(Event), NEW undone \in BOOLEAN, NEW away \in BOOLEAN,
         NEW e \in Event, e \notin Range(tb), e.row # NoRow, StoresAgree(tb, cl, undone, away)
  PROVE  /\ StoresAgree(Append(tb, e), Append(cl, e), undone, away)
         /\ away => StoresAgree(Append(tb, e), cl, undone, away)
<1>1. FedInto(Append(tb, e)) = FedInto(tb) \cup {e} /\ FedInto(Append(cl, e)) = FedInto(cl) \cup {e}
  <2>1. Range(Append(tb, e)) = Range(tb) \cup {e} /\ Range(Append(cl, e)) = Range(cl) \cup {e}
    BY AppendOne
  <2>2. QED
    BY <2>1 DEF FedInto
<1>2. ASSUME ~undone PROVE OnceIn(Append(cl, e))
  <2> DEFINE s == Append(cl, e)
             l == Len(cl)
  <2>1. /\ DOMAIN s = 1..(l + 1) /\ l \in Nat /\ DOMAIN cl = 1..l
        /\ (\A i \in 1..l : s[i] = cl[i]) /\ s[l + 1] = e
    BY AppendOne
  <2> HIDE DEF s, l
  <2>2. FedInto(cl) \subseteq FedInto(tb) /\ OnceIn(cl)
    BY <1>2 DEF StoresAgree
  <2>3. \A i \in 1..l : cl[i] # e
    <3>1. e \notin FedInto(cl)
      BY <2>2 DEF FedInto
    <3>2. e \notin Range(cl)
      BY <3>1 DEF FedInto
    <3>3. QED
      BY <2>1, <3>2 DEF Range
  <2>4. ASSUME NEW i \in 1..(l + 1), NEW j \in 1..(l + 1), s[i] = s[j], s[i].row # NoRow
        PROVE  i = j
    <3>1. (i \in 1..l \/ i = l + 1) /\ (j \in 1..l \/ j = l + 1)
      BY <2>1
    <3>2. CASE i \in 1..l /\ j \in 1..l
      BY <2>1, <2>2, <2>4, <3>2 DEF OnceIn
    <3>3. CASE i \in 1..l /\ j = l + 1
      BY <2>1, <2>3, <2>4, <3>3
    <3>4. CASE i = l + 1 /\ j \in 1..l
      BY <2>1, <2>3, <2>4, <3>4
    <3>5. QED
      BY <3>1, <3>2, <3>3, <3>4
  <2>5. QED
    BY <2>1, <2>4 DEF OnceIn, s
<1>3. QED
  BY <1>1, <1>2 DEF StoresAgree

\* A row that is stored.
StoredRow(acc, p) ==
  [acc EXCEPT !.table = Append(@, EventOf(acc, p)), !.accepted = @ + 1,
              !.columns = IF acc.projected THEN Append(@, EventOf(acc, p)) ELSE @,
              !.minted = IF KeepsId(p) THEN @ ELSE @ + 1]

LEMMA RowStored ==
  ASSUME FeedTypes, NEW bt \in Seq(Payloads), NEW k \in 1..Len(bt), NEW pr \in BOOLEAN,
         NEW acc, LoopInv(acc, bt, k - 1, pr), ~acc.raised,
         \A f \in Range(acc.table) : f.id # EventOf(acc, bt[k]).id
  PROVE  LoopInv(StoredRow(acc, bt[k]), bt, k, pr)
<1> DEFINE p == bt[k]
           e == EventOf(acc, p)
           m == IF KeepsId(p) THEN acc.minted ELSE acc.minted + 1
           tb == Append(acc.table, e)
           cl == IF pr THEN Append(acc.columns, e) ELSE acc.columns
           new == StoredRow(acc, p)
<1>1. p \in Payloads /\ k \in Nat \ {0}
  OBVIOUS
<1>2. /\ acc \in LoopState(pr) /\ acc.dead \in [Payloads -> Nat] /\ acc.table \in Seq(Event)
      /\ acc.columns \in Seq(Event) /\ acc.minted \in Nat /\ acc.accepted \in Nat /\ acc.projected = pr
  BY <1>1 DEF LoopInv, LoopState
<1>3. /\ e \in Event /\ e.row = p /\ e.tenant = "own"
      /\ KeepsId(p) => e.id = Rows[p].key
      /\ ~KeepsId(p) => e.id = FreshBase + acc.minted
  BY <1>1, <1>2, EventOfRow
<1>4. new = [acc EXCEPT !.table = tb, !.accepted = acc.accepted + 1, !.columns = cl, !.minted = m]
  BY <1>2 DEF StoredRow
<1>5. \A f \in Range(acc.table) : f.id # e.id
  OBVIOUS
<1>6. m \in Nat /\ acc.minted <= m
  BY <1>2
<1>7. tb \in Seq(Event) /\ cl \in Seq(Event) /\ Range(acc.columns) \subseteq Range(cl)
  BY <1>2, <1>3, AppendOne
<1>8. e.row # NoRow /\ FreshBase \in Nat /\ FreshBase > 0
  BY <1>1, <1>3, RowTypes
<1>9. IdMade(e, m)
  <2>1. ~KeepsId(p) => e.id \in FreshBase..(FreshBase + m - 1)
    BY <1>2, <1>3, <1>8
  <2>2. QED
    BY <1>1, <1>3, <2>1 DEF IdMade
<1>10. tb = Append(acc.table, e) /\ (pr => cl = Append(acc.columns, e)) /\ (~pr => cl = acc.columns)
  OBVIOUS
<1> HIDE DEF p, e, m, tb, cl, new
<1>11. TableOK(tb, m) /\ e \notin Range(acc.table)
  <2>1. TableOK(acc.table, acc.minted)
    BY DEF LoopInv
  <2>2. QED
    BY <1>2, <1>3, <1>5, <1>6, <1>9, <1>10, <2>1, TableOneMore
<1>12. OthersForeign(tb)
  <2>1. Range(tb) = Range(acc.table) \cup {e}
    BY <1>2, <1>3, <1>10, AppendOne
  <2>2. OthersForeign(acc.table)
    BY DEF LoopInv
  <2>3. QED
    BY <1>8, <2>1, <2>2 DEF OthersForeign
<1>13. StoresAgree(tb, cl, rolledBack, skipped \/ ~pr)
  <2>1. StoresAgree(acc.table, acc.columns, rolledBack, skipped \/ ~pr)
    BY DEF LoopInv
  <2>2. rolledBack \in BOOLEAN /\ (skipped \/ ~pr) \in BOOLEAN
    BY DEF FeedTypes
  <2>3. /\ StoresAgree(Append(acc.table, e), Append(acc.columns, e), rolledBack, skipped \/ ~pr)
        /\ (skipped \/ ~pr) => StoresAgree(Append(acc.table, e), acc.columns, rolledBack, skipped \/ ~pr)
    BY <1>2, <1>3, <1>8, <1>11, <2>1, <2>2, StoresOneMore
  <2>4. QED
    BY <1>10, <2>3
<1>14. /\ \A q : RowCopies(tb, q) = IF q = e.row THEN RowCopies(acc.table, q) + 1 ELSE RowCopies(acc.table, q)
       /\ Cardinality(FedInto(tb)) = Cardinality(FedInto(acc.table)) + 1
  BY <1>2, <1>3, <1>8, <1>10, <1>11, CountOneMore
<1>15. Balanced(tb, acc.dead, SentWith(sent, bt, k))
  <2>1. SentAgain(SentWith(sent, bt, k - 1), SentWith(sent, bt, k), p)
    <3>1. sent \in [Payloads -> Nat]
      BY DEF FeedTypes
    <3>2. SentAgain(SentWith(sent, bt, k - 1), SentWith(sent, bt, k), bt[k])
      BY <1>1, <3>1, SentNext
    <3>3. QED
      BY <3>2 DEF p
  <2>2. Balanced(acc.table, acc.dead, SentWith(sent, bt, k - 1))
    BY DEF LoopInv
  <2>3. \A q \in Payloads : RowCopies(acc.table, q) \in Nat /\ acc.dead[q] \in Nat
    BY <1>2, CountsAreNumbers
  <2>4. \A q \in Payloads : RowCopies(acc.table, q) + acc.dead[q] \in Nat
    BY <2>3
  <2>5. \A q \in Payloads \ {p} : RowCopies(tb, q) + acc.dead[q] = RowCopies(acc.table, q) + acc.dead[q]
    BY <1>3, <1>14
  <2>6. RowCopies(tb, p) + acc.dead[p] = RowCopies(acc.table, p) + acc.dead[p] + 1
    <3>1. RowCopies(tb, p) = RowCopies(acc.table, p) + 1
      BY <1>3, <1>14
    <3>2. RowCopies(acc.table, p) \in Nat /\ acc.dead[p] \in Nat
      BY <1>1, <2>3
    <3>3. \A a, b \in Nat : a + 1 + b = a + b + 1
      OBVIOUS
    <3>4. QED
      BY <3>1, <3>2, <3>3
  <2>7. QED
    BY <1>1, <2>1, <2>2, <2>4, <2>5, <2>6, BalancedStep
<1>16. Cardinality(FedInto(tb)) = accepted + (acc.accepted + 1)
  <2>1. Cardinality(FedInto(acc.table)) = accepted + acc.accepted /\ accepted \in Nat
    BY DEF LoopInv, FeedTypes
  <2>2. QED
    BY <1>2, <1>14, <2>1
<1>17. /\ new \in LoopState(pr) /\ new.table = tb /\ new.columns = cl /\ new.minted = m /\ new.dead = acc.dead
       /\ new.accepted = acc.accepted + 1 /\ new.raised = acc.raised
  <2>1. acc.accepted + 1 \in Nat
    BY <1>2
  <2>2. QED
    BY <1>2, <1>4, <1>6, <1>7, <2>1 DEF LoopState
<1>18. Range(columns) \subseteq Range(cl) /\ minted <= m
  <2>1. Range(columns) \subseteq Range(acc.columns) /\ minted <= acc.minted
    BY DEF LoopInv
  <2>2. minted \in Nat
    BY DEF FeedTypes
  <2>3. Range(columns) \subseteq Range(cl)
    BY <1>7, <2>1
  <2>4. \A a, b, c \in Nat : a <= b /\ b <= c => a <= c
    OBVIOUS
  <2>5. minted <= m
    BY <1>2, <1>6, <2>1, <2>2, <2>4
  <2>6. QED
    BY <2>3, <2>5
<1>19. \A q \in Payloads : acc.dead[q] > 0 => dead[q] > 0 \/ q \in Range(bt)
  BY DEF LoopInv
<1>20. LoopInv(new, bt, k, pr)
  BY <1>11, <1>12, <1>13, <1>15, <1>16, <1>17, <1>18, <1>19 DEF LoopInv
<1>21. QED
  BY <1>20 DEF new, p

\* The loop handles one more row.
LEMMA RowHandled ==
  ASSUME FeedTypes, NEW bt \in Seq(Payloads), NEW k \in 1..Len(bt), NEW pr \in BOOLEAN,
         NEW acc, LoopInv(acc, bt, k - 1, pr)
  PROVE  LoopInv(IngestRow(acc, bt[k]), bt, k, pr)
<1> DEFINE p == bt[k]
           e == EventOf(acc, p)
           held == {f \in ToSet(acc.table) : f.id = e.id}
<1>1. acc \in LoopState(pr) /\ acc.table \in Seq(Event) /\ acc.minted \in Nat /\ acc.raised \in BOOLEAN
  BY DEF LoopInv, LoopState
<1>2. p \in Payloads
  OBVIOUS
<1>3. CASE acc.raised
  <2>1. IngestRow(acc, p) = acc
    BY <1>3 DEF IngestRow
  <2>2. LoopInv(acc, bt, k, pr)
    BY <1>3 DEF LoopInv
  <2>3. QED
    BY <2>1, <2>2
<1>4. CASE ~acc.raised /\ Route(p) = "other"
  <2> DEFINE new == [acc EXCEPT !.raised = TRUE]
  <2>1. IngestRow(acc, p) = new
    BY <1>4 DEF IngestRow
  <2>2. /\ new \in LoopState(pr) /\ new.table = acc.table /\ new.columns = acc.columns /\ new.minted = acc.minted
        /\ new.accepted = acc.accepted /\ new.raised /\ new.dead = acc.dead
    BY <1>1 DEF LoopState
  <2> HIDE DEF new
  <2>3. LoopInv(new, bt, k, pr)
    BY <2>2 DEF LoopInv
  <2>4. QED
    BY <2>1, <2>3
<1>5. CASE ~acc.raised /\ Route(p) # "other" /\ Route(p) = "ValueError"
  <2>1. IngestRow(acc, p) = DeadLetterRow(acc, p)
    BY <1>5 DEF IngestRow
  <2>2. LoopInv(DeadLetterRow(acc, bt[k]), bt, k, pr)
    BY <1>5, RowDies
  <2>3. QED
    BY <2>1, <2>2
<1>6. CASE ~acc.raised /\ Route(p) # "other" /\ Route(p) # "ValueError"
  <2>1. IngestRow(acc, p) = StoreRow(acc, p)
    BY <1>6 DEF IngestRow
  <2>2. ToSet(acc.table) = Range(acc.table)
    BY <1>1, WholeRange
  <2>3. CASE \E f \in held : f.tenant # "own"
    <3>1. StoreRow(acc, p) = DeadLetterRow(acc, p)
      BY <2>3 DEF StoreRow
    <3>2. LoopInv(DeadLetterRow(acc, bt[k]), bt, k, pr)
      BY <1>6, RowDies
    <3>3. QED
      BY <2>1, <3>1, <3>2
  <2>4. CASE held # {} /\ \A f \in held : f.tenant = "own"
    <3>1. StoreRow(acc, p) = acc
      BY <2>4 DEF StoreRow
    <3>2. PICK f \in held : f.tenant = "own"
      BY <2>4
    <3>3. f \in Range(acc.table) /\ f.id = e.id
      BY <2>2
    <3>4. IdMade(f, acc.minted) /\ (f.row = NoRow => f.tenant = "other")
      BY <3>3 DEF LoopInv, TableOK, OthersForeign
    <3>5. /\ e.row = p /\ e.tenant = "own"
          /\ KeepsId(p) => e.id = Rows[p].key
          /\ ~KeepsId(p) => e.id = FreshBase + acc.minted
      BY <1>1, <1>2, EventOfRow
    <3>6. e.row # NoRow /\ FreshBase \in Nat
      BY <1>2, <3>5, RowTypes
    <3> HIDE DEF e, p
    <3>7. IdMade(e, acc.minted + 1)
      <4>1. ~KeepsId(p) => e.id \in FreshBase..(FreshBase + (acc.minted + 1) - 1)
        BY <1>1, <3>5, <3>6
      <4>2. QED
        BY <1>2, <3>5, <4>1 DEF IdMade
    <3>8. f.row = e.row
      BY <1>1, <3>2, <3>3, <3>4, <3>5, <3>6, <3>7, IdsIdentify
    <3>9. f.row = bt[k]
      BY <3>5, <3>8 DEF p
    <3>10. LoopInv(acc, bt, k, pr)
      BY <1>6, <3>3, <3>9, RowRepeated
    <3>11. QED
      BY <2>1, <3>1, <3>10 DEF p
  <2>5. CASE ~(\E f \in held : f.tenant # "own") /\ ~(held # {} /\ \A f \in held : f.tenant = "own")
    <3>1. StoreRow(acc, p) = StoredRow(acc, p)
      BY <2>5 DEF StoreRow, StoredRow
    <3>2. \A f \in Range(acc.table) : f.id # e.id
      BY <2>2, <2>5
    <3>3. LoopInv(StoredRow(acc, bt[k]), bt, k, pr)
      BY <1>6, <3>2, RowStored
    <3>4. QED
      BY <2>1, <3>1, <3>3
  <2>6. QED
    BY <2>3, <2>4, <2>5
<1>7. QED
  BY <1>3, <1>4, <1>5, <1>6

\* What the tables hold before a batch.
FedInv ==
  /\ FeedTypes /\ TableOK(table, minted)
  /\ Balanced(table, dead, sent)
  /\ StoresAgree(table, columns, rolledBack, skipped)
  /\ accepted = Cardinality(FedInto(table))

\* The whole batch.
LEMMA BatchHandled ==
  ASSUME FedInv, OthersForeign(table), NEW bt \in Seq(Payloads), NEW pr \in BOOLEAN
  PROVE  LoopInv(ingest_payloads(bt, pr), bt, Len(bt), pr)
<1> DEFINE base == [table |-> table, columns |-> columns, minted |-> minted, dead |-> dead, accepted |-> 0,
                    raised |-> FALSE, projected |-> pr]
           I == [k \in 0..Len(bt) |-> {acc \in LoopState(pr) : LoopInv(acc, bt, k, pr)}]
<1>0. FeedTypes /\ table \in Seq(Event) /\ sent \in [Payloads -> Nat]
  BY DEF FedInv, TableOK, FeedTypes
<1>1. LoopInv(base, bt, 0, pr)
  <2>1. base \in LoopState(pr)
    BY <1>0 DEF LoopState, FeedTypes
  <2>2. /\ base.table = table /\ base.columns = columns /\ base.minted = minted /\ base.dead = dead
        /\ base.accepted = 0 /\ ~base.raised
    OBVIOUS
  <2> HIDE DEF base
  <2>3. SentWith(sent, bt, 0) = sent
    <3>1. \A p : {i \in 1..0 : bt[i] = p} = {}
      OBVIOUS
    <3>2. \A p \in Payloads : SentWith(sent, bt, 0)[p] = sent[p]
      <4>1. Cardinality({}) = 0
        BY FS_EmptySet
      <4>2. QED
        BY <1>0, <3>1, <4>1 DEF SentWith
    <3>3. SentWith(sent, bt, 0) = [p \in Payloads |-> SentWith(sent, bt, 0)[p]]
      BY DEF SentWith
    <3>4. QED
      BY <1>0, <3>2, <3>3
  <2>4. TableOK(table, minted) /\ Balanced(table, dead, sent)
    BY DEF FedInv
  <2>5. StoresAgree(table, columns, rolledBack, skipped \/ ~pr)
    BY DEF FedInv, StoresAgree
  <2>6. minted <= minted /\ accepted + 0 = accepted
    BY <1>0 DEF FeedTypes
  <2>7. \A p \in Payloads : dead[p] > 0 => dead[p] > 0 \/ p \in Range(bt)
    OBVIOUS
  <2>8. QED
    BY <2>1, <2>2, <2>3, <2>4, <2>5, <2>6, <2>7 DEF LoopInv, FedInv
<1>2. base \in I[0]
  <2>1. 0 \in 0..Len(bt)
    OBVIOUS
  <2> HIDE DEF base
  <2>2. QED
    BY <1>1, <2>1 DEF LoopInv
<1>3. ASSUME NEW k \in 1..Len(bt), NEW acc \in I[k - 1] PROVE IngestRow(acc, bt[k]) \in I[k]
  <2>1. k - 1 \in 0..Len(bt) /\ k \in 0..Len(bt)
    OBVIOUS
  <2>2. LoopInv(acc, bt, k - 1, pr)
    BY <2>1
  <2>3. LoopInv(IngestRow(acc, bt[k]), bt, k, pr)
    BY <1>0, <2>2, RowHandled
  <2>4. IngestRow(acc, bt[k]) \in LoopState(pr)
    BY <2>3 DEF LoopInv
  <2>5. QED
    BY <2>1, <2>3, <2>4
<1>4. IngestingRows!Fold(base, bt) \in I[Len(bt)]
  <2> HIDE DEF I, base
  <2>1. QED
    BY <1>2, <1>3, IngestingRows!FoldInvariant
<1>5. ingest_payloads(bt, pr) = IngestingRows!Fold(base, bt)
  BY DEF ingest_payloads, IngestingRows!Fold, IngestingRows!FoldLeft, FoldLeft, IngestingRows!MapThenFoldSet,
         MapThenFoldSet, IngestingRows!Max, Max
<1>6. Len(bt) \in 0..Len(bt)
  OBVIOUS
<1> HIDE DEF base
<1>7. QED
  BY <1>4, <1>5, <1>6

\* Before the first batch no row is from a connector.
Untouched == requests = 0 => \A e \in Range(table) \cup Range(columns) : e.row = NoRow

FeedInv == FedInv /\ NetworkFailsClosed /\ Untouched

\* A batch is a sequence of rows of its feed.
LEMMA BatchTypes ==
  ASSUME NEW feed, NEW bt \in BatchesOf(feed)
  PROVE  bt \in Seq(Payloads) /\ \A p \in Range(bt) : p \in Payloads /\ Rows[p].feed = feed
<1>1. PICK n \in 0..MaxBatch : bt \in [1..n -> {p \in Payloads : Rows[p].feed = feed}]
  BY DEF BatchesOf
<1>2. n \in Nat
  BY ConnectorAssumption
<1>3. QED
  BY <1>1, <1>2 DEF Range

\* An event that is not from a connector in the table or in the columns.
LEMMA ForeignOneMore ==
  ASSUME NEW tb \in Seq(Event), NEW e \in Event, e.row = NoRow
  PROVE  /\ FedInto(Append(tb, e)) = FedInto(tb)
         /\ \A p \in Payloads : RowCopies(Append(tb, e), p) = RowCopies(tb, p)
         /\ OnceIn(tb) => OnceIn(Append(tb, e))
<1> DEFINE s == Append(tb, e)
           l == Len(tb)
<1>1. /\ Range(s) = Range(tb) \cup {e} /\ DOMAIN s = 1..(l + 1) /\ DOMAIN tb = 1..l /\ l \in Nat
      /\ \A i \in 1..l : s[i] = tb[i]
      /\ s[l + 1] = e
  BY AppendOne
<1> HIDE DEF s, l
<1>2. FedInto(s) = FedInto(tb)
  BY <1>1 DEF FedInto
<1>3. ASSUME NEW p \in Payloads PROVE RowCopies(s, p) = RowCopies(tb, p)
  <2>1. p # NoRow
    BY RowTypes
  <2>2. {f \in Range(s) : f.row = p} = {f \in Range(tb) : f.row = p}
    BY <1>1, <2>1
  <2>3. QED
    BY <2>2 DEF RowCopies
<1>4. ASSUME OnceIn(tb) PROVE OnceIn(s)
  <2> SUFFICES ASSUME NEW i \in 1..(l + 1), NEW j \in 1..(l + 1), s[i] = s[j], s[i].row # NoRow
               PROVE  i = j
    BY <1>1 DEF OnceIn
  <2>1. i \in 1..l /\ j \in 1..l
    BY <1>1
  <2>2. QED
    BY <1>1, <1>4, <2>1 DEF OnceIn
<1>5. QED
  BY <1>2, <1>3, <1>4 DEF s

\* The rows that ingestion writes.
LEMMA RowsOfWindow ==
  ASSUME NEW row \in TableRows \cup WindowRows
  PROVE  row.tenant \in Tenants /\ row.facts \subseteq Facts
<1>1. CASE row \in TableRows
  BY <1>1, HuntAssumption
<1>2. CASE row \in WindowRows
  BY <1>2 DEF WindowRows, Tenants
<1>3. QED
  BY <1>1, <1>2

\* They have an empty body.
LEMMA NoBodyIsBody == NoBody \in Bodies
<1>1. "" \in Sources /\ <<>> \in Seq(Names) /\ 0 \in Nat /\ FALSE \in BOOLEAN
  BY DEF Sources
<1>2. "" \in Names
  BY NamesAssumption
<1>3. QED
  BY <1>1, <1>2 DEF NoBody, Bodies

\* Ingestion outside the connectors.
LEMMA StoreKeepsFeeds ==
  ASSUME FeedInv, requests = 0, UNCHANGED feedVars,
         NEW row \in TableRows \cup WindowRows, NEW time \in Times, Store(row, time)
  PROVE  FeedInv' /\ \E e \in Event : /\ table' = table \/ table' = Append(table, e)
                                      /\ columns' = columns \/ columns' = Append(columns, e)
<1> DEFINE e == [id |-> minted + 1, tenant |-> row.tenant, time |-> time, facts |-> row.facts, body |-> NoBody,
                 row |-> NoRow]
<1>1. /\ columns \in Seq(Event) /\ table \in Seq(Event) /\ minted \in Nat /\ TableOK(table, minted)
      /\ accepted = Cardinality(FedInto(table)) /\ Balanced(table, dead, sent)
      /\ StoresAgree(table, columns, rolledBack, skipped)
  BY DEF FeedInv, FedInv, FeedTypes, TableOK
<1>2. e \in Event /\ e.row = NoRow /\ e.id = minted + 1
  <2>1. NoRow \in Names
    BY NamesAssumption DEF NoRow
  <2>2. row.tenant \in Tenants /\ row.facts \in SUBSET Facts /\ minted + 1 \in Nat
    BY <1>1, RowsOfWindow
  <2>3. QED
    BY <2>1, <2>2, NoBodyIsBody DEF Event
<1>3. /\ table' = table \/ table' = Append(table, e)
      /\ columns' = columns \/ columns' = Append(columns, e)
      /\ minted' = minted + 1
  BY DEF Store
<1> HIDE DEF e
<1>4. \A f \in Range(table) \cup Range(columns) : f.row = NoRow
  BY DEF FeedInv, Untouched
<1>5. \A f \in Range(table) : f.id # e.id
  <2>1. \A f \in Range(table) : IdMade(f, minted) /\ f.row = NoRow
    BY <1>1, <1>4 DEF TableOK
  <2>2. \A p \in Payloads : p # NoRow
    BY RowTypes
  <2>3. \A f \in Range(table) : f.id \in 1..minted
    BY <2>1, <2>2 DEF IdMade
  <2>4. QED
    BY <1>1, <1>2, <2>3
<1>6. IdMade(e, minted + 1)
  BY <1>1, <1>2 DEF IdMade
<1>7. TableOK(table', minted')
  <2>1. TableOK(Append(table, e), minted + 1)
    BY <1>1, <1>2, <1>5, <1>6, TableOneMore
  <2>2. TableOK(table, minted + 1)
    BY <1>1, MadeLater DEF TableOK
  <2>3. QED
    BY <1>3, <2>1, <2>2
<1>8. /\ FedInto(table') = FedInto(table) /\ FedInto(columns') = FedInto(columns)
      /\ \A p \in Payloads : RowCopies(table', p) = RowCopies(table, p)
      /\ OnceIn(columns) => OnceIn(columns')
  BY <1>1, <1>2, <1>3, ForeignOneMore
<1>9. UNCHANGED <<dead, sent, accepted, requests, rolledBack, skipped>>
  BY DEF feedVars
<1>10. columns' \in Seq(Event) /\ minted' \in Nat
  BY <1>1, <1>2, <1>3
<1>11. FeedTypes'
  BY <1>9, <1>10 DEF FeedInv, FedInv, FeedTypes
<1>12. Balanced(table', dead', sent')
  BY <1>1, <1>8, <1>9 DEF Balanced
<1>13. StoresAgree(table', columns', rolledBack', skipped')
  BY <1>1, <1>8, <1>9 DEF StoresAgree
<1>14. accepted' = Cardinality(FedInto(table'))
  BY <1>1, <1>8, <1>9
<1>15. FedInv'
  BY <1>7, <1>11, <1>12, <1>13, <1>14 DEF FedInv
<1>16. NetworkFailsClosed'
  BY <1>9 DEF FeedInv, NetworkFailsClosed
<1>17. Untouched'
  <2>1. Range(table') \subseteq Range(table) \cup {e} /\ Range(columns') \subseteq Range(columns) \cup {e}
    <3>1. Range(Append(table, e)) = Range(table) \cup {e} /\ Range(Append(columns, e)) = Range(columns) \cup {e}
      BY <1>1, <1>2, AppendOne
    <3>2. Range(table') \subseteq Range(table) \cup {e}
      BY <1>3, <3>1
    <3>3. Range(columns') \subseteq Range(columns) \cup {e}
      BY <1>3, <3>1
    <3>4. QED
      BY <3>2, <3>3
  <2>2. \A f \in Range(table') \cup Range(columns') : f.row = NoRow
    BY <1>2, <1>4, <2>1
  <2>3. QED
    BY <2>2 DEF Untouched
<1>18. QED
  BY <1>2, <1>3, <1>15, <1>16, <1>17 DEF FeedInv

\* A request that changes none of the tables.
LEMMA SameTables ==
  ASSUME FeedInv, UNCHANGED feedVars, UNCHANGED <<table, columns, minted>>
  PROVE  FeedInv'
<1>1. UNCHANGED <<table, columns, minted, dead, sent, accepted, requests, rolledBack, skipped>>
  BY DEF feedVars
<1>2. FeedTypes'
  BY <1>1 DEF FeedInv, FedInv, FeedTypes
<1>3. FedInv'
  BY <1>1, <1>2 DEF FeedInv, FedInv
<1>4. QED
  BY <1>1, <1>3 DEF FeedInv, NetworkFailsClosed, Untouched

\* The id of a row that the adapter keeps is in the table once.
LEMMA KeptOnce ==
  ASSUME NEW n, NEW tb, TableOK(tb, n), NEW p \in Payloads, KeepsId(p)
  PROVE  RowCopies(tb, p) <= 1
<1> DEFINE S == {e \in Range(tb) : e.row = p}
<1>1. tb \in Seq(Event) /\ IdsDiffer(tb) /\ (\A e \in Range(tb) : IdMade(e, n)) /\ p # NoRow
  BY RowTypes DEF TableOK
<1>2. \A e \in S : e.id = Rows[p].key
  BY <1>1 DEF IdMade
<1>3. \A e, f \in S : e = f
  <2> SUFFICES ASSUME NEW e \in S, NEW f \in S PROVE e = f
    OBVIOUS
  <2>1. PICK i \in DOMAIN tb : e = tb[i]
    BY DEF Range
  <2>2. PICK j \in DOMAIN tb : f = tb[j]
    BY DEF Range
  <2>3. i = j
    BY <1>1, <1>2, <2>1, <2>2 DEF IdsDiffer
  <2>4. QED
    BY <2>1, <2>2, <2>3
<1>4. CASE S = {}
  BY <1>4, FS_EmptySet DEF RowCopies
<1>5. CASE S # {}
  <2>1. PICK e \in S : TRUE
    BY <1>5
  <2> HIDE DEF S
  <2>2. S = {e}
    BY <1>3, <2>1
  <2>3. Cardinality(S) = 1
    BY <2>2, FS_Singleton
  <2>4. QED
    BY <2>3 DEF S, RowCopies
<1>6. QED
  BY <1>4, <1>5

\* What the tables hold accounts for what the connectors sent.
LEMMA FeedInvAccounts ==
  ASSUME FeedInv
  PROVE  FeedsAccounted
<1>1. /\ table \in Seq(Event) /\ columns \in Seq(Event) /\ TableOK(table, minted) /\ Balanced(table, dead, sent)
      /\ StoresAgree(table, columns, rolledBack, skipped) /\ accepted = Cardinality(FedInto(table))
      /\ NetworkFailsClosed
  BY DEF FeedInv, FedInv, FeedTypes, TableOK
<1>2. ToSet(table) = Range(table) /\ ToSet(columns) = Range(columns)
  BY <1>1, WholeRange
<1>3. FromFeeds(table) = FedInto(table) /\ FromFeeds(columns) = FedInto(columns)
  BY <1>2 DEF FromFeeds, FedInto
<1>4. \A p : Copies(p) = RowCopies(table, p)
  BY <1>2 DEF Copies, RowCopies
<1>5. RowsAccountedFor
  <2> SUFFICES ASSUME NEW p \in Payloads
               PROVE  /\ (sent[p] > 0) = (RowCopies(table, p) + dead[p] > 0)
                      /\ RowCopies(table, p) + dead[p] <= sent[p]
                      /\ Rows[p].key # 0 /\ Rows[p].feed # "network" => RowCopies(table, p) <= 1
    BY <1>4 DEF RowsAccountedFor
  <2>1. /\ (sent[p] > 0) <=> (RowCopies(table, p) + dead[p] > 0)
        /\ RowCopies(table, p) + dead[p] <= sent[p]
    BY <1>1 DEF Balanced
  <2>2. ASSUME Rows[p].key # 0, Rows[p].feed # "network" PROVE RowCopies(table, p) <= 1
    <3>1. KeepsId(p)
      BY <2>2 DEF KeepsId
    <3>2. QED
      BY <1>1, <3>1, KeptOnce
  <2>3. QED
    BY <2>1, <2>2
<1>6. BackendsAgree
  BY <1>1, <1>3 DEF BackendsAgree, StoresAgree, OnceIn
<1>7. AuditCountsStored
  BY <1>1, <1>3 DEF AuditCountsStored
<1>8. QED
  BY <1>1, <1>5, <1>6, <1>7 DEF FeedsAccounted

\* A batch through ingest_payloads, stored or undone.
LEMMA BatchKeepsFeeds ==
  ASSUME FeedInv, NEW bt \in Seq(Payloads), NEW pr \in BOOLEAN, NEW fails \in BOOLEAN,
         \A p \in Range(bt) : Rows[p].feed = "network" => Adapter(p) = "event",
         IngestBatch(bt, pr, fails)
  PROVE  FeedInv'
<1> DEFINE result == ingest_payloads(bt, pr)
<1>1. /\ FedInv /\ NetworkFailsClosed /\ FeedTypes /\ TableOK(table, minted) /\ table \in Seq(Event)
      /\ columns \in Seq(Event)
  BY DEF FeedInv, FedInv, FeedTypes, TableOK
<1>2. OthersForeign(table)
  <2>1. ToSet(table) = Range(table)
    BY <1>1, WholeRange
  <2>2. \A e \in ToSet(table) : e.row = NoRow => e.tenant = "other"
    BY DEF IngestBatch
  <2>3. QED
    BY <2>1, <2>2 DEF OthersForeign
<1>3. LoopInv(result, bt, Len(bt), pr)
  BY <1>1, <1>2, BatchHandled
<1>4. /\ requests' = requests + 1 /\ columns' = result.columns /\ minted' = result.minted
      /\ skipped' = (skipped \/ ~pr)
      /\ \/ ~result.raised /\ BatchStored(result, bt)
         \/ BatchUndone(result)
  BY DEF IngestBatch
<1> HIDE DEF result
<1>5. /\ result \in LoopState(pr) /\ result.columns \in Seq(Event) /\ result.minted \in Nat
      /\ result.dead \in [Payloads -> Nat] /\ result.accepted \in Nat
  BY <1>3 DEF LoopInv, LoopState
<1>6. /\ requests' \in Nat /\ requests' # 0 /\ columns' \in Seq(Event) /\ minted' \in Nat
      /\ skipped' \in BOOLEAN
  BY <1>1, <1>4, <1>5 DEF FeedTypes
<1>7. Untouched'
  BY <1>6 DEF Untouched
<1>8. CASE ~result.raised /\ BatchStored(result, bt)
  <2>1. /\ table' = result.table /\ dead' = result.dead /\ accepted' = accepted + result.accepted
        /\ rolledBack' = rolledBack
        /\ sent' = [p \in Payloads |-> sent[p] + Occurrences(bt, p)]
    BY <1>8 DEF BatchStored
  <2>2. sent' = SentWith(sent, bt, Len(bt))
    <3>1. DOMAIN bt = 1..Len(bt)
      OBVIOUS
    <3>2. QED
      BY <2>1, <3>1 DEF SentWith, Occurrences
  <2>3. sent' \in [Payloads -> Nat]
    <3>1. sent \in [Payloads -> Nat]
      BY <1>1 DEF FeedTypes
    <3>2. CASE Len(bt) = 0
      <4>1. \A p : {i \in 1..0 : bt[i] = p} = {}
        OBVIOUS
      <4>2. \A p : Cardinality({i \in 1..0 : bt[i] = p}) = 0
        BY <4>1, FS_EmptySet
      <4>3. \A p \in Payloads : SentWith(sent, bt, 0)[p] = sent[p]
        BY <3>1, <4>2 DEF SentWith
      <4>4. SentWith(sent, bt, 0) = [p \in Payloads |-> SentWith(sent, bt, 0)[p]]
        BY DEF SentWith
      <4>5. QED
        BY <2>2, <3>1, <3>2, <4>3, <4>4
    <3>3. CASE Len(bt) # 0
      BY <2>2, <3>1, <3>3, SentOneMore
    <3>4. QED
      BY <3>2, <3>3
  <2>4. FeedTypes'
    <3>1. accepted' \in Nat /\ rolledBack' \in BOOLEAN /\ dead' \in [Payloads -> Nat]
      BY <1>1, <1>5, <2>1 DEF FeedTypes
    <3>2. QED
      BY <1>6, <2>3, <3>1 DEF FeedTypes
  <2>5. TableOK(table', minted')
    BY <1>3, <1>4, <2>1 DEF LoopInv
  <2>6. Balanced(table', dead', sent')
    BY <1>3, <1>8, <2>1, <2>2 DEF LoopInv
  <2>7. StoresAgree(table', columns', rolledBack', skipped')
    BY <1>3, <1>4, <2>1 DEF LoopInv
  <2>8. accepted' = Cardinality(FedInto(table'))
    BY <1>3, <1>8, <2>1 DEF LoopInv
  <2>9. NetworkFailsClosed'
    <3>1. \A p \in Payloads : result.dead[p] > 0 => dead[p] > 0 \/ p \in Range(bt)
      BY <1>3 DEF LoopInv
    <3>2. QED
      BY <1>1, <2>1, <3>1 DEF NetworkFailsClosed
  <2>10. FedInv'
    BY <2>4, <2>5, <2>6, <2>7, <2>8 DEF FedInv
  <2>11. QED
    BY <1>7, <2>9, <2>10 DEF FeedInv
<1>9. CASE BatchUndone(result)
  <2>1. /\ UNCHANGED <<table, dead, accepted, sent>>
        /\ rolledBack' = (rolledBack \/ result.columns # columns)
    BY <1>9 DEF BatchUndone
  <2>2. TableOK(table', minted')
    <3>1. minted \in Nat /\ minted <= minted'
      BY <1>1, <1>3, <1>4 DEF LoopInv, FeedTypes
    <3>2. \A e \in Range(table) : IdMade(e, minted')
      BY <1>1, <1>6, <3>1, MadeLater DEF TableOK
    <3>3. QED
      BY <1>1, <2>1, <3>2 DEF TableOK
  <2>3. StoresAgree(table, columns, rolledBack, skipped) /\ Range(columns) \subseteq Range(columns')
    BY <1>1, <1>3, <1>4 DEF FedInv, LoopInv
  <2>4. FedInto(columns) \subseteq FedInto(columns')
    BY <2>3 DEF FedInto
  <2>5. ~rolledBack' => columns' = columns /\ ~rolledBack
    BY <1>4, <2>1
  <2>6. ~skipped' => ~skipped
    BY <1>4
  <2>7. StoresAgree(table', columns', rolledBack', skipped')
    BY <2>1, <2>3, <2>4, <2>5, <2>6 DEF StoresAgree
  <2>8. FeedTypes'
    BY <1>1, <1>6, <2>1 DEF FeedTypes
  <2>9. Balanced(table', dead', sent') /\ accepted' = Cardinality(FedInto(table'))
    BY <1>1, <2>1 DEF FedInv
  <2>10. FedInv'
    BY <2>2, <2>7, <2>8, <2>9 DEF FedInv
  <2>11. NetworkFailsClosed'
    BY <1>1, <2>1 DEF NetworkFailsClosed
  <2>12. QED
    BY <1>7, <2>10, <2>11 DEF FeedInv
<1>10. QED
  BY <1>4, <1>8, <1>9

\* Every batch of a connector.
LEMMA FeedingKeepsFeeds ==
  ASSUME FeedInv, Feeding
  PROVE  FeedInv'
<1>1. PICK pr \in BOOLEAN, fails \in BOOLEAN :
        \/ \E bt \in WazuhBatches : WazuhIngest(bt, pr, fails)
        \/ \E bt \in NetworkBatches : NetworkIngest(bt, pr, fails)
        \/ \E bt \in CloudBatches : AzureIngest(bt, pr, fails)
  BY DEF Feeding
<1>2. ASSUME NEW bt \in WazuhBatches, WazuhIngest(bt, pr, fails) PROVE FeedInv'
  <2>1. bt \in Seq(Payloads) /\ \A p \in Range(bt) : Rows[p].feed # "network"
    BY BatchTypes DEF WazuhBatches
  <2>2. QED
    BY <1>2, <2>1, BatchKeepsFeeds DEF WazuhIngest
<1>3. ASSUME NEW bt \in NetworkBatches, NetworkIngest(bt, pr, fails) PROVE FeedInv'
  <2>1. bt \in Seq(Payloads)
    BY BatchTypes DEF NetworkBatches
  <2>2. \A p \in Range(bt) : Adapter(p) = "event"
    BY <1>3, <2>1, WholeRange DEF NetworkIngest
  <2>3. QED
    BY <1>3, <2>1, <2>2, BatchKeepsFeeds DEF NetworkIngest
<1>4. ASSUME NEW bt \in CloudBatches, AzureIngest(bt, pr, fails) PROVE FeedInv'
  <2>1. bt \in Seq(Payloads) /\ \A p \in Range(bt) : Rows[p].feed # "network"
    BY BatchTypes DEF CloudBatches
  <2>2. QED
    BY <1>4, <2>1, BatchKeepsFeeds DEF AzureIngest
<1>5. QED
  BY <1>1, <1>2, <1>3, <1>4

-----------------------------------------------------------------------------
(* Structured searches                                                      *)

Collecting == INSTANCE FoldLaws WITH Op <- Collect

\* As many of the first elements as a limit allows.
FirstOf(s, c) == SubSeq(s, 1, Min({c, Len(s)}))

\* Min of two numbers.
LEMMA SmallerOfTwo ==
  ASSUME NEW a \in Nat, NEW b \in Nat
  PROVE  Min({a, b}) = IF a <= b THEN a ELSE b
<1> DEFINE m == IF a <= b THEN a ELSE b
<1>1. m \in {a, b} /\ \A y \in {a, b} : m =< y
  OBVIOUS
<1>2. \A x \in {a, b} : (\A y \in {a, b} : x =< y) => x = m
  OBVIOUS
<1> HIDE DEF m
<1>3. Min({a, b}) \in {a, b} /\ \A y \in {a, b} : Min({a, b}) =< y
  BY <1>1 DEF Min
<1>4. Min({a, b}) = m
  BY <1>2, <1>3
<1>5. QED
  BY <1>4 DEF m

\* One element more changes the first ones only below the limit.
LEMMA FirstOfAppend ==
  ASSUME NEW T, NEW s \in Seq(T), NEW x \in T, NEW c \in Nat
  PROVE  /\ Len(FirstOf(s, c)) >= c => FirstOf(Append(s, x), c) = FirstOf(s, c)
         /\ ~(Len(FirstOf(s, c)) >= c) => FirstOf(Append(s, x), c) = Append(FirstOf(s, c), x)
         /\ FirstOf(s, c) \in Seq(T) /\ Len(FirstOf(s, c)) \in Nat
<1> DEFINE l == Len(s)
           t == Append(s, x)
<1>1. l \in Nat /\ t \in Seq(T) /\ Len(t) = l + 1 /\ (\A i \in 1..l : t[i] = s[i] /\ s[i] \in T) /\ t[l + 1] = x
  BY AppendOne
<1>2. CASE c <= l
  <2>1. FirstOf(s, c) = SubSeq(s, 1, c)
    BY <1>1, <1>2, SmallerOfTwo DEF FirstOf
  <2>2. FirstOf(t, c) = SubSeq(t, 1, c)
    <3>1. c <= l + 1 /\ l + 1 \in Nat
      BY <1>1, <1>2
    <3>2. QED
      BY <1>1, <3>1, SmallerOfTwo DEF FirstOf
  <2> HIDE DEF l, t
  <2>3. \A i \in 1..c : i \in 1..l /\ t[i] = s[i] /\ s[i] \in T
    BY <1>1, <1>2
  <2>4. /\ SubSeq(s, 1, c) \in Seq(T) /\ Len(SubSeq(s, 1, c)) = c
        /\ \A i \in 1..c : SubSeq(s, 1, c)[i] = s[i]
    BY <2>3
  <2>5. /\ SubSeq(t, 1, c) \in Seq(T) /\ Len(SubSeq(t, 1, c)) = c
        /\ \A i \in 1..c : SubSeq(t, 1, c)[i] = t[i]
    <3>1. \A i \in 1..c : t[i] \in T
      BY <2>3
    <3>2. QED
      BY <1>1, <1>2, <3>1
  <2>6. SubSeq(t, 1, c) = SubSeq(s, 1, c)
    <3>1. \A i \in 1..c : SubSeq(t, 1, c)[i] = SubSeq(s, 1, c)[i]
      BY <2>3, <2>4, <2>5
    <3>2. QED
      BY <2>4, <2>5, <3>1, SeqEqual
  <2>7. FirstOf(Append(s, x), c) = FirstOf(s, c) /\ Len(FirstOf(s, c)) = c /\ FirstOf(s, c) \in Seq(T)
    BY <2>1, <2>2, <2>4, <2>6 DEF t
  <2>8. c >= c
    OBVIOUS
  <2>9. QED
    BY <2>7, <2>8
<1>3. CASE ~(c <= l)
  <2>1. FirstOf(s, c) = SubSeq(s, 1, l)
    BY <1>1, <1>3, SmallerOfTwo DEF FirstOf
  <2>2. FirstOf(t, c) = SubSeq(t, 1, l + 1)
    <3>1. l + 1 \in Nat /\ (c <= l + 1 => c = l + 1)
      BY <1>1, <1>3
    <3>2. QED
      BY <1>1, <3>1, SmallerOfTwo DEF FirstOf
  <2>3. SubSeq(s, 1, l) = s
    BY SubSeqFull
  <2>4. SubSeq(t, 1, l + 1) = t
    BY <1>1, SubSeqFull
  <2>5. QED
    BY <1>1, <1>3, <2>1, <2>2, <2>3, <2>4
<1>4. QED
  BY <1>2, <1>3

\* After k events of the window.
Found(search, w, S, k) ==
  [search |-> search, found |-> FirstOf(Only(SubSeq(w, 1, k), S), ClampLimit(search.limit))]

\* The clamped limit is a number.
LEMMA ClampIsNumber ==
  ASSUME NEW n \in Int
  PROVE  ClampLimit(n) \in Nat
<1>1. MaxLimit \in Nat \ {0}
  BY HuntAssumption
<1>2. QED
  BY <1>1 DEF ClampLimit

\* The loop of structured_search keeps the first events that pass.
LEMMA SearchFinds ==
  ASSUME NEW w \in Seq(Event), NEW search, search.limit \in Int
  PROVE  Collecting!Fold([search |-> search, found |-> <<>>], w).found =
           FirstOf(Only(w, {e \in ToSet(w) : Passes(e, search)}), ClampLimit(search.limit))
<1> DEFINE S == {e \in ToSet(w) : Passes(e, search)}
           c == ClampLimit(search.limit)
           base == [search |-> search, found |-> <<>>]
           I == [k \in 0..Len(w) |-> {Found(search, w, S, k)}]
<1>1. c \in Nat
  BY ClampIsNumber
<1>2. base \in I[0]
  <2>1. SubSeq(w, 1, 0) = <<>> /\ 0 \in 0..Len(w)
    OBVIOUS
  <2>2. Only(<<>>, S) = <<>>
    BY OnlyEmpty
  <2>3. FirstOf(<<>>, c) = <<>>
    <3>1. Min({c, 0}) = 0
      BY <1>1, SmallerOfTwo
    <3>2. QED
      BY <3>1 DEF FirstOf
  <2> HIDE DEF S, c
  <2>4. Found(search, w, S, 0) = base
    BY <2>1, <2>2, <2>3 DEF Found, c
  <2>5. QED
    BY <2>1, <2>4
<1>3. ASSUME NEW k \in 1..Len(w), NEW acc \in I[k - 1] PROVE Collect(acc, w[k]) \in I[k]
  <2> DEFINE v == SubSeq(w, 1, k - 1)
             all == Only(v, S)
  <2>1. k - 1 \in 0..Len(w) /\ k \in 0..Len(w) /\ w[k] \in Event /\ w[k] \in ToSet(w)
    BY DEF ToSet
  <2>2. v \in Seq(Event) /\ SubSeq(w, 1, k) = Append(v, w[k])
    <3>1. v \in Seq(Event)
      OBVIOUS
    <3>2. SubSeq(w, 1, k) \in Seq(Event) /\ Append(v, w[k]) \in Seq(Event)
      BY <2>1, <3>1
    <3>3. Len(SubSeq(w, 1, k)) = k /\ Len(Append(v, w[k])) = k
      BY <2>1, <3>1
    <3>4. \A i \in 1..k : SubSeq(w, 1, k)[i] = Append(v, w[k])[i]
      OBVIOUS
    <3>5. QED
      BY <3>1, <3>2, <3>3, <3>4, SeqEqual
  <2>3. acc = Found(search, w, S, k - 1)
    BY <2>1
  <2>4. w[k] \in S <=> Passes(w[k], search)
    BY <2>1
  <2> HIDE DEF S, v
  <2>5. all \in Seq(Event) /\ Only(SubSeq(w, 1, k), S) = IF w[k] \in S THEN Append(all, w[k]) ELSE all
    <3>1. all \in Seq(Event)
      BY <2>2, OnlyKeeps
    <3>2. \A x \in Event : Only(Append(v, x), S) = IF x \in S THEN Append(Only(v, S), x) ELSE Only(v, S)
      BY <2>2, OnlyAppend
    <3>3. Only(Append(v, w[k]), S) = IF w[k] \in S THEN Append(Only(v, S), w[k]) ELSE Only(v, S)
      BY <2>1, <3>2
    <3>4. QED
      BY <2>2, <3>1, <3>3
  <2> HIDE DEF all, c
  <2>6. acc = [search |-> search, found |-> FirstOf(all, c)]
    BY <2>3 DEF Found, all, c, v
  <2>7. /\ Len(FirstOf(all, c)) >= c => FirstOf(Append(all, w[k]), c) = FirstOf(all, c)
        /\ ~(Len(FirstOf(all, c)) >= c) => FirstOf(Append(all, w[k]), c) = Append(FirstOf(all, c), w[k])
    BY <1>1, <2>1, <2>5, FirstOfAppend
  <2>8. Collect(acc, w[k]) = [search |-> search, found |-> FirstOf(Only(SubSeq(w, 1, k), S), c)]
    <3>0. acc.search = search /\ acc.found = FirstOf(all, c) /\ ClampLimit(acc.search.limit) = c
      BY <2>6 DEF c
    <3>1. CASE w[k] \notin S
      <4>1. Collect(acc, w[k]) = acc
        BY <2>4, <3>0, <3>1 DEF Collect
      <4>2. QED
        BY <2>5, <2>6, <3>1, <4>1
    <3>2. CASE w[k] \in S /\ Len(FirstOf(all, c)) >= c
      <4>1. Collect(acc, w[k]) = acc
        BY <3>0, <3>2 DEF Collect
      <4>2. QED
        BY <2>5, <2>6, <2>7, <3>2, <4>1
    <3>3. CASE w[k] \in S /\ ~(Len(FirstOf(all, c)) >= c)
      <4>1. Collect(acc, w[k]) = [acc EXCEPT !.found = Append(acc.found, w[k])]
        BY <2>4, <3>0, <3>3 DEF Collect
      <4>2. Collect(acc, w[k]) = [search |-> search, found |-> Append(FirstOf(all, c), w[k])]
        BY <2>6, <4>1
      <4>3. QED
        BY <2>5, <2>7, <3>3, <4>2
    <3>4. QED
      BY <3>1, <3>2, <3>3
  <2>9. QED
    BY <2>1, <2>8 DEF Found, c
<1>4. Collecting!Fold(base, w) \in I[Len(w)]
  <2> HIDE DEF I, base
  <2>1. QED
    BY <1>2, <1>3, Collecting!FoldInvariant
<1>5. Len(w) \in 0..Len(w) /\ SubSeq(w, 1, Len(w)) = w
  BY SubSeqFull
<1> HIDE DEF S
<1>6. Collecting!Fold(base, w) = [search |-> search, found |-> FirstOf(Only(w, S), c)]
  BY <1>4, <1>5 DEF Found
<1>7. Collecting!Fold(base, w).found = FirstOf(Only(w, S), c)
  <2> HIDE DEF base, c
  <2>1. QED
    BY <1>6
<1>8. QED
  BY <1>7 DEF S

\* The search over the window.
LEMMA SearchIsExact ==
  ASSUME load_window \in Seq(Event), NEW search, search.limit \in Int
  PROVE  structured_search(search) =
           FirstOf(Only(load_window, {e \in ToSet(load_window) : Passes(e, search)}), ClampLimit(search.limit))
<1>1. structured_search(search) = Collecting!Fold([search |-> search, found |-> <<>>], load_window).found
  BY DEF structured_search, Collecting!Fold, Collecting!FoldLeft, FoldLeft, Collecting!MapThenFoldSet,
         MapThenFoldSet, Collecting!Max, Max
<1>2. QED
  BY <1>1, SearchFinds

\* The first elements are elements.
LEMMA FirstOfRange ==
  ASSUME NEW T, NEW s \in Seq(T), NEW c \in Nat
  PROVE  FirstOf(s, c) \in Seq(T) /\ Range(FirstOf(s, c)) \subseteq Range(s)
<1> DEFINE m == Min({c, Len(s)})
<1>1. m \in 0..Len(s)
  BY SmallerOfTwo
<1>2. FirstOf(s, c) = SubSeq(s, 1, m)
  BY DEF FirstOf
<1> HIDE DEF m
<1>3. SubSeq(s, 1, m) \in Seq(T) /\ Len(SubSeq(s, 1, m)) = m /\ \A i \in 1..m : SubSeq(s, 1, m)[i] = s[i]
  BY <1>1
<1>4. Range(SubSeq(s, 1, m)) \subseteq Range(s)
  <2>1. DOMAIN SubSeq(s, 1, m) = 1..m
    BY <1>3
  <2>2. \A i \in 1..m : i \in DOMAIN s
    BY <1>1
  <2>3. QED
    BY <1>3, <2>1, <2>2 DEF Range
<1>5. QED
  BY <1>2, <1>3, <1>4

-----------------------------------------------------------------------------
(* Sequence hunts                                                           *)

AddingOne == INSTANCE FoldLaws WITH Op <- AddHit
AddingAll == INSTANCE FoldLaws WITH Op <- AddHits

\* A listing without repetitions.
Listing(hits, T) == hits \in Seq(T) /\ IsInjective(hits)

\* One position is listed once.
LEMMA AddHitLists ==
  ASSUME NEW T, NEW hits, Listing(hits, T), NEW i \in T
  PROVE  Listing(AddHit(hits, i), T) /\ Range(AddHit(hits, i)) = Range(hits) \cup {i}
<1>1. hits \in Seq(T) /\ IsInjective(hits)
  BY DEF Listing
<1>2. CASE i \in Range(hits)
  BY <1>2 DEF AddHit
<1>3. CASE i \notin Range(hits)
  <2> DEFINE s == Append(hits, i)
             l == Len(hits)
  <2>1. AddHit(hits, i) = s
    BY <1>3 DEF AddHit
  <2>2. /\ s \in Seq(T) /\ DOMAIN s = 1..(l + 1) /\ DOMAIN hits = 1..l /\ l \in Nat
        /\ (\A j \in 1..l : s[j] = hits[j]) /\ s[l + 1] = i /\ Range(s) = Range(hits) \cup {i}
    BY <1>1, AppendOne
  <2> HIDE DEF s, l
  <2>3. \A j \in 1..l : hits[j] # i
    BY <1>3, <2>2 DEF Range
  <2>4. \A j, k \in 1..l : hits[j] = hits[k] => j = k
    BY <1>1, <2>2 DEF IsInjective
  <2>5. \A j \in 1..(l + 1) : j \in 1..l \/ j = l + 1
    BY <2>2
  <2>6. \A j, k \in 1..(l + 1) : s[j] = s[k] => j = k
    BY <2>2, <2>3, <2>4, <2>5
  <2>7. IsInjective(s)
    BY <2>2, <2>6 DEF IsInjective
  <2>8. QED
    BY <2>1, <2>2, <2>7 DEF Listing
<1>4. QED
  BY <1>2, <1>3

ListedWith(hits, T, R) == {h \in Seq(T) : Listing(h, T) /\ Range(h) = Range(hits) \cup R}

\* All positions of a complete chain are listed.
LEMMA AddHitsLists ==
  ASSUME NEW T, NEW hits, Listing(hits, T), NEW c, c.ok => c.found \in Seq(T)
  PROVE  /\ Listing(AddHits(hits, c), T)
         /\ c.ok => Range(AddHits(hits, c)) = Range(hits) \cup Range(c.found)
         /\ ~c.ok => AddHits(hits, c) = hits
<1>1. CASE ~c.ok
  BY <1>1 DEF AddHits
<1>2. CASE c.ok
  <2> DEFINE f == c.found
             I == [k \in 0..Len(f) |-> ListedWith(hits, T, {f[i] : i \in 1..k})]
  <2>1. f \in Seq(T)
    BY <1>2
  <2>2. hits \in I[0]
    <3>1. {f[i] : i \in 1..0} = {} /\ 0 \in 0..Len(f)
      BY <2>1
    <3>2. QED
      BY <3>1 DEF ListedWith, Listing
  <2>3. ASSUME NEW k \in 1..Len(f), NEW h \in I[k - 1] PROVE AddHit(h, f[k]) \in I[k]
    <3>1. k - 1 \in 0..Len(f) /\ k \in 0..Len(f) /\ f[k] \in T /\ k \in Nat \ {0}
      BY <2>1
    <3>2. Listing(h, T) /\ Range(h) = Range(hits) \cup {f[i] : i \in 1..(k - 1)}
      BY <3>1 DEF ListedWith
    <3>3. Listing(AddHit(h, f[k]), T) /\ Range(AddHit(h, f[k])) = Range(h) \cup {f[k]}
      BY <3>1, <3>2, AddHitLists
    <3>4. {f[i] : i \in 1..k} = {f[i] : i \in 1..(k - 1)} \cup {f[k]}
      BY <3>1, OneMoreElement
    <3>5. AddHit(h, f[k]) \in ListedWith(hits, T, {f[i] : i \in 1..k})
      BY <3>2, <3>3, <3>4 DEF ListedWith, Listing
    <3>6. QED
      BY <3>1, <3>5
  <2>4. AddingOne!Fold(hits, f) \in I[Len(f)]
    <3> HIDE DEF I, f
    <3>1. QED
      BY <2>1, <2>2, <2>3, AddingOne!FoldInvariant
  <2>5. AddHits(hits, c) = AddingOne!Fold(hits, f)
    BY <1>2 DEF AddHits, AddingOne!Fold, AddingOne!FoldLeft, FoldLeft, AddingOne!MapThenFoldSet,
                MapThenFoldSet, AddingOne!Max, Max
  <2>6. Range(f) = {f[i] : i \in 1..Len(f)} /\ Len(f) \in 0..Len(f)
    BY <2>1, WholeRange
  <2>7. AddHits(hits, c) \in ListedWith(hits, T, Range(f))
    <3> HIDE DEF f
    <3>1. QED
      BY <2>4, <2>5, <2>6
  <2>8. QED
    BY <1>2, <2>7 DEF ListedWith
<1>3. QED
  BY <1>1, <1>2

\* The positions in the complete chains among the first k.
InChains(chains, k) == UNION {Range(chains[m].found) : m \in {n \in 1..k : chains[n].ok}}

\* All complete chains are listed.
LEMMA HitsListed ==
  ASSUME NEW T, NEW U, NEW chains \in Seq(U), \A m \in 1..Len(chains) : chains[m].ok => chains[m].found \in Seq(T)
  PROVE  /\ Listing(FoldLeft(AddHits, <<>>, chains), T)
         /\ Range(FoldLeft(AddHits, <<>>, chains)) = InChains(chains, Len(chains))
<1> DEFINE I == [k \in 0..Len(chains) |-> ListedWith(<<>>, T, InChains(chains, k))]
<1>1. Range(<<>>) = {} /\ Listing(<<>>, T)
  BY DEF Range, Listing, IsInjective
<1>2. <<>> \in I[0]
  <2>1. InChains(chains, 0) = {} /\ 0 \in 0..Len(chains)
    BY DEF InChains
  <2>2. QED
    BY <1>1, <2>1 DEF ListedWith, Listing
<1>3. ASSUME NEW k \in 1..Len(chains), NEW h \in I[k - 1] PROVE AddHits(h, chains[k]) \in I[k]
  <2>1. k - 1 \in 0..Len(chains) /\ k \in 0..Len(chains)
    OBVIOUS
  <2>2. Listing(h, T) /\ Range(h) = InChains(chains, k - 1)
    BY <1>1, <2>1 DEF ListedWith
  <2>3. /\ Listing(AddHits(h, chains[k]), T)
        /\ chains[k].ok => Range(AddHits(h, chains[k])) = Range(h) \cup Range(chains[k].found)
        /\ ~chains[k].ok => AddHits(h, chains[k]) = h
    BY <2>2, AddHitsLists
  <2>4. \A n \in 1..k : n = k \/ n \in 1..(k - 1)
    OBVIOUS
  <2>5. k \in 1..k /\ \A n \in 1..(k - 1) : n \in 1..k
    OBVIOUS
  <2>6. chains[k].ok => InChains(chains, k) = InChains(chains, k - 1) \cup Range(chains[k].found)
    BY <2>4, <2>5 DEF InChains
  <2>7. ~chains[k].ok => InChains(chains, k) = InChains(chains, k - 1)
    BY <2>4, <2>5 DEF InChains
  <2>8. Range(AddHits(h, chains[k])) = InChains(chains, k)
    BY <2>2, <2>3, <2>6, <2>7
  <2>9. AddHits(h, chains[k]) \in ListedWith(<<>>, T, InChains(chains, k))
    BY <1>1, <2>3, <2>8 DEF ListedWith, Listing
  <2>10. QED
    BY <2>1, <2>9
<1>4. AddingAll!Fold(<<>>, chains) \in I[Len(chains)]
  <2> HIDE DEF I
  <2>1. QED
    BY <1>2, <1>3, AddingAll!FoldInvariant
<1>5. FoldLeft(AddHits, <<>>, chains) = AddingAll!Fold(<<>>, chains)
  BY DEF AddingAll!Fold, AddingAll!FoldLeft, FoldLeft, AddingAll!MapThenFoldSet, MapThenFoldSet, AddingAll!Max, Max
<1>6. Len(chains) \in 0..Len(chains)
  OBVIOUS
<1>7. QED
  BY <1>1, <1>4, <1>5, <1>6 DEF ListedWith

Extending == INSTANCE FoldLaws WITH Op <- Extend

ChainState(events, W) ==
  [events : {events}, window : {W}, ok : BOOLEAN, raised : BOOLEAN, last : Nat, found : Seq(1..Len(events))]

\* Positions f that satisfy the first k steps but the first, one after another
\* and each within the window of the one before.
Linked(steps, events, W, f, k) ==
  /\ f \in Seq(1..Len(events)) /\ Len(f) = k
  /\ \A m \in 2..k : Satisfies(steps[m], events[f[m]])
  /\ \A m \in 1..(k - 1) : f[m] < f[m + 1] /\ events[f[m + 1]].time - events[f[m]].time <= W

Follows(events, W, i, j) == i < j /\ events[j].time - events[i].time <= W

\* One step more.
LEMMA LinkedOneMore ==
  ASSUME NEW events \in Seq(Event), NEW steps, NEW W \in Int, NEW k \in Nat \ {0},
         NEW f \in Seq(1..Len(events)), Linked(steps, events, W, f, k), NEW last, last = f[k], NEW step, step = steps[k + 1],
         NEW j \in 1..Len(events), Follows(events, W, last, j), Satisfies(step, events[j])
  PROVE  Linked(steps, events, W, Append(f, j), k + 1)
<1> DEFINE g == Append(f, j)
<1>1. f \in Seq(1..Len(events)) /\ Len(f) = k
  BY DEF Linked
<1>2. /\ g \in Seq(1..Len(events)) /\ Len(g) = k + 1 /\ g[k + 1] = j
      /\ \A m \in 1..k : g[m] = f[m]
  BY <1>1, AppendOne
<1> HIDE DEF g
<1>3. \A m \in 2..(k + 1) : Satisfies(steps[m], events[g[m]])
  <2> SUFFICES ASSUME NEW m \in 2..(k + 1) PROVE Satisfies(steps[m], events[g[m]])
    OBVIOUS
  <2>1. CASE m = k + 1
    BY <1>2, <2>1
  <2>2. CASE m # k + 1
    <3>1. m \in 2..k /\ m \in 1..k
      BY <2>2
    <3>2. QED
      BY <1>2, <3>1 DEF Linked
  <2>3. QED
    BY <2>1, <2>2
<1>4. \A m \in 1..k : g[m] < g[m + 1] /\ events[g[m + 1]].time - events[g[m]].time <= W
  <2> SUFFICES ASSUME NEW m \in 1..k PROVE g[m] < g[m + 1] /\ events[g[m + 1]].time - events[g[m]].time <= W
    OBVIOUS
  <2>1. CASE m = k
    BY <1>2, <2>1 DEF Follows
  <2>2. CASE m # k
    <3>1. m \in 1..(k - 1) /\ m + 1 \in 1..k /\ m \in 1..k
      BY <2>2
    <3>2. QED
      BY <1>2, <3>1 DEF Linked
  <2>3. QED
    BY <2>1, <2>2
<1>5. Linked(steps, events, W, g, k + 1)
  <2>1. \A m \in 1..(k + 1 - 1) : g[m] < g[m + 1] /\ events[g[m + 1]].time - events[g[m]].time <= W
    BY <1>4
  <2>2. QED
    BY <1>2, <1>3, <2>1 DEF Linked
<1>6. QED
  BY <1>5 DEF g

\* The chain from the event at i, after k of the further steps.
ChainUpTo(steps, events, W, i, k) ==
  {acc \in ChainState(events, W) :
     acc.ok => /\ Linked(steps, events, W, acc.found, k + 1)
               /\ acc.last = acc.found[k + 1] /\ acc.found[1] = i}

Longer(acc, j) == [acc EXCEPT !.last = j, !.found = Append(acc.found, j)]
RaisedIn(acc) == [Unmatched(acc) EXCEPT !.raised = TRUE]

\* The search for a step stops at j first.
StopsFirst(acc, step, j) == j \in Stops(acc, step) /\ \A k \in Stops(acc, step) : j <= k

\* How one step ends.
LEMMA ExtendEnds ==
  ASSUME NEW events \in Seq(Event), NEW W \in Int, NEW acc \in ChainState(events, W), NEW step, acc.ok,
         acc.last \in 1..Len(events)
  PROVE  \/ Extend(acc, step) = Unmatched(acc) /\ Stops(acc, step) = {}
         \/ \E j \in 1..Len(events) :
              /\ acc.last < j /\ StopsFirst(acc, step, j)
              /\ \/ events[j].time - events[acc.last].time > W /\ Extend(acc, step) = Unmatched(acc)
                 \/ /\ events[j].time - events[acc.last].time <= W
                    /\ \/ Satisfies(step, events[j]) /\ Extend(acc, step) = Longer(acc, j)
                       \/ Extend(acc, step) = RaisedIn(acc)
<1> DEFINE S == Stops(acc, step)
<1>1. acc.events = events /\ acc.window = W
  BY DEF ChainState
<1>2. S \subseteq (acc.last + 1)..Len(events)
  BY <1>1 DEF Stops
<1>3. CASE S = {}
  BY <1>3 DEF Extend
<1>4. CASE S # {}
  <2> DEFINE j == CHOOSE j \in S : \A k \in S : j <= k
  <2>1. \E x \in S : \A y \in S : x <= y
    <3>1. S \in SUBSET Nat
      BY <1>2
    <3> HIDE DEF S
    <3>2. QED
      BY <1>4, <3>1, Extending!LeastNumber
  <2>2. j \in S /\ \A k \in S : j <= k
    <3> HIDE DEF S
    <3>1. QED
      BY <2>1
  <2>3. Extend(acc, step) =
          IF TooLate(acc, j) THEN Unmatched(acc)
          ELSE IF Satisfies(step, acc.events[j]) THEN Longer(acc, j)
          ELSE RaisedIn(acc)
    BY <1>4 DEF Extend, Longer, RaisedIn
  <2> HIDE DEF j, S
  <2>4. j \in 1..Len(events) /\ acc.last < j
    BY <1>2, <2>2
  <2>5. events[j].time \in Int /\ events[acc.last].time \in Int
    BY <2>4, TimesAreNumbers DEF EventTimes
  <2>6. TooLate(acc, j) <=> events[j].time - events[acc.last].time > W
    BY <1>1 DEF TooLate
  <2>7. \/ events[j].time - events[acc.last].time > W /\ Extend(acc, step) = Unmatched(acc)
        \/ /\ events[j].time - events[acc.last].time <= W
           /\ \/ Satisfies(step, events[j]) /\ Extend(acc, step) = Longer(acc, j)
              \/ Extend(acc, step) = RaisedIn(acc)
    <3>1. CASE events[j].time - events[acc.last].time > W
      BY <2>3, <2>6, <3>1
    <3>2. CASE ~(events[j].time - events[acc.last].time > W)
      <4>1. events[j].time - events[acc.last].time <= W
        BY <2>5, <3>2
      <4>2. QED
        BY <1>1, <2>3, <2>6, <3>2, <4>1
    <3>3. QED
      BY <3>1, <3>2
  <2>8. QED
    BY <2>2, <2>4, <2>7 DEF S, StopsFirst
<1>5. QED
  BY <1>3, <1>4

\* A chain that is given up.
LEMMA UnmatchedEnds ==
  ASSUME NEW events, NEW W, NEW acc \in ChainState(events, W)
  PROVE  /\ Unmatched(acc) \in ChainState(events, W) /\ ~Unmatched(acc).ok
         /\ RaisedIn(acc) \in ChainState(events, W) /\ ~RaisedIn(acc).ok /\ RaisedIn(acc).raised
BY DEF Unmatched, RaisedIn, ChainState

\* It says nothing of what was found.
LEMMA BrokenChain ==
  ASSUME NEW events, NEW W, NEW steps, NEW i, NEW k, NEW acc \in ChainState(events, W), ~acc.ok
  PROVE  acc \in ChainUpTo(steps, events, W, i, k)
BY DEF ChainUpTo

\* A chain with one position more.
LEMMA LongerChain ==
  ASSUME NEW events, NEW W, NEW acc \in ChainState(events, W), NEW j \in 1..Len(events), Len(events) \in Nat
  PROVE  /\ Longer(acc, j) \in ChainState(events, W) /\ Longer(acc, j).ok = acc.ok
         /\ Longer(acc, j).last = j /\ Longer(acc, j).found = Append(acc.found, j)
<1> DEFINE g == Append(acc.found, j)
<1>1. g \in Seq(1..Len(events)) /\ j \in Nat
  BY DEF ChainState
<1>2. Longer(acc, j) = [acc EXCEPT !.last = j, !.found = g]
  BY DEF Longer
<1> HIDE DEF g
<1>3. Longer(acc, j) \in ChainState(events, W) /\ Longer(acc, j).ok = acc.ok /\ Longer(acc, j).last = j
      /\ Longer(acc, j).found = g
  BY <1>1, <1>2 DEF ChainState
<1>4. QED
  BY <1>3 DEF g

\* One further step of a chain.
LEMMA ExtendLinks ==
  ASSUME NEW events \in Seq(Event), NEW W \in Int, NEW steps, NEW i, NEW k \in Nat \ {0},
         NEW acc \in ChainUpTo(steps, events, W, i, k - 1)
  PROVE  Extend(acc, steps[k + 1]) \in ChainUpTo(steps, events, W, i, k)
<1>1. acc \in ChainState(events, W) /\ acc.ok \in BOOLEAN
  BY DEF ChainUpTo, ChainState
<1>2. CASE ~acc.ok
  <2>1. Extend(acc, steps[k + 1]) = Unmatched(acc)
    BY <1>2 DEF Extend
  <2>2. QED
    BY <1>1, <2>1, UnmatchedEnds, BrokenChain
<1>3. CASE acc.ok
  <2>1. /\ Linked(steps, events, W, acc.found, k) /\ acc.last = acc.found[k] /\ acc.found[1] = i
    <3>1. k - 1 + 1 = k
      OBVIOUS
    <3>2. QED
      BY <1>3, <3>1 DEF ChainUpTo
  <2>2. acc.last \in 1..Len(events) /\ acc.found \in Seq(1..Len(events))
    BY <2>1 DEF Linked
  <2>3. CASE Extend(acc, steps[k + 1]) = Unmatched(acc)
    BY <1>1, <2>3, UnmatchedEnds, BrokenChain
  <2>4. CASE Extend(acc, steps[k + 1]) = RaisedIn(acc)
    BY <1>1, <2>4, UnmatchedEnds, BrokenChain
  <2>5. CASE \E j \in 1..Len(events) :
               /\ acc.last < j /\ events[j].time - events[acc.last].time <= W
               /\ Satisfies(steps[k + 1], events[j])
               /\ Extend(acc, steps[k + 1]) = Longer(acc, j)
    <3>1. PICK j \in 1..Len(events) :
               /\ acc.last < j /\ events[j].time - events[acc.last].time <= W
               /\ Satisfies(steps[k + 1], events[j])
               /\ Extend(acc, steps[k + 1]) = Longer(acc, j)
      BY <2>5
    <3>0. PICK f : f = acc.found
      OBVIOUS
    <3> DEFINE new == Longer(acc, j)
    <3>2. Linked(steps, events, W, f, k) /\ Follows(events, W, f[k], j)
      BY <2>1, <3>0, <3>1 DEF Follows
    <3>8. Satisfies(steps[k + 1], events[j])
      BY <3>1
    <3>3. new \in ChainState(events, W) /\ new.last = j /\ new.found = Append(f, j)
      BY <1>1, <3>0, LongerChain
    <3> HIDE DEF new
    <3>4. Linked(steps, events, W, Append(f, j), k + 1) /\ Append(f, j)[k + 1] = j /\ Append(f, j)[1] = f[1]
      <4>1. f \in Seq(1..Len(events)) /\ Len(f) = k
        BY <3>2 DEF Linked
      <4>2. PICK last : last = f[k]
        OBVIOUS
      <4>3. PICK step : step = steps[k + 1]
        OBVIOUS
      <4>4. Follows(events, W, last, j) /\ Satisfies(step, events[j])
        BY <3>2, <3>8, <4>2, <4>3
      <4>5. Linked(steps, events, W, Append(f, j), k + 1)
        BY <3>2, <4>1, <4>2, <4>3, <4>4, LinkedOneMore
      <4>6. QED
        BY <4>1, <4>5, AppendOne
    <3>5. f[1] = i
      BY <2>1, <3>0
    <3>6. new \in ChainUpTo(steps, events, W, i, k)
      BY <3>3, <3>4, <3>5 DEF ChainUpTo
    <3>7. QED
      BY <3>1, <3>6 DEF new
  <2>6. QED
    BY <1>1, <1>3, <2>2, <2>3, <2>4, <2>5, ExtendEnds
<1>4. QED
  BY <1>1, <1>2, <1>3

FirstLink(events, W, i) ==
  [events |-> events, window |-> W, ok |-> TRUE, raised |-> FALSE, last |-> i, found |-> <<i>>]

\* The chain of one event.
LEMMA FirstLinkHolds ==
  ASSUME NEW events \in Seq(Event), NEW W \in Int, NEW i \in 1..Len(events), NEW steps
  PROVE  /\ FirstLink(events, W, i) \in ChainUpTo(steps, events, W, i, 0)
         /\ FirstLink(events, W, i) \in ChainState(events, W)
         /\ FirstLink(events, W, i).ok /\ FirstLink(events, W, i).last = i /\ FirstLink(events, W, i).found = <<i>>
<1> DEFINE acc == FirstLink(events, W, i)
<1>1. /\ acc \in ChainState(events, W) /\ acc.ok /\ acc.last = i /\ acc.found = <<i>>
  BY DEF FirstLink, ChainState
<1>2. Linked(steps, events, W, <<i>>, 1)
  BY DEF Linked
<1> HIDE DEF acc
<1>3. acc \in ChainUpTo(steps, events, W, i, 0)
  BY <1>1, <1>2 DEF ChainUpTo
<1>4. QED
  BY <1>1, <1>3 DEF acc

\* The chain from an event, when it is complete.
LEMMA ChainHolds ==
  ASSUME NEW U, NEW steps \in Seq(U), Len(steps) > 1, NEW events \in Seq(Event), NEW W \in Int,
         NEW i \in 1..Len(events)
  PROVE  /\ Chain(steps, events, i, W) \in ChainState(events, W)
         /\ Chain(steps, events, i, W).ok =>
              Linked(steps, events, W, Chain(steps, events, i, W).found, Len(steps)) /\
              Chain(steps, events, i, W).found[1] = i
<1> DEFINE t == Tail(steps)
           base == FirstLink(events, W, i)
           I == [k \in 0..Len(t) |-> ChainUpTo(steps, events, W, i, k)]
<1>1. t \in Seq(U) /\ Len(t) = Len(steps) - 1 /\ \A k \in 1..Len(t) : t[k] = steps[k + 1]
  OBVIOUS
<1> HIDE DEF t
<1>2. base \in I[0]
  BY <1>1, FirstLinkHolds
<1>3. ASSUME NEW k \in 1..Len(t), NEW acc \in I[k - 1] PROVE Extend(acc, t[k]) \in I[k]
  <2>1. k - 1 \in 0..Len(t) /\ k \in 0..Len(t) /\ k \in Nat \ {0} /\ t[k] = steps[k + 1]
    BY <1>1
  <2>2. acc \in ChainUpTo(steps, events, W, i, k - 1)
    BY <2>1
  <2>3. Extend(acc, steps[k + 1]) \in ChainUpTo(steps, events, W, i, k)
    BY <2>1, <2>2, ExtendLinks
  <2>4. QED
    BY <2>1, <2>3
<1>4. Extending!Fold(base, t) \in I[Len(t)]
  <2> HIDE DEF I, base
  <2>1. QED
    BY <1>1, <1>2, <1>3, Extending!FoldInvariant
<1>5. Chain(steps, events, i, W) = Extending!Fold(base, t)
  BY DEF Chain, FirstLink, t, Extending!Fold, Extending!FoldLeft, FoldLeft, Extending!MapThenFoldSet,
         MapThenFoldSet, Extending!Max, Max
<1>6. Len(t) \in 0..Len(t) /\ Len(t) + 1 = Len(steps)
  BY <1>1
<1> HIDE DEF base
<1>7. Chain(steps, events, i, W) \in ChainUpTo(steps, events, W, i, Len(t))
  BY <1>4, <1>5, <1>6
<1>8. QED
  BY <1>6, <1>7 DEF ChainUpTo

\* Of two steps one is left after the first.
LEMMA TailOfTwo ==
  ASSUME NEW U, NEW steps \in Seq(U), Len(steps) = 2
  PROVE  Tail(steps) = Append(<<>>, steps[2]) /\ steps[2] \in U
<1> DEFINE t == Tail(steps)
           u == Append(<<>>, steps[2])
<1>1. 2 \in 1..Len(steps)
  OBVIOUS
<1>2. steps[2] \in U
  BY <1>1
<1>3. t \in Seq(U) /\ Len(t) = 1 /\ t[1] = steps[2]
  <2>1. steps # <<>>
    BY EmptySeq
  <2>2. t \in Seq(U) /\ Len(t) = Len(steps) - 1 /\ \A i \in 1..Len(t) : t[i] = steps[i + 1]
    BY <2>1
  <2>3. QED
    BY <2>2
<1>4. u \in Seq(U) /\ Len(u) = 1 /\ u[1] = steps[2]
  BY <1>2
<1> HIDE DEF t, u
<1>5. t = u
  BY <1>3, <1>4, SeqEqual
<1>6. QED
  BY <1>2, <1>5 DEF t, u

\* With two steps the first candidate for the second one decides.
LEMMA TwoStepChain ==
  ASSUME NEW U, NEW steps \in Seq(U), Len(steps) = 2, NEW events \in Seq(Event), Ordered(events), NEW W \in Int,
         NEW i \in 1..Len(events), NEW j \in 1..Len(events), i < j,
         Satisfies(steps[2], events[j]), events[j].time - events[i].time <= W
  PROVE  Chain(steps, events, i, W).ok \/ Chain(steps, events, i, W).raised
<1> DEFINE base == FirstLink(events, W, i)
           c == Chain(steps, events, i, W)
<1>1. Tail(steps) = Append(<<>>, steps[2]) /\ steps[2] \in U
  BY TailOfTwo
<1>2. c = Extend(base, steps[2])
  <2>1. c = Extending!Fold(base, Tail(steps))
    BY DEF Chain, FirstLink, Extending!Fold, Extending!FoldLeft, FoldLeft, Extending!MapThenFoldSet,
           MapThenFoldSet, Extending!Max, Max
  <2> HIDE DEF base, c
  <2>2. Extending!Fold(base, <<>>) = base
    BY Extending!FoldEmpty
  <2>3. <<>> \in Seq(U)
    OBVIOUS
  <2>4. Extending!Fold(base, Append(<<>>, steps[2])) = Extend(Extending!Fold(base, <<>>), steps[2])
    BY <1>1, <2>3, Extending!FoldAppend
  <2>5. QED
    BY <1>1, <2>1, <2>2, <2>4
<1>3. base \in ChainState(events, W) /\ base.ok /\ base.last = i
  BY FirstLinkHolds
<1> HIDE DEF base, c
<1>4. base.events = events /\ base.window = W
  BY <1>3 DEF ChainState
<1>5. j \in Stops(base, steps[2])
  BY <1>3, <1>4 DEF Stops, Satisfies
<1>6. PICK m \in 1..Len(events) :
        /\ StopsFirst(base, steps[2], m)
        /\ \/ events[m].time - events[i].time > W
           \/ c = Longer(base, m)
           \/ c = RaisedIn(base)
  BY <1>2, <1>3, <1>5, ExtendEnds
<1>7. events[m].time <= events[j].time
  <2>1. m <= j
    BY <1>5, <1>6 DEF StopsFirst
  <2>2. m = j \/ m < j
    BY <2>1
  <2>3. events[m].time \in Int /\ events[j].time \in Int
    BY TimesAreNumbers DEF EventTimes
  <2>4. QED
    BY <2>2, <2>3 DEF Ordered
<1>8. ~(events[m].time - events[i].time > W)
  <2>1. events[m].time \in Int /\ events[j].time \in Int /\ events[i].time \in Int
    BY TimesAreNumbers DEF EventTimes
  <2>2. QED
    BY <1>7, <2>1
<1>9. CASE c = Longer(base, m)
  BY <1>3, <1>9, LongerChain DEF c
<1>10. CASE c = RaisedIn(base)
  BY <1>3, <1>10, UnmatchedEnds DEF c
<1>11. QED
  BY <1>6, <1>8, <1>9, <1>10

\* A function on the first n numbers is a sequence.
LEMMA FunctionIsSeq ==
  ASSUME NEW n \in Nat, NEW R, NEW s \in [1..n -> R]
  PROVE  s \in Seq(R) /\ Len(s) = n
OBVIOUS

\* The starts are the positions that satisfy the first step.
LEMMA StartsFound ==
  ASSUME NEW ast, NEW events \in Seq(Event)
  PROVE  /\ Starts(ast, events) \in Seq(1..Len(events))
         /\ Range(Starts(ast, events)) = {i \in 1..Len(events) : Satisfies(ast.children[1], events[i])}
<1> DEFINE n == Len(events)
           all == [i \in 1..n |-> i]
           S == {i \in 1..n : Satisfies(ast.children[1], events[i])}
<1>1. n \in Nat /\ DOMAIN events = 1..n
  OBVIOUS
<1>2. all \in Seq(1..n) /\ Range(all) = 1..n
  <2>1. all \in [1..n -> 1..n]
    OBVIOUS
  <2>2. QED
    BY <1>1, <2>1 DEF Range
<1>3. Starts(ast, events) = Only(all, S)
  BY <1>1 DEF Starts
<1> HIDE DEF all, S, n
<1>4. Only(all, S) \in Seq(1..n) /\ Range(Only(all, S)) = Range(all) \cap S
  BY <1>2, OnlyKeeps
<1>5. QED
  BY <1>2, <1>3, <1>4 DEF S, n

\* The steps of a sequence.
IsSequence(ast) ==
  ast.children \in Seq(Range(ast.children)) /\ Len(ast.children) > 1 /\ ast.value \in Nat

\* A complete chain, as positions.
CompleteChain(ast, events, f) ==
  /\ Linked(ast.children, events, Window(ast), f, Len(ast.children))
  /\ Satisfies(ast.children[1], events[f[1]])

\* The chain from the k-th start.
LEMMA ChainsComplete ==
  ASSUME NEW ast, NEW events \in Seq(Event), events # <<>> => IsSequence(ast), NEW k \in DOMAIN Starts(ast, events)
  PROVE  /\ Chains(ast, events)[k] = Chain(ast.children, events, Starts(ast, events)[k], Window(ast))
         /\ Chains(ast, events)[k].ok =>
              /\ Chains(ast, events)[k].found \in Seq(1..Len(events))
              /\ CompleteChain(ast, events, Chains(ast, events)[k].found)
              /\ Starts(ast, events)[k] \in Range(Chains(ast, events)[k].found)
<1> DEFINE steps == ast.children
           starts == Starts(ast, events)
           i == starts[k]
           c == Chain(steps, events, i, Window(ast))
<1>1. Chains(ast, events)[k] = c
  BY DEF Chains
<1>2. i \in 1..Len(events) /\ Satisfies(steps[1], events[i])
  <2>1. i \in Range(starts)
    BY DEF Range
  <2>2. QED
    BY <2>1, StartsFound
<1>3. IsSequence(ast)
  <2>1. Len(events) # 0
    BY <1>2
  <2>2. QED
    BY <2>1
<1>4. steps \in Seq(Range(steps)) /\ Len(steps) > 1 /\ Window(ast) \in Int
  BY <1>3, HuntAssumption DEF IsSequence, Window
<1> HIDE DEF i, starts, steps
<1>5. c.ok => Linked(steps, events, Window(ast), c.found, Len(steps)) /\ c.found[1] = i
  BY <1>2, <1>4, ChainHolds
<1> HIDE DEF c
<1>6. ASSUME c.ok
      PROVE  /\ c.found \in Seq(1..Len(events)) /\ CompleteChain(ast, events, c.found) /\ i \in Range(c.found)
  <2>1. c.found \in Seq(1..Len(events)) /\ Len(c.found) = Len(steps)
    BY <1>5, <1>6 DEF Linked
  <2>2. 1 \in DOMAIN c.found
    BY <1>4, <2>1
  <2>3. i \in Range(c.found)
    BY <1>5, <1>6, <2>2 DEF Range
  <2>4. CompleteChain(ast, events, c.found)
    BY <1>2, <1>5, <1>6 DEF CompleteChain, steps
  <2>5. QED
    BY <2>1, <2>3, <2>4
<1>7. QED
  BY <1>1, <1>6 DEF c, i, starts, steps

\* What a sequence hunt lists.
LEMMA HitsAreChains ==
  ASSUME NEW ast, NEW events \in Seq(Event), events # <<>> => IsSequence(ast)
  PROVE  /\ Listing(Hits(ast, events), 1..Len(events))
         /\ \A x \in Range(Hits(ast, events)) : \E f : CompleteChain(ast, events, f) /\ x \in Range(f)
         /\ \A k \in DOMAIN Starts(ast, events) :
              Chains(ast, events)[k].ok => Starts(ast, events)[k] \in Range(Hits(ast, events))
<1> DEFINE starts == Starts(ast, events)
           chains == Chains(ast, events)
           hits == Hits(ast, events)
<1>1. starts \in Seq(1..Len(events)) /\ DOMAIN starts = 1..Len(starts) /\ Len(starts) \in Nat
  BY StartsFound
<1>2. chains = [k \in DOMAIN starts |-> Chain(ast.children, events, starts[k], Window(ast))]
  BY DEF Chains
<1>3. hits = FoldLeft(AddHits, <<>>, chains)
  BY DEF Hits
<1>4. \A k \in 1..Len(starts) :
        chains[k].ok => /\ chains[k].found \in Seq(1..Len(events))
                        /\ CompleteChain(ast, events, chains[k].found)
                        /\ starts[k] \in Range(chains[k].found)
  BY <1>1, ChainsComplete
<1> HIDE DEF starts, chains, hits
<1>5. chains \in Seq(Range(chains)) /\ Len(chains) = Len(starts)
  <2>1. DOMAIN chains = 1..Len(starts) /\ chains \in [1..Len(starts) -> Range(chains)]
    BY <1>1, <1>2 DEF Range
  <2>2. QED
    BY <1>1, <2>1, FunctionIsSeq
<1>6. Listing(hits, 1..Len(events)) /\ Range(hits) = InChains(chains, Len(starts))
  BY <1>3, <1>4, <1>5, HitsListed
<1>7. ASSUME NEW x \in Range(hits) PROVE \E f : CompleteChain(ast, events, f) /\ x \in Range(f)
  <2>1. PICK k \in 1..Len(starts) : chains[k].ok /\ x \in Range(chains[k].found)
    BY <1>6 DEF InChains
  <2>2. QED
    BY <1>4, <2>1
<1>8. ASSUME NEW k \in DOMAIN starts, chains[k].ok PROVE starts[k] \in Range(hits)
  BY <1>1, <1>4, <1>6, <1>8 DEF InChains
<1>9. QED
  BY <1>6, <1>7, <1>8 DEF starts, chains, hits

\* With two steps every start of a chain is listed.
LEMMA HitsAreAll ==
  ASSUME NEW ast, NEW events \in Seq(Event), events # <<>> => IsSequence(ast), Ordered(events),
         Len(ast.children) = 2, ast.kind = "sequence", ~Raises(ast, events),
         NEW i \in 1..Len(events), NEW j \in 1..Len(events), i < j,
         Satisfies(ast.children[1], events[i]), Satisfies(ast.children[2], events[j]),
         events[j].time - events[i].time <= Window(ast)
  PROVE  i \in Range(Hits(ast, events))
<1> DEFINE starts == Starts(ast, events)
           c == Chain(ast.children, events, i, Window(ast))
<1>1. i \in Range(starts)
  BY StartsFound
<1>2. PICK k \in DOMAIN starts : starts[k] = i
  BY <1>1 DEF Range
<1>3. IsSequence(ast)
  <2>1. Len(events) # 0
    OBVIOUS
  <2>2. QED
    BY <2>1
<1>4. ast.children \in Seq(Range(ast.children)) /\ Window(ast) \in Int
  BY <1>3, HuntAssumption DEF IsSequence, Window
<1>5. c.ok \/ c.raised
  BY <1>4, TwoStepChain
<1>6. Chains(ast, events)[k] = c /\ Chains(ast, events)[k] \in Range(Chains(ast, events))
  <2>1. Chains(ast, events) = [m \in DOMAIN starts |-> Chain(ast.children, events, starts[m], Window(ast))]
    BY DEF Chains
  <2> HIDE DEF starts
  <2>2. DOMAIN Chains(ast, events) = DOMAIN starts
    BY <2>1
  <2>3. QED
    BY <1>2, <2>1, <2>2 DEF Range
<1>7. ~c.raised
  BY <1>6 DEF Raises
<1>8. QED
  BY <1>2, <1>5, <1>6, <1>7, HitsAreChains

-----------------------------------------------------------------------------
(* The endpoints                                                            *)

\* A query over stored events is one of those that are run over them.
Asked == typed # <<>> /\ table # <<>> => Query \in SequenceHunts

AnswerInv ==
  /\ answer.hunt \in Recorded \cup Unrecorded \cup {"none"}
  /\ answer.items \in Seq(Event) /\ OwnTenantOnly
  /\ SearchesAreExact /\ SequencesExact

HuntInv ==
  /\ typed \in Seq(Phrases) /\ saved \in Nat
  /\ answered \in Seq(Recorded \cup Unrecorded) /\ QueriesRecorded
  /\ Asked /\ AnswerInv

TelemetryInv == FeedInv /\ HuntInv

\* An answer that keeps AnswerInv.
SearchHunts == {"structured", "ioc", "auth history"}

ExactSearch(items, search) ==
  items = FirstOf(Only(load_window, {e \in ToSet(load_window) : Passes(e, search)}), ClampLimit(search.limit))

RealChains(items) ==
  Parse(Query).node.kind = "sequence" =>
    /\ \A e \in Range(items) : \E c \in ChainsOf(Parse(Query).node) : e \in Range(c)
    /\ IsInjective(items)
    /\ Len(Parse(Query).node.children) = 2 =>
         \A c \in ChainsOf(Parse(Query).node) : c[1] \in Range(items)

GoodAnswer(hunt, items, search) ==
  /\ hunt \in Recorded \cup Unrecorded
  /\ items \in Seq(Event) /\ \A e \in Range(items) : e.tenant = "own"
  /\ hunt \in SearchHunts => ExactSearch(items, search)
  /\ hunt = "blueql" => RealChains(items)

\* A record for an answer that has one.
LEMMA RecordKept ==
  ASSUME HuntInv, NEW hunt \in Recorded \cup Unrecorded, NEW items, NEW search,
         Answers(hunt, items, search), Audit(hunt)
  PROVE  QueriesRecorded' /\ saved' \in Nat /\ answered' \in Seq(Recorded \cup Unrecorded)
<1> DEFINE H == Recorded \cup Unrecorded
<1>1. /\ answered \in Seq(H) /\ audited = Only(answered, Recorded) /\ saved = Len(Only(audited, {"save"}))
      /\ saved \in Nat
  BY DEF HuntInv, QueriesRecorded
<1>2. /\ answered' = Append(answered, hunt)
      /\ saved' = IF hunt = "save" THEN saved + 1 ELSE saved
      /\ audited' = IF hunt \in Recorded THEN Append(audited, hunt) ELSE audited
  BY DEF Answers, Audit
<1>3. hunt \in H
  OBVIOUS
<1>4. hunt = "save" => hunt \in Recorded
  BY DEF Recorded
<1> HIDE DEF H
<1>5. audited' = Only(answered', Recorded)
  BY <1>1, <1>2, <1>3, OnlyAppend
<1>6. audited \in Seq(H)
  BY <1>1, OnlyKeeps
<1>7. saved' = Len(Only(audited', {"save"}))
  <2>1. Only(audited, {"save"}) \in Seq(H)
    BY <1>6, OnlyKeeps
  <2>2. Only(Append(audited, hunt), {"save"}) =
          IF hunt \in {"save"} THEN Append(Only(audited, {"save"}), hunt) ELSE Only(audited, {"save"})
    BY <1>3, <1>6, OnlyAppend
  <2>3. Len(Append(Only(audited, {"save"}), hunt)) = Len(Only(audited, {"save"})) + 1
    BY <1>3, <2>1, AppendOne
  <2>4. CASE hunt = "save"
    BY <1>1, <1>2, <1>4, <2>2, <2>3, <2>4
  <2>5. CASE hunt # "save" /\ hunt \in Recorded
    BY <1>1, <1>2, <2>2, <2>5
  <2>6. CASE hunt \notin Recorded
    BY <1>1, <1>2, <1>4, <2>6
  <2>7. QED
    BY <2>4, <2>5, <2>6
<1>8. saved' \in Nat
  BY <1>1, <1>2
<1>9. answered' \in Seq(H)
  BY <1>1, <1>2, <1>3
<1>10. QED
  BY <1>5, <1>7, <1>8, <1>9 DEF QueriesRecorded, H

\* A good answer keeps the invariant of the hunts.
LEMMA AnswersKeep ==
  ASSUME HuntInv, NEW hunt, NEW items, NEW search, GoodAnswer(hunt, items, search),
         Answers(hunt, items, search), Audit(hunt)
  PROVE  HuntInv'
<1>1. hunt \in Recorded \cup Unrecorded
  BY DEF GoodAnswer
<1>2. QueriesRecorded' /\ saved' \in Nat /\ answered' \in Seq(Recorded \cup Unrecorded)
  BY <1>1, RecordKept
<1>3. UNCHANGED <<typed, table, columns, minted>> /\ answer' = [hunt |-> hunt, items |-> items, search |-> search]
  BY DEF Answers
<1>4. answer'.hunt = hunt /\ answer'.items = items /\ answer'.search = search
  BY <1>3
<1>5. load_window' = load_window /\ Query' = Query
  BY <1>3 DEF load_window, Query
<1>6. Asked' /\ typed' \in Seq(Phrases)
  BY <1>3, <1>5 DEF HuntInv, Asked
<1>7. OwnTenantOnly'
  BY <1>4 DEF GoodAnswer, OwnTenantOnly
<1>8. SearchesAreExact'
  <2>1. hunt \in SearchHunts => ExactSearch(items, search)
    BY DEF GoodAnswer
  <2>2. QED
    BY <1>4, <1>5, <2>1 DEF SearchesAreExact, SearchHunts, ExactSearch, FirstOf
<1>9. SequencesExact'
  <2>1. hunt = "blueql" => RealChains(items)
    BY DEF GoodAnswer
  <2>2. \A ast : ChainsOf(ast)' = ChainsOf(ast)
    BY <1>5 DEF ChainsOf
  <2>3. RanSequence' <=> hunt = "blueql" /\ Parse(Query).node.kind = "sequence"
    BY <1>4, <1>5 DEF RanSequence
  <2>4. SequencesAreReal'
    BY <1>4, <1>5, <2>1, <2>2, <2>3 DEF SequencesAreReal, RealChains
  <2>5. TwoStepsComplete'
    BY <1>4, <1>5, <2>1, <2>2, <2>3 DEF TwoStepsComplete, RealChains
  <2>6. QED
    BY <2>4, <2>5 DEF SequencesExact
<1>10. AnswerInv'
  BY <1>1, <1>4, <1>7, <1>8, <1>9 DEF AnswerInv, GoodAnswer
<1>11. QED
  BY <1>2, <1>6, <1>10 DEF HuntInv

\* What load_window gives in a reachable state.
LEMMA WindowHolds ==
  ASSUME FeedInv
  PROVE  /\ IsWindow(load_window, Range(table)) /\ load_window \in Seq(Event)
         /\ \A e \in Range(load_window) : e.tenant = "own"
         /\ table = <<>> => load_window = <<>>
<1>1. table \in Seq(Event) /\ IdsDiffer(table)
  BY DEF FeedInv, FedInv, TableOK
<1>2. IsInjective(table)
  BY <1>1 DEF IdsDiffer, IsInjective
<1>3. IsWindow(load_window, Range(table))
  BY <1>1, <1>2, LoadsWindow
<1>4. load_window \in Seq(Event) /\ Range(load_window) \subseteq {e \in Range(table) : e.tenant = "own"}
  BY <1>3 DEF IsWindow
<1>5. ASSUME table = <<>> PROVE load_window = <<>>
  <2>1. Range(table) = {}
    BY <1>5 DEF Range
  <2>2. \A i \in 1..Len(load_window) : load_window[i] \in Range(load_window)
    BY <1>4 DEF Range
  <2>3. 1 \notin 1..Len(load_window) /\ Len(load_window) \in Nat
    BY <1>4, <2>1, <2>2
  <2>4. Len(load_window) = 0
    BY <2>3
  <2>5. QED
    BY <1>4, <2>4
<1>6. QED
  BY <1>3, <1>4, <1>5

\* Structured searches and lookups answer well ...
LEMMA SearchAnswers ==
  ASSUME FeedInv, NEW hunt \in SearchHunts, NEW search, search.limit \in Int
  PROVE  GoodAnswer(hunt, structured_search(search), search)
<1> DEFINE S == {e \in ToSet(load_window) : Passes(e, search)}
           all == Only(load_window, S)
           c == ClampLimit(search.limit)
<1>1. load_window \in Seq(Event) /\ \A e \in Range(load_window) : e.tenant = "own"
  BY WindowHolds
<1>2. structured_search(search) = FirstOf(all, c)
  BY <1>1, SearchIsExact
<1>3. ExactSearch(structured_search(search), search)
  BY <1>2 DEF ExactSearch
<1>4. c \in Nat
  BY ClampIsNumber
<1> HIDE DEF S, c
<1>5. all \in Seq(Event) /\ Range(all) \subseteq Range(load_window)
  BY <1>1, OnlyKeeps
<1> HIDE DEF all
<1>6. FirstOf(all, c) \in Seq(Event) /\ Range(FirstOf(all, c)) \subseteq Range(all)
  BY <1>4, <1>5, FirstOfRange
<1>7. hunt # "blueql" /\ hunt \in Recorded
  BY DEF SearchHunts, Recorded
<1>8. QED
  BY <1>1, <1>2, <1>3, <1>5, <1>6, <1>7 DEF GoodAnswer

\* A selection of the window, or of the tenant's rows in ClickHouse.
LEMMA SelectionAnswers ==
  ASSUME NEW hunt \in (Recorded \cup Unrecorded) \ (SearchHunts \cup {"blueql"}), NEW items \in Seq(Event), NEW search,
         \A e \in Range(items) : e.tenant = "own"
  PROVE  GoodAnswer(hunt, items, search)
BY DEF GoodAnswer

\* ... and so does an answer without events, ...
LEMMA NothingAnswers ==
  ASSUME NEW hunt \in (Recorded \cup Unrecorded) \ (SearchHunts \cup {"blueql"}), NEW search
  PROVE  GoodAnswer(hunt, <<>>, search)
<1>1. <<>> \in Seq(Event) /\ Range(<<>>) = {}
  BY DEF Range
<1>2. QED
  BY <1>1, SelectionAnswers

\* ... an SQL hunt on either backend ...
LEMMA SqlAnswers ==
  ASSUME FeedInv, NEW params, NEW backend
  PROVE  GoodAnswer("sql", SqlRows(Bound(params), backend), NoSearch)
<1>1. columns \in Seq(Event) /\ load_window \in Seq(Event) /\ \A e \in Range(load_window) : e.tenant = "own"
  BY WindowHolds DEF FeedInv, FedInv, FeedTypes
<1>2. Bound(params).tenant = "own"
  BY DEF Bound
<1>3. ASSUME NEW rows \in Seq(Event), NEW bound
      PROVE  Selected(rows, bound) \in Seq(Event) /\ Range(Selected(rows, bound)) \subseteq Range(rows)
  <2> DEFINE hits == Only(rows, {e \in ToSet(rows) : e.facts # {}})
  <2>1. hits \in Seq(Event) /\ Range(hits) \subseteq Range(rows)
    BY OnlyKeeps
  <2>2. Selected(rows, bound) = hits \/ Selected(rows, bound) = <<>>
    BY DEF Selected
  <2> HIDE DEF hits
  <2>3. <<>> \in Seq(Event) /\ Range(<<>>) = {}
    BY DEF Range
  <2>4. QED
    BY <2>1, <2>2, <2>3
<1> DEFINE own == Only(columns, {e \in ToSet(columns) : e.tenant = Bound(params).tenant})
<1>4. own \in Seq(Event) /\ \A e \in Range(own) : e.tenant = "own"
  <2>1. Range(own) = Range(columns) \cap {e \in ToSet(columns) : e.tenant = Bound(params).tenant}
        /\ own \in Seq(Event)
    BY <1>1, OnlyKeeps
  <2>2. QED
    BY <1>2, <2>1
<1>5. \/ SqlRows(Bound(params), backend) = Selected(own, Bound(params))
      \/ SqlRows(Bound(params), backend) = Selected(load_window, Bound(params))
  BY DEF SqlRows
<1> HIDE DEF own
<1>6. /\ SqlRows(Bound(params), backend) \in Seq(Event)
      /\ \A e \in Range(SqlRows(Bound(params), backend)) : e.tenant = "own"
  <2>1. CASE SqlRows(Bound(params), backend) = Selected(own, Bound(params))
    BY <1>3, <1>4, <2>1
  <2>2. CASE SqlRows(Bound(params), backend) = Selected(load_window, Bound(params))
    BY <1>1, <1>3, <2>2
  <2>3. QED
    BY <1>5, <2>1, <2>2
<1>7. "sql" \in (Recorded \cup Unrecorded) \ (SearchHunts \cup {"blueql"})
  BY DEF Recorded, SearchHunts
<1>8. QED
  BY <1>6, <1>7, SelectionAnswers

\* The events at the positions that were found.
LEMMA EventsAt ==
  ASSUME NEW events \in Seq(Event), NEW hits \in Seq(1..Len(events))
  PROVE  /\ [k \in DOMAIN hits |-> events[hits[k]]] \in Seq(Event)
         /\ Range([k \in DOMAIN hits |-> events[hits[k]]]) = {events[i] : i \in Range(hits)}
         /\ Range([k \in DOMAIN hits |-> events[hits[k]]]) \subseteq Range(events)
         /\ IsInjective(hits) /\ IsInjective(events) => IsInjective([k \in DOMAIN hits |-> events[hits[k]]])
<1> DEFINE items == [k \in DOMAIN hits |-> events[hits[k]]]
<1>1. DOMAIN hits = 1..Len(hits) /\ Len(hits) \in Nat /\ \A k \in DOMAIN hits : hits[k] \in 1..Len(events)
  OBVIOUS
<1>2. DOMAIN items = DOMAIN hits /\ \A k \in DOMAIN hits : items[k] = events[hits[k]] /\ items[k] \in Event
  BY <1>1
<1>3. items \in [1..Len(hits) -> Event]
  BY <1>1, <1>2
<1> HIDE DEF items
<1>4. items \in Seq(Event)
  BY <1>1, <1>3, FunctionIsSeq
<1>5. Range(items) = {events[i] : i \in Range(hits)}
  BY <1>2 DEF Range
<1>6. Range(items) \subseteq Range(events)
  <2>1. DOMAIN events = 1..Len(events)
    OBVIOUS
  <2>2. QED
    BY <1>1, <1>2, <2>1 DEF Range
<1>7. IsInjective(hits) /\ IsInjective(events) => IsInjective(items)
  <2>1. DOMAIN events = 1..Len(events)
    OBVIOUS
  <2>2. QED
    BY <1>1, <1>2, <2>1 DEF IsInjective
<1>8. QED
  BY <1>4, <1>5, <1>6, <1>7 DEF items

\* A complete chain of positions is a chain of events of the window.
LEMMA ChainOfEvents ==
  ASSUME load_window \in Seq(Event), NEW ast, IsSequence(ast), NEW f, CompleteChain(ast, load_window, f)
  PROVE  \E c \in ChainsOf(ast) : \A i \in Range(f) : load_window[i] \in Range(c)
<1>1. PICK events : events = load_window
  OBVIOUS
<1>2. PICK n : n = Len(ast.children)
  OBVIOUS
<1>3. PICK steps : steps = ast.children
  OBVIOUS
<1> DEFINE c == [k \in 1..n |-> events[f[k]]]
<1>4. n \in Nat /\ n > 1 /\ DOMAIN steps = 1..n
  BY <1>2, <1>3 DEF IsSequence
<1>5. /\ f \in Seq(1..Len(events)) /\ Len(f) = n
      /\ \A m \in 2..n : Satisfies(steps[m], events[f[m]])
      /\ \A m \in 1..(n - 1) : f[m] < f[m + 1] /\ events[f[m + 1]].time - events[f[m]].time <= Window(ast)
      /\ Satisfies(steps[1], events[f[1]])
  BY <1>1, <1>2, <1>3 DEF CompleteChain, Linked
<1>6. events \in Seq(Event) /\ DOMAIN events = 1..Len(events)
  BY <1>1
<1>7. DOMAIN f = 1..n /\ \A k \in 1..n : f[k] \in DOMAIN events
  BY <1>4, <1>5, <1>6
<1>8. c \in [1..n -> Range(events)] /\ \A k \in 1..n : c[k] = events[f[k]]
  BY <1>7 DEF Range
<1> HIDE DEF c
<1>9. Len(c) = n
  BY <1>4, <1>8, FunctionIsSeq
<1>10. IsChain(ast, c)
  <2>1. \A k \in DOMAIN ast.children : Satisfies(ast.children[k], c[k])
    <3> SUFFICES ASSUME NEW k \in 1..n PROVE Satisfies(steps[k], events[f[k]])
      BY <1>3, <1>4, <1>8
    <3>1. CASE k = 1
      BY <1>5, <3>1
    <3>2. CASE k # 1
      <4>1. k \in 2..n
        BY <1>4, <3>2
      <4>2. QED
        BY <1>5, <4>1
    <3>3. QED
      BY <3>1, <3>2
  <2>2. \A k \in 1..(Len(c) - 1) : c[k + 1].time - c[k].time <= Window(ast)
    <3> SUFFICES ASSUME NEW k \in 1..(n - 1) PROVE c[k + 1].time - c[k].time <= Window(ast)
      BY <1>9
    <3>1. k \in 1..n /\ k + 1 \in 1..n
      BY <1>4
    <3>2. QED
      BY <1>5, <1>8, <3>1
  <2>3. QED
    BY <2>1, <2>2 DEF IsChain
<1>11. \A k \in 1..(n - 1) : \E i, j \in DOMAIN events : i < j /\ events[i] = c[k] /\ events[j] = c[k + 1]
  <2> SUFFICES ASSUME NEW k \in 1..(n - 1)
               PROVE  \E i, j \in DOMAIN events : i < j /\ events[i] = c[k] /\ events[j] = c[k + 1]
    OBVIOUS
  <2>1. k \in 1..n /\ k + 1 \in 1..n
    BY <1>4
  <2>2. f[k] \in DOMAIN events /\ f[k + 1] \in DOMAIN events /\ f[k] < f[k + 1]
    BY <1>5, <1>7, <2>1
  <2>3. QED
    BY <1>8, <2>1, <2>2
<1>12. c \in ChainsOf(ast)
  BY <1>1, <1>2, <1>8, <1>10, <1>11 DEF ChainsOf
<1>13. \A i \in Range(f) : load_window[i] \in Range(c)
  BY <1>1, <1>7, <1>8 DEF Range
<1>14. QED
  BY <1>12, <1>13

\* ... and a BlueQL query that does not raise.
LEMMA BlueqlAnswers ==
  ASSUME TelemetryInv, Parse(Query).ok, ~Raises(Parse(Query).node, load_window)
  PROVE  LET hits == execute(Parse(Query).node, load_window)
         IN  GoodAnswer("blueql", [k \in DOMAIN hits |-> load_window[hits[k]]], NoSearch)
<1>1. PICK events : events = load_window
  OBVIOUS
<1>2. PICK ast : ast = Parse(Query).node
  OBVIOUS
<1> DEFINE hits == execute(ast, events)
           items == [k \in DOMAIN hits |-> events[hits[k]]]
<1>3. /\ events \in Seq(Event) /\ Ordered(events) /\ IsInjective(events)
      /\ \A e \in Range(events) : e.tenant = "own"
  BY <1>1, WindowHolds DEF TelemetryInv, IsWindow
<1>4. ast.kind = "sequence" /\ events # <<>> => IsSequence(ast)
  <2> SUFFICES ASSUME ast.kind = "sequence", events # <<>> PROVE IsSequence(ast)
    OBVIOUS
  <2>1. table # <<>>
    BY <1>1, WindowHolds DEF TelemetryInv
  <2>2. typed # <<>>
    <3>1. SUFFICES ASSUME typed = <<>> PROVE FALSE
      OBVIOUS
    <3>2. Len(typed) = 0
      BY <3>1
    <3>3. Query = <<>>
      BY <3>1, <3>2 DEF Query, FlattenSeq
    <3>4. QED
      BY <3>3, LanguageAssumption
  <2>3. Query \in SequenceHunts
    BY <2>1, <2>2 DEF TelemetryInv, HuntInv, Asked
  <2>4. QED
    BY <1>2, <2>3, LanguageAssumption DEF IsSequence
<1>5. /\ hits \in Seq(1..Len(events))
      /\ ast.kind = "sequence" => hits = Hits(ast, events) /\ IsInjective(hits)
  <2>1. CASE ast.kind = "sequence"
    <3>1. hits = Hits(ast, events)
      BY <2>1 DEF execute
    <3>2. Listing(Hits(ast, events), 1..Len(events))
      BY <1>3, <1>4, <2>1, HitsAreChains
    <3>3. QED
      BY <3>1, <3>2 DEF Listing
  <2>2. CASE ast.kind # "sequence"
    BY <1>3, <2>2, StartsFound DEF execute
  <2>3. QED
    BY <2>1, <2>2
<1> HIDE DEF hits
<1>6. /\ items \in Seq(Event) /\ Range(items) = {events[i] : i \in Range(hits)}
      /\ Range(items) \subseteq Range(events) /\ (IsInjective(hits) => IsInjective(items))
  BY <1>3, <1>5, EventsAt
<1> HIDE DEF items
<1>7. \A e \in Range(items) : e.tenant = "own"
  BY <1>3, <1>6
<1>8. RealChains(items)
  <2> SUFFICES ASSUME ast.kind = "sequence"
               PROVE  /\ \A e \in Range(items) : \E c \in ChainsOf(ast) : e \in Range(c)
                      /\ IsInjective(items)
                      /\ Len(ast.children) = 2 => \A c \in ChainsOf(ast) : c[1] \in Range(items)
    BY <1>2 DEF RealChains
  <2>1. ASSUME NEW e \in Range(items) PROVE \E c \in ChainsOf(ast) : e \in Range(c)
    <3>1. PICK i \in Range(hits) : e = events[i]
      BY <1>6
    <3>2. i \in 1..Len(events)
      BY <1>5 DEF Range
    <3>3. IsSequence(ast)
      <4>1. Len(events) # 0
        BY <3>2
      <4>2. QED
        BY <1>4, <4>1
    <3>4. PICK f : CompleteChain(ast, events, f) /\ i \in Range(f)
      BY <1>3, <1>4, <1>5, <3>1, HitsAreChains
    <3>5. PICK c \in ChainsOf(ast) : \A m \in Range(f) : load_window[m] \in Range(c)
      BY <1>1, <1>3, <3>3, <3>4, ChainOfEvents
    <3>6. QED
      BY <1>1, <3>1, <3>4, <3>5
  <2>2. IsInjective(items)
    BY <1>5, <1>6
  <2>3. ASSUME Len(ast.children) = 2, NEW c \in ChainsOf(ast) PROVE c[1] \in Range(items)
    <3>1. /\ IsChain(ast, c) /\ c \in [1..2 -> Range(events)]
          /\ \E i, j \in DOMAIN events : i < j /\ events[i] = c[1] /\ events[j] = c[2]
      BY <1>1, <2>3 DEF ChainsOf
    <3>2. PICK i \in DOMAIN events, j \in DOMAIN events : i < j /\ events[i] = c[1] /\ events[j] = c[2]
      BY <3>1
    <3>3. i \in 1..Len(events) /\ j \in 1..Len(events)
      BY <1>3
    <3>4. IsSequence(ast)
      <4>1. Len(events) # 0
        BY <3>3
      <4>2. QED
        BY <1>4, <4>1
    <3>5. 1 \in DOMAIN ast.children /\ 2 \in DOMAIN ast.children
      BY <2>3, <3>4 DEF IsSequence
    <3>6. Len(c) = 2
      BY <3>1, FunctionIsSeq
    <3>7. Satisfies(ast.children[1], c[1]) /\ Satisfies(ast.children[2], c[2]) /\ c[2].time - c[1].time <= Window(ast)
      BY <3>1, <3>5, <3>6 DEF IsChain
    <3>8. i \in Range(Hits(ast, events))
      BY <1>1, <1>2, <1>3, <2>3, <3>2, <3>3, <3>4, <3>7, HitsAreAll
    <3>9. QED
      BY <1>5, <1>6, <3>2, <3>8
  <2>4. QED
    BY <2>1, <2>2, <2>3
<1>9. "blueql" \in Recorded /\ "blueql" \notin SearchHunts
  BY DEF Recorded, SearchHunts
<1>10. GoodAnswer("blueql", items, NoSearch)
  BY <1>6, <1>7, <1>8, <1>9 DEF GoodAnswer
<1>11. QED
  BY <1>1, <1>2, <1>10 DEF hits, items

\* Without an answer there is nothing to say of it, before ...
LEMMA NoAnswerYet ==
  ASSUME answer = NoAnswer
  PROVE  AnswerInv
<1>1. answer.hunt = "none" /\ answer.items = <<>>
  BY DEF NoAnswer
<1>2. <<>> \in Seq(Event) /\ Range(<<>>) = {}
  BY DEF Range
<1>3. ~RanSequence /\ "none" \notin {"structured", "ioc", "auth history"}
  BY <1>1 DEF RanSequence
<1>4. SequencesExact
  BY <1>3 DEF SequencesExact, SequencesAreReal, TwoStepsComplete
<1>5. SearchesAreExact
  BY <1>1, <1>3 DEF SearchesAreExact
<1>6. QED
  BY <1>1, <1>2, <1>4, <1>5 DEF AnswerInv, OwnTenantOnly

\* ... and after a step.
LEMMA StillNoAnswer ==
  ASSUME answer' = NoAnswer
  PROVE  AnswerInv'
<1>1. answer'.hunt = "none" /\ answer'.items = <<>>
  BY DEF NoAnswer
<1>2. <<>> \in Seq(Event) /\ Range(<<>>) = {}
  BY DEF Range
<1>3. ~RanSequence' /\ "none" \notin {"structured", "ioc", "auth history"}
  BY <1>1 DEF RanSequence
<1>4. SequencesExact'
  BY <1>3 DEF SequencesExact, SequencesAreReal, TwoStepsComplete
<1>5. SearchesAreExact'
  BY <1>1, <1>3 DEF SearchesAreExact
<1>6. QED
  BY <1>1, <1>2, <1>4, <1>5 DEF AnswerInv, OwnTenantOnly

\* The log of the queries when none is answered.
LEMMA LogUnchanged ==
  ASSUME HuntInv, UNCHANGED <<saved, audited, answered>>
  PROVE  saved' \in Nat /\ answered' \in Seq(Recorded \cup Unrecorded) /\ QueriesRecorded'
BY DEF HuntInv, QueriesRecorded

\* Typing, and the ingestion of other events.
LEMMA TypeKeeps ==
  ASSUME TelemetryInv, UNCHANGED feedVars, NEW phrase \in Phrases, Type(phrase)
  PROVE  TelemetryInv'
<1>1. /\ UNCHANGED <<table, columns, minted, answer, saved, audited, answered>> /\ table = <<>>
      /\ answer = NoAnswer /\ typed' = Append(typed, phrase)
  BY DEF Type
<1>2. FeedInv'
  BY <1>1, SameTables DEF TelemetryInv
<1>3. AnswerInv'
  BY <1>1, StillNoAnswer
<1>4. typed' \in Seq(Phrases) /\ Asked'
  BY <1>1 DEF TelemetryInv, HuntInv, Asked
<1>5. saved' \in Nat /\ answered' \in Seq(Recorded \cup Unrecorded) /\ QueriesRecorded'
  BY <1>1, LogUnchanged DEF TelemetryInv
<1>6. QED
  BY <1>2, <1>3, <1>4, <1>5 DEF TelemetryInv, HuntInv

LEMMA StoreKeeps ==
  ASSUME TelemetryInv, UNCHANGED feedVars, requests = 0,
         NEW row \in TableRows \cup WindowRows, NEW time \in Times, Store(row, time)
  PROVE  TelemetryInv'
<1>1. /\ UNCHANGED <<typed, answer, saved, audited, answered>> /\ answer = NoAnswer
      /\ typed # <<>> => Query \in SequenceHunts
  BY DEF Store
<1>2. FeedInv'
  BY StoreKeepsFeeds DEF TelemetryInv
<1>3. AnswerInv'
  BY <1>1, StillNoAnswer
<1>4. typed' \in Seq(Phrases) /\ Asked'
  <2>1. Query' = Query
    BY <1>1 DEF Query
  <2>2. QED
    BY <1>1, <2>1 DEF TelemetryInv, HuntInv, Asked
<1>5. saved' \in Nat /\ answered' \in Seq(Recorded \cup Unrecorded) /\ QueriesRecorded'
  BY <1>1, LogUnchanged DEF TelemetryInv
<1>6. QED
  BY <1>2, <1>3, <1>4, <1>5 DEF TelemetryInv, HuntInv

\* Every answer.
LEMMA AnswerKeeps ==
  ASSUME TelemetryInv, UNCHANGED feedVars, NEW hunt, NEW items, NEW search, GoodAnswer(hunt, items, search),
         Answers(hunt, items, search), Audit(hunt)
  PROVE  TelemetryInv'
<1>1. HuntInv'
  BY AnswersKeep DEF TelemetryInv
<1>2. UNCHANGED <<table, columns, minted>>
  BY DEF Answers
<1>3. FeedInv'
  BY <1>2, SameTables DEF TelemetryInv
<1>4. QED
  BY <1>1, <1>3 DEF TelemetryInv

\* The analyst's steps keep the invariant ...
LEMMA HuntingKeeps ==
  ASSUME TelemetryInv, Hunting
  PROVE  TelemetryInv'
<1>1. UNCHANGED feedVars /\ HuntNext /\ answer = NoAnswer /\ (requests = 0 \/ answer' # answer)
  BY DEF Hunting
<1>2. FeedInv /\ load_window \in Seq(Event) /\ \A e \in Range(load_window) : e.tenant = "own"
  BY WindowHolds DEF TelemetryInv
<1> DEFINE Others == (Recorded \cup Unrecorded) \ (SearchHunts \cup {"blueql"})
<1>3. {"validate", "sql", "sessions", "process tree", "entity", "save", "saved", "export"} \subseteq Others
  BY DEF Recorded, Unrecorded, SearchHunts
<1>4. LookupLimit \in Int /\ Limits \subseteq Int
  BY HuntAssumption
<1> HIDE DEF Others
<1>5. CASE \E phrase \in Phrases : Type(phrase)
  BY <1>1, <1>5, TypeKeeps
<1>6. CASE \E row \in TableRows \cup WindowRows, time \in Times : Store(row, time)
  <2>1. answer' = answer
    BY <1>6 DEF Store
  <2>2. QED
    BY <1>1, <1>6, <2>1, StoreKeeps
<1>7. CASE \E dry_run \in BOOLEAN : RunBlueql(dry_run)
  <2>1. CASE Answers("validate", <<>>, NoSearch) /\ Audit("validate")
    <3>1. GoodAnswer("validate", <<>>, NoSearch)
      BY <1>3, NothingAnswers DEF Others
    <3>2. QED
      BY <1>1, <2>1, <3>1, AnswerKeeps
  <2>2. CASE LET hits == execute(Parse(Query).node, load_window)
             IN  /\ Parse(Query).ok /\ ~Raises(Parse(Query).node, load_window)
                 /\ Answers("blueql", [k \in DOMAIN hits |-> load_window[hits[k]]], NoSearch)
                 /\ Audit("blueql")
    <3> DEFINE hits == execute(Parse(Query).node, load_window)
               items == [k \in DOMAIN hits |-> load_window[hits[k]]]
    <3>1. GoodAnswer("blueql", items, NoSearch)
      BY <2>2, BlueqlAnswers
    <3>2. Answers("blueql", items, NoSearch) /\ Audit("blueql")
      BY <2>2
    <3> HIDE DEF hits, items
    <3>3. QED
      BY <1>1, <3>1, <3>2, AnswerKeeps
  <2>3. QED
    BY <1>7, <2>1, <2>2 DEF RunBlueql
<1>8. CASE \E params \in Params, backend \in {"clickhouse", "sqlite"} : RunSql(params, backend)
  <2>1. PICK params \in Params, backend \in {"clickhouse", "sqlite"} : RunSql(params, backend)
    BY <1>8
  <2>2. GoodAnswer("sql", SqlRows(Bound(params), backend), NoSearch)
    BY <1>2, SqlAnswers
  <2>3. Answers("sql", SqlRows(Bound(params), backend), NoSearch) /\ Audit("sql")
    BY <2>1 DEF RunSql
  <2>4. QED
    BY <1>1, <2>2, <2>3, AnswerKeeps
<1>9. CASE \E search \in Searches : RunStructured(search)
  <2>1. PICK search \in Searches : RunStructured(search)
    BY <1>9
  <2>2. search.limit \in Int /\ "structured" \in SearchHunts
    BY <1>4 DEF Searches, SearchHunts
  <2>3. GoodAnswer("structured", structured_search(search), search)
    BY <1>2, <2>2, SearchAnswers
  <2>4. QED
    BY <1>1, <2>1, <2>3, AnswerKeeps DEF RunStructured
<1>10. ASSUME NEW filter PROVE Lookup(filter).limit \in Int
  BY <1>4 DEF Lookup
<1>11. CASE \E filter \in Filters : AuthHistory(filter)
  <2>1. PICK filter \in Filters : AuthHistory(filter)
    BY <1>11
  <2>2. PICK search : search = Lookup(filter)
    OBVIOUS
  <2>3. search.limit \in Int /\ "auth history" \in SearchHunts
    BY <1>10, <2>2 DEF SearchHunts
  <2>4. GoodAnswer("auth history", structured_search(search), search)
    BY <1>2, <2>3, SearchAnswers
  <2>5. Answers("auth history", structured_search(search), search) /\ Audit("auth history")
    BY <2>1, <2>2 DEF AuthHistory
  <2>6. QED
    BY <1>1, <2>4, <2>5, AnswerKeeps
<1>12. CASE \E filter \in Filters : LookUpIoc(filter)
  <2>1. PICK filter \in Filters : LookUpIoc(filter)
    BY <1>12
  <2>2. PICK search : search = Lookup(filter)
    OBVIOUS
  <2>3. search.limit \in Int /\ "ioc" \in SearchHunts
    BY <1>10, <2>2 DEF SearchHunts
  <2>4. GoodAnswer("ioc", structured_search(search), search)
    BY <1>2, <2>3, SearchAnswers
  <2>5. Answers("ioc", structured_search(search), search) /\ Audit("ioc")
    BY <2>1, <2>2 DEF LookUpIoc
  <2>6. QED
    BY <1>1, <2>4, <2>5, AnswerKeeps
<1>13. ASSUME NEW S, NEW hunt \in Others PROVE GoodAnswer(hunt, Only(load_window, S), NoSearch)
  <2>1. Only(load_window, S) \in Seq(Event) /\ Range(Only(load_window, S)) \subseteq Range(load_window)
    BY <1>2, OnlyKeeps
  <2>2. QED
    BY <1>2, <2>1, SelectionAnswers DEF Others
<1>14. CASE \E filtered \in BOOLEAN : NetworkSessions(filtered)
  <2>1. PICK items : /\ items = <<>> \/ items = Only(load_window, {e \in ToSet(load_window) : HasSession(e)})
                     /\ Answers("sessions", items, NoSearch) /\ Audit("sessions")
    BY <1>14 DEF NetworkSessions
  <2>2. GoodAnswer("sessions", items, NoSearch)
    <3>1. CASE items = <<>>
      BY <1>3, <3>1, NothingAnswers DEF Others
    <3>2. CASE items = Only(load_window, {e \in ToSet(load_window) : HasSession(e)})
      BY <1>3, <1>13, <3>2
    <3>3. QED
      BY <2>1, <3>1, <3>2
  <2>3. QED
    BY <1>1, <2>1, <2>2, AnswerKeeps
<1>15. CASE ProcessTree
  <2>1. PICK items : /\ items = Only(load_window, {e \in ToSet(load_window) : HasProcess(e)})
                     /\ Answers("process tree", items, NoSearch) /\ Audit("process tree")
    BY <1>15 DEF ProcessTree
  <2>2. GoodAnswer("process tree", items, NoSearch)
    BY <1>3, <1>13, <2>1
  <2>3. QED
    BY <1>1, <2>1, <2>2, AnswerKeeps
<1>16. ASSUME NEW hunt \in Others, Answers(hunt, <<>>, NoSearch), Audit(hunt) PROVE TelemetryInv'
  <2>1. GoodAnswer(hunt, <<>>, NoSearch)
    BY NothingAnswers DEF Others
  <2>2. QED
    BY <1>1, <1>16, <2>1, AnswerKeeps
<1>17. CASE LookUpEntity
  BY <1>3, <1>16, <1>17 DEF LookUpEntity
<1>18. CASE SaveHunt
  BY <1>3, <1>16, <1>18 DEF SaveHunt
<1>19. CASE ListSaved
  BY <1>3, <1>16, <1>19 DEF ListSaved
<1>20. CASE Export
  BY <1>3, <1>16, <1>20 DEF Export
<1>21. QED
  BY <1>1, <1>5, <1>6, <1>7, <1>8, <1>9, <1>11, <1>12, <1>14, <1>15, <1>17, <1>18, <1>19, <1>20 DEF HuntNext

\* ... and so do the connectors'.
LEMMA FeedingKeeps ==
  ASSUME TelemetryInv, Feeding
  PROVE  TelemetryInv'
<1>1. FeedInv'
  BY FeedingKeepsFeeds DEF TelemetryInv
<1>2. UNCHANGED <<typed, answer, saved, audited, answered>> /\ answer = NoAnswer /\ typed = <<>>
  BY DEF Feeding, WazuhIngest, NetworkIngest, AzureIngest, IngestBatch
<1>3. AnswerInv'
  BY <1>2, StillNoAnswer
<1>4. typed' \in Seq(Phrases) /\ Asked'
  BY <1>2 DEF TelemetryInv, HuntInv, Asked
<1>5. saved' \in Nat /\ answered' \in Seq(Recorded \cup Unrecorded) /\ QueriesRecorded'
  BY <1>2, LogUnchanged DEF TelemetryInv
<1>6. QED
  BY <1>1, <1>3, <1>4, <1>5 DEF TelemetryInv, HuntInv

\* Nothing is stored at the start.
LEMMA TelemetryStarts ==
  ASSUME FeedInit
  PROVE  TelemetryInv
<1>1. /\ typed = <<>> /\ table = <<>> /\ columns = <<>> /\ minted = 0 /\ answer = NoAnswer /\ saved = 0
      /\ audited = <<>> /\ answered = <<>>
  BY DEF FeedInit, HuntInit
<1>2. /\ dead = [p \in Payloads |-> 0] /\ sent = [p \in Payloads |-> 0] /\ accepted = 0 /\ requests = 0
      /\ rolledBack = FALSE /\ skipped = FALSE
  BY DEF FeedInit
<1>3. <<>> \in Seq(Event) /\ Range(<<>>) = {} /\ DOMAIN <<>> = {}
  BY DEF Range
<1>4. FedInto(<<>>) = {} /\ \A p : RowCopies(<<>>, p) = 0
  <2>1. FedInto(<<>>) = {} /\ \A p : {e \in Range(<<>>) : e.row = p} = {}
    BY <1>3 DEF FedInto
  <2>2. QED
    BY <2>1, FS_EmptySet DEF RowCopies
<1>5. FeedTypes
  BY <1>1, <1>2, <1>3 DEF FeedTypes
<1>6. TableOK(table, minted)
  BY <1>1, <1>3 DEF TableOK, IdsDiffer
<1>7. Balanced(table, dead, sent)
  BY <1>1, <1>2, <1>4 DEF Balanced
<1>8. StoresAgree(table, columns, rolledBack, skipped)
  BY <1>1, <1>3, <1>4 DEF StoresAgree, OnceIn
<1>9. accepted = Cardinality(FedInto(table))
  BY <1>1, <1>2, <1>4, FS_EmptySet
<1>10. NetworkFailsClosed /\ Untouched
  BY <1>1, <1>2, <1>3 DEF NetworkFailsClosed, Untouched
<1>11. FeedInv
  BY <1>5, <1>6, <1>7, <1>8, <1>9, <1>10 DEF FeedInv, FedInv
<1>12. QueriesRecorded
  <2>1. Only(<<>>, Recorded) = <<>> /\ Only(<<>>, {"save"}) = <<>> /\ Len(<<>>) = 0
    BY OnlyEmpty
  <2>2. QED
    BY <1>1, <2>1 DEF QueriesRecorded
<1>13. AnswerInv
  BY <1>1, NoAnswerYet
<1>14. HuntInv
  BY <1>1, <1>12, <1>13 DEF HuntInv, Asked
<1>15. QED
  BY <1>11, <1>14 DEF TelemetryInv

\* A step that changes nothing.
LEMMA TelemetryStays ==
  ASSUME TelemetryInv, UNCHANGED telemetryVars
  PROVE  TelemetryInv'
<1>1. UNCHANGED <<typed, table, columns, minted, answer, saved, audited, answered>> /\ UNCHANGED feedVars
  BY DEF telemetryVars, huntVars
<1>2. FeedInv'
  BY <1>1, SameTables DEF TelemetryInv
<1>3. load_window' = load_window /\ Query' = Query
  BY <1>1 DEF load_window, Query
<1>4. saved' \in Nat /\ answered' \in Seq(Recorded \cup Unrecorded) /\ QueriesRecorded'
  BY <1>1, LogUnchanged DEF TelemetryInv
<1>5. typed' \in Seq(Phrases) /\ Asked'
  BY <1>1, <1>3 DEF TelemetryInv, HuntInv, Asked
<1>6. AnswerInv
  BY DEF TelemetryInv, HuntInv
<1>7. SearchesAreExact'
  BY <1>1, <1>3, <1>6 DEF AnswerInv, SearchesAreExact
<1>8. SequencesExact'
  <2>1. \A ast : ChainsOf(ast)' = ChainsOf(ast)
    BY <1>3 DEF ChainsOf
  <2>2. RanSequence' <=> RanSequence
    BY <1>1, <1>3 DEF RanSequence
  <2>3. SequencesAreReal'
    BY <1>1, <1>3, <1>6, <2>1, <2>2 DEF AnswerInv, SequencesExact, SequencesAreReal
  <2>4. TwoStepsComplete'
    BY <1>1, <1>3, <1>6, <2>1, <2>2 DEF AnswerInv, SequencesExact, TwoStepsComplete
  <2>5. QED
    BY <2>3, <2>4 DEF SequencesExact
<1>9. AnswerInv'
  BY <1>1, <1>6, <1>7, <1>8 DEF AnswerInv, OwnTenantOnly
<1>10. QED
  BY <1>2, <1>4, <1>5, <1>9 DEF TelemetryInv, HuntInv

\* The inductive invariant of the tables, the feeds and the hunts: where each id
\* is from, what was stored and dead-lettered against what was sent, which
\* records the queries left and what an answer is made of (ingest_payloads, the
\* adapters' ids, the endpoints of hunts.py and connectors.py).
THEOREM TelemetryInvariant == FeedSpec => []TelemetryInv
<1>1. FeedInit => TelemetryInv
  BY TelemetryStarts
<1>2. TelemetryInv /\ [FeedNext]_telemetryVars => TelemetryInv'
  BY HuntingKeeps, FeedingKeeps, TelemetryStays DEF FeedNext
<1>3. QED
  BY <1>1, <1>2, PTL DEF FeedSpec

\* However many batches the connectors deliver, repeat and see undone, every
\* row that was answered is stored or dead-lettered, none is counted twice, the
\* two backends agree as far as they can and the audit log adds up
\* (ingest_payloads, connectors.py).
THEOREM FeedsAreAccounted == FeedSpec => []FeedsAccounted
<1>1. TelemetryInv => FeedsAccounted
  BY FeedInvAccounts DEF TelemetryInv
<1>2. QED
  BY <1>1, TelemetryInvariant, PTL

\* No hunt, whatever its parameters and backend, answers with an event of
\* another tenant (load_window, _bound_params, execute_hunt).
THEOREM TenantsAreApart == FeedSpec => []OwnTenantOnly
<1>1. TelemetryInv => OwnTenantOnly
  BY DEF TelemetryInv, HuntInv, AnswerInv
<1>2. QED
  BY <1>1, TelemetryInvariant, PTL

\* For every window, filter and limit a structured search answers with exactly
\* the first events that pass, and every answer of a recorded hunt has its
\* record (structured_search, write_audit in hunts.py).
THEOREM HuntsAreAnswered == FeedSpec => []HuntsAnswered
<1>1. TelemetryInv => HuntsAnswered
  <2> SUFFICES ASSUME TelemetryInv PROVE HuntsAnswered
    OBVIOUS
  <2>1. /\ table \in Seq(Event) /\ columns \in Seq(Event) /\ minted \in Nat
    BY DEF TelemetryInv, FeedInv, FedInv, FeedTypes, TableOK
  <2>2. /\ typed \in Seq(Phrases) /\ saved \in Nat /\ answered \in Seq(Recorded \cup Unrecorded)
        /\ QueriesRecorded /\ AnswerInv
    BY DEF TelemetryInv, HuntInv
  <2>3. Range(table) \subseteq Event /\ Range(columns) \subseteq Event /\ Range(typed) \subseteq Phrases
    BY <2>1, <2>2, WholeRange
  <2>4. Range(answer.items) \subseteq Event /\ answer.hunt \in Recorded \cup Unrecorded \cup {"none"}
    BY <2>2, WholeRange DEF AnswerInv
  <2>5. ToSet(audited) \subseteq Recorded
    <3>1. audited \in Seq(Recorded \cup Unrecorded) /\ Range(audited) = Range(answered) \cap Recorded
      BY <2>2, OnlyKeeps DEF QueriesRecorded
    <3>2. QED
      BY <3>1, WholeRange
  <2>6. HuntTypeOK
    BY <2>1, <2>2, <2>3, <2>4, <2>5 DEF HuntTypeOK
  <2>7. QED
    BY <2>2, <2>6 DEF HuntsAnswered, AnswerInv
<1>2. QED
  BY <1>1, TelemetryInvariant, PTL

\* For every window, number of steps and predicate a sequence hunt answers with
\* events of real chains, each once, and with two steps misses no start
\* (_execute_sequence).
THEOREM SequencesAreExact == FeedSpec => []SequencesExact
<1>1. TelemetryInv => SequencesExact
  BY DEF TelemetryInv, HuntInv, AnswerInv
<1>2. QED
  BY <1>1, TelemetryInvariant, PTL
=============================================================================
