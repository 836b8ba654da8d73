---------------------------- MODULE KafkaFabric ----------------------------
(***************************************************************************)
(* The Redpanda/Kafka fabric (packages/event-fabric: kafka.py) with the    *)
(* raw stage of the pipeline on top of it (drain_raw of pipeline.py).      *)
(*                                                                         *)
(* Processes share the topics through the broker and nothing else.  Every  *)
(* consume call opens a consumer of the group, polls once, commits what it *)
(* polled and closes; only then is anything handled.  The keys a process   *)
(* has seen are in its memory.  A topic has one partition, so one consumer *)
(* of the group holds it at a time; a consumer that is slow loses it.      *)
(***************************************************************************)
EXTENDS Naturals, Sequences, SequencesExt

CONSTANTS
  Events,       \* event ids; one idempotency key each
  Poison,       \* events the normalizer rejects
  Processes,    \* processes that run a pipeline on this fabric
  MaxAttempts,  \* max_attempts of the pipeline
  MaxRecords,   \* max_records of one consume call
  NoProcess,
  MaxLog,       \* bound: messages in the raw topic before producers stop
  MaxFaults     \* bound: crashes, lost partitions, failed calls, repeated or lost sends

ASSUME KafkaAssumption ==
  /\ Poison \subseteq Events
  /\ NoProcess \notin Processes
  /\ {MaxAttempts, MaxRecords} \subseteq Nat \ {0}
  /\ {MaxLog, MaxFaults} \subseteq Nat

VARIABLES
  log,        \* the raw topic: messages with event and attempt
  committed,  \* offset of the group
  holder,     \* the process whose consumer holds the partition
  seen,       \* [Processes -> SUBSET Events]: KafkaFabric._consumed
  pc,         \* [Processes -> what the drain is doing]
  polled,     \* [Processes -> chunk being consumed, and the position after it]
  batch,      \* [Processes -> positions taken by _consume_all and not handled]
  out,        \* events in the normalized topic
  dlq,        \* the dead-letter topic
  faults,     \* faults so far (bound)
  handled,    \* positions handled, in order (history)
  life,       \* [Processes -> events handled since the process started] (history)
  lost        \* positions a failing drain or process held (history)

vars == <<log, committed, holder, seen, pc, polled, batch, out, dlq, faults, handled, life, lost>>
group == <<committed, holder>>

Message == [event : Events, attempt : Nat]
NoChunk == [chunk |-> <<>>, position |-> 0]

Fault == faults < MaxFaults /\ faults' = faults + 1
NoFault == UNCHANGED faults

\* publish: the send is repeated when its acknowledgement is lost, which may
\* write it twice, and the result of the send is not looked at, so one that
\* failed for good goes unnoticed.
Sent(q, m) ==
  {[topic |-> Append(q, m), fault |-> FALSE],
   [topic |-> q \o <<m, m>>, fault |-> TRUE],
   [topic |-> q, fault |-> TRUE]}

Counts(sent) == IF sent.fault THEN Fault ELSE NoFault

Init ==
  /\ log = <<>> /\ out = {} /\ dlq = <<>>
  /\ committed = 0
  /\ holder = NoProcess
  /\ seen = [p \in Processes |-> {}]
  /\ pc = [p \in Processes |-> "idle"]
  /\ polled = [p \in Processes |-> NoChunk]
  /\ batch = [p \in Processes |-> <<>>]
  /\ faults = 0
  /\ handled = <<>>
  /\ life = [p \in Processes |-> <<>>]
  /\ lost = {}

\* ingest_raw, or the projection of an ingested event: published by any process.
IngestRaw(e) ==
  /\ Len(log) < MaxLog
  /\ \E sent \in Sent(log, [event |-> e, attempt |-> 0]) :
       log' = sent.topic /\ Counts(sent)
  /\ UNCHANGED <<committed, holder, seen, pc, polled, batch, out, dlq, handled, life, lost>>

\* drain_raw is called.
StartDrain(p) ==
  /\ pc[p] = "idle"
  /\ pc' = [pc EXCEPT ![p] = "fetch"]
  /\ UNCHANGED <<log, committed, holder, seen, polled, batch, out, dlq, faults, handled, life, lost>>

\* Mutant: the key is remembered only when the message is handled.
Chunk_Unremembered(p, n) ==
  FoldLeft(LAMBDA acc, i :
             IF log[i].event \in seen[p] THEN acc
             ELSE [acc EXCEPT !.chunk = Append(@, i)],
           [chunk |-> <<>>, seen |-> seen[p]], [k \in 1..n |-> committed + k])

\* One turn of the loop over the records: a record whose key the process has
\* seen is skipped, the key of another one remembered.
Consume(acc, i) ==
  IF log[i].event \in acc.seen THEN acc
  ELSE [chunk |-> Append(acc.chunk, i), seen |-> acc.seen \cup {log[i].event}]

\* The loop over the n records that a poll returned.
Chunk(p, n) ==
  FoldLeft(Consume, [chunk |-> <<>>, seen |-> seen[p]], [k \in 1..n |-> committed + k])

\* consume up to the commit.  The poll answers within two seconds, with up to
\* max_records or, while the group is rebalancing, with none.
Poll(p, n) ==
  LET taken == Chunk(p, n)
  IN  /\ pc[p] = "fetch"
      /\ holder = NoProcess
      /\ n <= Len(log) - committed
      /\ holder' = p
      /\ seen' = [seen EXCEPT ![p] = taken.seen]
      /\ polled' = [polled EXCEPT ![p] = [chunk |-> taken.chunk, position |-> committed + n]]
      /\ pc' = [pc EXCEPT ![p] = "polled"]
      /\ UNCHANGED <<log, committed, batch, out, dlq, faults, handled, life, lost>>

\* A second consumer waits for the partition until its poll times out.
PollTimesOut(p) ==
  /\ pc[p] = "fetch"
  /\ holder \notin {NoProcess, p}
  /\ pc' = [pc EXCEPT ![p] = "handle"]
  /\ UNCHANGED <<log, committed, holder, seen, polled, batch, out, dlq, faults, handled, life, lost>>

Released(p) == IF holder = p THEN NoProcess ELSE holder

\* Mutant: a chunk of duplicates is followed by no commit.
Commit_SkipsEmpty(p) ==
  /\ pc[p] = "polled" /\ holder = p
  /\ committed' = IF polled[p].chunk = <<>> THEN committed ELSE polled[p].position
  /\ holder' = NoProcess
  /\ batch' = [batch EXCEPT ![p] = @ \o polled[p].chunk]
  /\ polled' = [polled EXCEPT ![p] = NoChunk]
  /\ pc' = [pc EXCEPT ![p] = IF polled[p].chunk = <<>> THEN "handle" ELSE "fetch"]
  /\ UNCHANGED <<log, seen, out, dlq, faults, handled, life, lost>>

\* Mutant: everything in the topic is committed, not what was polled.
Commit_EndOfLog(p) ==
  /\ pc[p] = "polled" /\ holder = p
  /\ committed' = Len(log)
  /\ holder' = NoProcess
  /\ batch' = [batch EXCEPT ![p] = @ \o polled[p].chunk]
  /\ polled' = [polled EXCEPT ![p] = NoChunk]
  /\ pc' = [pc EXCEPT ![p] = IF polled[p].chunk = <<>> THEN "handle" ELSE "fetch"]
  /\ UNCHANGED <<log, seen, out, dlq, faults, handled, life, lost>>

\* consume commits and returns; _consume_all goes on until a chunk is empty.
Commit(p) ==
  /\ pc[p] = "polled" /\ holder = p
  /\ committed' = polled[p].position
  /\ holder' = NoProcess
  /\ batch' = [batch EXCEPT ![p] = @ \o polled[p].chunk]
  /\ polled' = [polled EXCEPT ![p] = NoChunk]
  /\ pc' = [pc EXCEPT ![p] = IF polled[p].chunk = <<>> THEN "handle" ELSE "fetch"]
  /\ UNCHANGED <<log, seen, out, dlq, faults, handled, life, lost>>

Held(p) == Range(batch[p]) \cup Range(polled[p].chunk)

\* An exception leaves drain_raw: what _consume_all had gathered is gone.
Raises(p) ==
  /\ pc' = [pc EXCEPT ![p] = "idle"]
  /\ batch' = [batch EXCEPT ![p] = <<>>]
  /\ polled' = [polled EXCEPT ![p] = NoChunk]
  /\ holder' = Released(p)
  /\ lost' = lost \cup Held(p)

\* Mutant: the failed commit is ignored and the chunk kept.
CommitRefused_Ignored(p) ==
  /\ pc[p] = "polled" /\ holder # p
  /\ batch' = [batch EXCEPT ![p] = @ \o polled[p].chunk]
  /\ polled' = [polled EXCEPT ![p] = NoChunk]
  /\ pc' = [pc EXCEPT ![p] = "fetch"]
  /\ UNCHANGED <<log, committed, holder, seen, out, dlq, faults, handled, life, lost>>

\* The coordinator refuses the commit of a consumer that lost the partition.
CommitRefused(p) ==
  /\ pc[p] = "polled" /\ holder # p
  /\ Raises(p)
  /\ UNCHANGED <<log, committed, seen, out, dlq, faults, handled, life>>

\* The commit fails, or only its acknowledgement is lost.
CommitFails(p) ==
  /\ pc[p] = "polled" /\ holder = p
  /\ Fault
  /\ committed' \in {committed, polled[p].position}
  /\ Raises(p)
  /\ UNCHANGED <<log, seen, out, dlq, handled, life>>

\* The group coordinator takes the partition from a slow consumer.
Evict(p) ==
  /\ holder = p
  /\ Fault
  /\ holder' = NoProcess
  /\ UNCHANGED <<log, committed, seen, pc, polled, batch, out, dlq, handled, life, lost>>

Handles(p) ==
  LET i == Head(batch[p])
  IN  /\ pc[p] = "handle"
      /\ batch[p] # <<>>
      /\ handled' = Append(handled, i)
      /\ life' = [life EXCEPT ![p] = Append(@, log[i].event)]

\* drain_raw, the try block: the message normalizes and is published,
\* unless the send fails unnoticed.
Normalize(p) ==
  LET m == log[Head(batch[p])]
  IN  /\ Handles(p)
      /\ m.event \notin Poison
      /\ \/ out' = out \cup {m.event} /\ NoFault
         \/ UNCHANGED out /\ Fault
      /\ batch' = [batch EXCEPT ![p] = Tail(@)]
      /\ UNCHANGED <<log, committed, holder, seen, pc, polled, dlq, lost>>

OneMore(m) == [m EXCEPT !.attempt = @ + 1]

\* The except block: dead_letter, or the message again with one attempt more.
Rejected(m) ==
  IF m.attempt + 1 >= MaxAttempts
  THEN \E sent \in Sent(dlq, OneMore(m)) : dlq' = sent.topic /\ Counts(sent) /\ UNCHANGED log
  ELSE \E sent \in Sent(log, OneMore(m)) : log' = sent.topic /\ Counts(sent) /\ UNCHANGED dlq

\* drain_raw, the except block after the normalizer raised.
NormalizeFails(p) ==
  LET m == log[Head(batch[p])]
  IN  /\ Handles(p)
      /\ m.event \in Poison
      /\ Rejected(m)
      /\ batch' = [batch EXCEPT ![p] = Tail(@)]
      /\ UNCHANGED <<committed, holder, seen, pc, polled, out, lost>>

\* The publication of a normalized event times out, written or not, and the
\* exception takes the event to the except block like one that is rejected.
PublishTimesOut(p) ==
  LET m == log[Head(batch[p])]
  IN  /\ Handles(p)
      /\ m.event \notin Poison
      /\ Fault
      /\ out' \in {out, out \cup {m.event}}
      /\ IF m.attempt + 1 >= MaxAttempts
         THEN dlq' = Append(dlq, OneMore(m)) /\ UNCHANGED log
         ELSE log' = Append(log, OneMore(m)) /\ UNCHANGED dlq
      /\ batch' = [batch EXCEPT ![p] = Tail(@)]
      /\ UNCHANGED <<committed, holder, seen, pc, polled, lost>>

\* The publication of the except block times out, written or not: the
\* exception leaves drain_raw.
RetryTimesOut(p) ==
  LET m == log[Head(batch[p])]
  IN  /\ pc[p] = "handle" /\ batch[p] # <<>>
      /\ m.event \in Poison
      /\ Fault
      /\ Raises(p)
      /\ IF m.attempt + 1 >= MaxAttempts
         THEN dlq' \in {dlq, Append(dlq, OneMore(m))} /\ UNCHANGED log
         ELSE log' \in {log, Append(log, OneMore(m))} /\ UNCHANGED dlq
      /\ UNCHANGED <<committed, seen, out, handled, life>>

\* The drain returns.
EndDrain(p) ==
  /\ pc[p] = "handle"
  /\ batch[p] = <<>>
  /\ pc' = [pc EXCEPT ![p] = "idle"]
  /\ UNCHANGED <<log, committed, holder, seen, polled, batch, out, dlq, faults, handled, life, lost>>

\* The process dies and is started again: memory is gone, the broker's state stays.
Crash(p) ==
  /\ Fault
  /\ Raises(p)
  /\ seen' = [seen EXCEPT ![p] = {}]
  /\ life' = [life EXCEPT ![p] = <<>>]
  /\ UNCHANGED <<log, committed, out, dlq, handled>>

Continue(p) ==
  \/ PollTimesOut(p) \/ Poll(p, 0)
  \/ Commit(p) \/ CommitRefused(p)
  \/ Normalize(p) \/ NormalizeFails(p)
  \/ EndDrain(p)

PollSome(p) == \E n \in 1..MaxRecords : Poll(p, n)

Next ==
  \/ \E e \in Events : IngestRaw(e)
  \/ \E p \in Processes :
       \/ StartDrain(p) \/ PollSome(p) \/ Continue(p)
       \/ CommitFails(p) \/ Evict(p) \/ PublishTimesOut(p) \/ RetryTimesOut(p) \/ Crash(p)

Spec == Init /\ [][Next]_vars

(***************************************************************************)
(* A drain that runs is ordinary code and takes its next step; the owner   *)
(* of a pipeline calls drain_raw again and again; and the broker, however  *)
(* often a poll comes back empty while the group settles, answers some     *)
(* poll with records when there are any (strong fairness, because other    *)
(* consumers hold the partition from time to time).                        *)
(***************************************************************************)
FairSpec ==
  /\ Spec
  /\ \A p \in Processes :
       /\ WF_vars(Continue(p))
       /\ WF_vars(StartDrain(p))
       /\ SF_vars(PollSome(p))
-----------------------------------------------------------------------------
(* Types: processes hold positions of the log, and the group's offset never *)
(* passes its end.                                                          *)
TypeOK ==
  /\ log \in Seq(Message) /\ dlq \in Seq(Message) /\ out \subseteq Events \ Poison
  /\ committed \in 0..Len(log)
  /\ holder \in Processes \cup {NoProcess}
  /\ seen \in [Processes -> SUBSET Events]
  /\ pc \in [Processes -> {"idle", "fetch", "polled", "handle"}]
  /\ \A p \in Processes :
       /\ Held(p) \subseteq DOMAIN log
       /\ polled[p].position \in 0..Len(log)
  /\ faults \in 0..MaxFaults
  /\ Range(handled) \subseteq DOMAIN log
  /\ life \in [Processes -> Seq(Events)]
  /\ lost \subseteq DOMAIN log

InFlight == UNION {Range(batch[p]) : p \in Processes}

\* Messages behind the offset that nobody will handle.
Gone == (1..committed) \ (Range(handled) \cup InFlight)

(* consume commits before anything is handled, so a message of the topic is *)
(* handled at most once over all processes, restarts, failed commits and    *)
(* lost partitions, and one that was passed over is never handled later:    *)
(* the fabric implements Delivery.                                          *)
DeliveryView == INSTANCE Delivery WITH published <- Len(log), delivered <- handled, dropped <- Gone
ImplementsDelivery == DeliveryView!Spec

(* Between two starts a process handles an event at most once, however often *)
(* producers repeat it and however messages are retried (`_consumed`).       *)
KeyOncePerLife == \A p \in Processes : IsInjective(life[p])

(* The offset passes no event unaccounted for: up to it, every event was    *)
(* handled, waits in a process, or was held by a process when its drain     *)
(* failed.  In particular nothing is lost as long as nothing fails, although *)
(* keys are remembered before the commit and offsets move before handling.  *)
OffsetsAccounted ==
  \A i \in 1..committed :
    \E j \in Range(handled) \cup InFlight \cup lost : log[j].event = log[i].event

(* A dead letter has used up its attempts: the topic holds the same event   *)
(* with every smaller attempt number (the except block of drain_raw).       *)
DeadLetterTried ==
  \A d \in Range(dlq) :
    /\ d.attempt = MaxAttempts
    /\ \A k \in 0..(MaxAttempts - 1) : [event |-> d.event, attempt |-> k] \in Range(log)

(* A process handles an event once in its life and gives a message up only  *)
(* after its attempts (consume, drain_raw).                                 *)
HandlingSound == TypeOK /\ KeyOncePerLife /\ DeadLetterTried

(* The group does not get stuck: every published message is eventually      *)
(* behind the committed offset, although a drain stops fetching at a chunk  *)
(* that holds only duplicates and at a poll that comes back empty.          *)
OffsetsAdvance == \A i \in 1..(MaxLog + 1) : Len(log) >= i ~> committed >= i
=============================================================================
