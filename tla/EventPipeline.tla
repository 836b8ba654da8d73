--------------------------- MODULE EventPipeline ---------------------------
(***************************************************************************)
(* The in-process event fabric and the pipeline on top of it               *)
(* (packages/event-fabric: memory.py, pipeline.py, envelope.py).           *)
(*                                                                         *)
(* Producers publish raw telemetry.  Workers drain the raw topic through   *)
(* the normalizer into the normalized topic, and drain that through the    *)
(* detection rules into the findings topic.  The fabric is shared: each    *)
(* publish and each consume holds its lock, everything between two such    *)
(* calls interleaves.  A consumed idempotency key is never delivered to    *)
(* the same group again; a message that fails to normalize is published    *)
(* again until its attempts run out, then sent to the dead-letter topic.   *)
(***************************************************************************)
EXTENDS Naturals, Sequences, FiniteSets, SequencesExt

CONSTANTS
  Events,        \* event ids carried by the payloads
  Poison,        \* events the normalizer rejects
  Alerting,      \* events for which the rules produce a finding
  Workers,       \* threads that drain the topics
  AttemptLimits, \* values of max_attempts a pipeline may be built with
  MaxRecords,    \* max_records of one consume call
  MaxSubmits     \* bound: times a producer submits the same event

ASSUME PipelineAssumption ==
  /\ Poison \subseteq Events
  /\ Alerting \subseteq Events \ Poison
  /\ AttemptLimits \subseteq Nat \ {0} /\ AttemptLimits # {}
  /\ MaxRecords \in Nat \ {0}
  /\ MaxSubmits \in Nat \ {0}

VARIABLES
  topics,        \* InMemoryFabric._topics
  consumed,      \* InMemoryFabric._consumed
  lag,           \* InMemoryFabric._lag
  normalized,    \* EventPipeline.normalized
  findings,      \* EventPipeline.findings
  max_attempts,  \* EventPipeline.max_attempts
  pc,            \* [Workers -> what the worker is doing]
  batch,         \* [Workers -> messages taken and not yet handled]
  submits,       \* [Events -> times submitted]
  evaluated      \* events given to the rules, in order (history)

vars == <<topics, consumed, lag, normalized, findings, max_attempts, pc, batch, submits, evaluated>>
fabric == <<topics, consumed, lag>>

Topics == {"raw", "normalized", "findings", "deadletter"}

\* The default consumer group of each drained topic.
Group == [raw |-> "normalizer", normalized |-> "detection"]

\* Where a worker is once it has fetched everything a topic held.
Handling == [raw |-> "handle raw", normalized |-> "handle normalized"]

\* envelope(): the idempotency key is the topic and the event id.
Envelope(t, e) == [key |-> <<t, e>>, event |-> e, attempt |-> 0, poison |-> FALSE]

Keys == (Topics \X Events) \cup {<<"dlq", t, e>> : t \in Topics, e \in Events}

Message ==
  [key : Keys,
   event : Events, attempt : Nat, poison : BOOLEAN]

-----------------------------------------------------------------------------
(* InMemoryFabric                                                          *)
Publish(t, m) ==
  /\ topics' = [topics EXCEPT ![t] = Append(@, m)]
  /\ lag' = [lag EXCEPT ![t] = Len(topics[t]) + 1]

\* dead_letter: a poisoned copy under a key of its own.
DeadLetter(m) ==
  Publish("deadletter", [m EXCEPT !.poison = TRUE, !.attempt = @ + 1, !.key = <<"dlq">> \o @])

\* Mutant: the batch limit is tested after the message is taken off the queue.
Take_LimitAfterPop(t, q) ==
  FoldLeft(LAMBDA acc, m :
             IF Len(acc.chunk) > MaxRecords THEN [acc EXCEPT !.rest = Append(@, m)]
             ELSE IF <<Group[t], m.key>> \in acc.seen THEN acc
             ELSE [acc EXCEPT !.chunk = IF Len(@) < MaxRecords THEN Append(@, m) ELSE @,
                              !.seen = @ \cup {<<Group[t], m.key>>}],
           [chunk |-> <<>>, seen |-> consumed, rest |-> <<>>], q)

\* One turn of the loop of consume: once max_records are taken the message
\* stays, one whose key the group has seen is dropped, another one is taken.
Pop(acc, m) ==
  IF Len(acc.chunk) = MaxRecords THEN [acc EXCEPT !.rest = Append(@, m)]
  ELSE IF <<acc.group, m.key>> \in acc.seen THEN acc
  ELSE [acc EXCEPT !.chunk = Append(@, m), !.seen = @ \cup {<<acc.group, m.key>>}]

\* consume: messages are taken from the left of the topic.
Take(t, q) ==
  FoldLeft(Pop, [group |-> Group[t], chunk |-> <<>>, seen |-> consumed, rest |-> <<>>], q)

-----------------------------------------------------------------------------
(* EventPipeline                                                           *)
Init ==
  /\ topics = [t \in Topics |-> <<>>]
  /\ consumed = {}
  /\ lag = [t \in Topics |-> 0]
  /\ normalized = <<>>
  /\ findings = <<>>
  /\ max_attempts \in AttemptLimits
  /\ pc = [w \in Workers |-> "idle"]
  /\ batch = [w \in Workers |-> <<>>]
  /\ submits = [e \in Events |-> 0]
  /\ evaluated = <<>>

\* ingest_raw: a collector submits an event, possibly not for the first time.
IngestRaw(e) ==
  /\ submits[e] < MaxSubmits
  /\ submits' = [submits EXCEPT ![e] = @ + 1]
  /\ Publish("raw", Envelope("raw", e))
  /\ UNCHANGED <<max_attempts, consumed, normalized, findings, pc, batch, evaluated>>

\* drain_raw or drain_normalized is called.
StartDrain(w, t) ==
  /\ pc[w] = "idle"
  /\ pc' = [pc EXCEPT ![w] = t]
  /\ batch' = [batch EXCEPT ![w] = <<>>]
  /\ UNCHANGED <<max_attempts, topics, consumed, lag, normalized, findings, submits, evaluated>>

\* One consume call of _consume_all.  An empty chunk ends the fetching.
Fetch(w, t) ==
  LET taken == Take(t, topics[t])
  IN  /\ pc[w] = t
      /\ topics' = [topics EXCEPT ![t] = taken.rest]
      /\ consumed' = taken.seen
      /\ lag' = [lag EXCEPT ![t] = Len(taken.rest)]
      /\ batch' = [batch EXCEPT ![w] = @ \o taken.chunk]
      /\ pc' = IF taken.chunk = <<>> THEN [pc EXCEPT ![w] = Handling[t]] ELSE pc
      /\ UNCHANGED <<max_attempts, normalized, findings, submits, evaluated>>

NextMessage(w, label) ==
  /\ pc[w] = label
  /\ batch[w] # <<>>
  /\ batch' = [batch EXCEPT ![w] = Tail(@)]
  /\ UNCHANGED pc

\* drain_raw, the try block: the message normalizes.
Normalize(w) ==
  LET e == Head(batch[w]).event
  IN  /\ NextMessage(w, Handling.raw)
      /\ e \notin Poison
      /\ normalized' = Append(normalized, e)
      /\ Publish("normalized", Envelope("normalized", e))
      /\ UNCHANGED <<max_attempts, consumed, findings, submits, evaluated>>

\* Mutant: the normalizer's exception ends the drain and the rest of the batch
\* with it.
NormalizeFails_Abandons(w) ==
  LET m == Head(batch[w])
  IN  /\ pc[w] = Handling.raw
      /\ batch[w] # <<>>
      /\ m.event \in Poison
      /\ batch' = [batch EXCEPT ![w] = <<>>]
      /\ IF m.attempt + 1 >= max_attempts
         THEN DeadLetter(m)
         ELSE Publish("raw", [m EXCEPT !.attempt = @ + 1])
      /\ UNCHANGED <<max_attempts, consumed, normalized, findings, pc, submits, evaluated>>

\* drain_raw, the except block.
NormalizeFails(w) ==
  LET m == Head(batch[w])
  IN  /\ NextMessage(w, Handling.raw)
      /\ m.event \in Poison
      /\ IF m.attempt + 1 >= max_attempts
         THEN DeadLetter(m)
         ELSE Publish("raw", [m EXCEPT !.attempt = @ + 1])
      /\ UNCHANGED <<max_attempts, consumed, normalized, findings, submits, evaluated>>

\* drain_normalized: the rules see the message's event.
Evaluate(w) ==
  LET e == Head(batch[w]).event
  IN  /\ NextMessage(w, Handling.normalized)
      /\ evaluated' = Append(evaluated, e)
      /\ IF e \in Alerting
         THEN /\ findings' = Append(findings, e)
              /\ Publish("findings", Envelope("findings", e))
         ELSE UNCHANGED <<findings, topics, lag>>
      /\ UNCHANGED <<max_attempts, consumed, normalized, submits>>

\* The drain returns.
EndDrain(w) ==
  /\ pc[w] \in {Handling.raw, Handling.normalized}
  /\ batch[w] = <<>>
  /\ pc' = [pc EXCEPT ![w] = "idle"]
  /\ UNCHANGED <<max_attempts, topics, consumed, lag, normalized, findings, batch, submits, evaluated>>

\* A drain that was called runs to its end.
Continue(w) ==
  \/ \E t \in {"raw", "normalized"} : Fetch(w, t)
  \/ Normalize(w)
  \/ NormalizeFails(w)
  \/ Evaluate(w)
  \/ EndDrain(w)

Next ==
  \/ \E e \in Events : IngestRaw(e)
  \/ \E w \in Workers : Continue(w) \/ \E t \in {"raw", "normalized"} : StartDrain(w, t)

Spec == Init /\ [][Next]_vars

(***************************************************************************)
(* Nothing obliges a producer to submit.  A drain that started is ordinary *)
(* code and returns (weak fairness of Continue), and the owner of a        *)
(* pipeline keeps calling both drains, as run_once does on every call:     *)
(* strong fairness, since a worker that is busy with one topic is          *)
(* disabled for the other from time to time.                               *)
(***************************************************************************)
FairSpec ==
  /\ Spec
  /\ \A w \in Workers :
       /\ WF_vars(Continue(w))
       /\ \A t \in {"raw", "normalized"} : SF_vars(StartDrain(w, t))
-----------------------------------------------------------------------------
(* Types: topics hold messages, and keys are consumed only by the two       *)
(* consumer groups of the pipeline.                                         *)
TypeOK ==
  /\ topics \in [Topics -> Seq(Message)]
  /\ consumed \subseteq {Group.raw, Group.normalized} \X Keys
  /\ lag \in [Topics -> Nat]
  /\ normalized \in Seq(Events)
  /\ findings \in Seq(Events)
  /\ max_attempts \in AttemptLimits
  /\ pc \in [Workers -> {"idle", "raw", "normalized"} \cup {Handling.raw, Handling.normalized}]
  /\ batch \in [Workers -> Seq(Message)]
  /\ submits \in [Events -> 0..MaxSubmits]
  /\ evaluated \in Seq(Events)

Holds(q, e) == \E i \in DOMAIN q : q[i].event = e

\* A message about e waits in topic t or in the batch of a worker draining t.
InFlight(t, e) ==
  \/ Holds(topics[t], e)
  \/ \E w \in Workers : pc[w] \in {t, Handling[t]} /\ Holds(batch[w], e)

(* However many times an event is submitted and however many workers drain, *)
(* it is normalized once, evaluated once and reported once                  *)
(* (InMemoryFabric.consume skips the keys a group has consumed).            *)
ExactlyOnce == IsInjective(normalized) /\ IsInjective(evaluated) /\ IsInjective(findings)

(* An event that normalizes is never lost between the topics: it waits,     *)
(* some worker holds it, or the next stage has it (the bounded, locked      *)
(* consume calls of _consume_all).                                          *)
NothingLost ==
  \A e \in Events \ Poison :
    /\ submits[e] > 0 => InFlight("raw", e) \/ e \in Range(normalized)
    /\ e \in Range(normalized) => InFlight("normalized", e) \/ e \in Range(evaluated)

(* Only events the normalizer rejects are dead-lettered, each once, marked  *)
(* as poison with its attempts used up (InMemoryFabric.dead_letter).        *)
DeadLetterSound ==
  LET dlq == topics["deadletter"]
  IN  \A i \in DOMAIN dlq :
        /\ dlq[i].event \in Poison
        /\ dlq[i].poison /\ dlq[i].attempt = max_attempts
        /\ \A j \in DOMAIN dlq : dlq[j].event = dlq[i].event => i = j

(* No message goes astray: each good event passes each stage once and is    *)
(* never lost between two, and only poison ends among the dead letters      *)
(* (consume, dead_letter and the two drains).                               *)
MessagesSound == TypeOK /\ ExactlyOnce /\ NothingLost /\ DeadLetterSound

(* Every submitted event that matches a rule is eventually reported as a    *)
(* finding, whatever else is submitted meanwhile.                           *)
AlertsReported == \A e \in Alerting : submits[e] > 0 ~> e \in Range(findings)

(* A pipeline that allows one attempt puts every message that cannot be     *)
(* normalized into the dead-letter topic (the except block of drain_raw).   *)
OneAttemptDeadLettered ==
  \A e \in Poison : max_attempts = 1 /\ submits[e] > 0 ~> Holds(topics["deadletter"], e)

(* Every submission comes to its end: what matches a rule is reported and,  *)
(* with one attempt, what cannot be normalized is dead-lettered (drain_raw, *)
(* drain_normalized).                                                       *)
SubmissionsEnd == AlertsReported /\ OneAttemptDeadLettered

(* "dead-letter queue works" (BLUE_TEAM_OS_BUILD_SPEC.md, acceptance of the *)
(* data plane): a message that cannot be normalized ends in the dead-letter *)
(* topic.                                                                   *)
PoisonDeadLettered == \A e \in Poison : submits[e] > 0 ~> Holds(topics["deadletter"], e)
=============================================================================
