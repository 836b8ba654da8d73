----------------------------- MODULE Ingestion -----------------------------
(***************************************************************************)
(* One tenant's event ingestion behind POST /events/ingest: duplicate      *)
(* check, storage, detection, evidence, entity graph, storylines and       *)
(* incidents (services/api/app/services: ingestion.py, detection.py,       *)
(* suppression.py, evidence.py, graph.py, incidents.py, intel.py), with    *)
(* the two other handlers that run parts of it: POST                       *)
(* /detections/scheduled/run and POST /incidents/rebuild.                  *)
(*                                                                         *)
(* Each request is one database transaction (core/db.py get_db) at the     *)
(* read committed level and without autoflush: a query sees what is        *)
(* committed and what the request itself has flushed.  A write that meets  *)
(* a row of a transaction in progress waits for it.  Any request may fail  *)
(* before it commits (a constraint, a lock timeout, the audit record, a    *)
(* crash) and then leaves nothing in the database.                         *)
(***************************************************************************)
EXTENDS Integers, Sequences, FiniteSets, SequencesExt

CONSTANTS
  Requests,      \* request threads of the API
  Events,        \* payloads that normalize, named by their event id
  Bad,           \* payloads that do not normalize
  Foreign,       \* events whose id another tenant has stored
  Watched,       \* events that match the indicator of compromise
  Batches,       \* request bodies: sequences of payloads
  EntitiesOf,    \* [Events -> the entities an event mentions]
  FindingDef,    \* [finding -> [triggers, needs, scheduled]]
  StoryDefs,     \* the storylines correlate can tell: <<[fp, needs], ...>>
  MaxRequests    \* bound: requests served in a behaviour

Findings == DOMAIN FindingDef
Fingerprints == {StoryDefs[i].fp : i \in DOMAIN StoryDefs}
Entities == UNION {EntitiesOf[e] : e \in Events}

ASSUME IngestionAssumption ==
  /\ MaxRequests \in Nat
  /\ Events \cap Bad = {}
  /\ Foreign \subseteq Events /\ Watched \subseteq Events
  /\ Batches \subseteq Seq(Events \cup Bad)
  /\ \A f \in Findings :
       /\ FindingDef[f].scheduled \in BOOLEAN
       /\ FindingDef[f].triggers \subseteq FindingDef[f].needs
  /\ StoryDefs \in Seq(Range(StoryDefs))
  /\ \A i \in DOMAIN StoryDefs : StoryDefs[i].needs \subseteq Findings

VARIABLES
  db,            \* the committed rows
  tx,            \* [Requests -> the request's transaction]
  served,        \* requests begun so far
  suppressed,    \* findings a committed suppression or exception matches
  projected,     \* events written to the data plane (object store, search, ...)
  answered,      \* payloads of requests that were answered with success (history)
  serial         \* no two requests have overlapped so far (history)

vars == <<db, tx, served, suppressed, projected, answered, serial>>

Zero(S) == [x \in S |-> 0]
Plus(f, g) == [x \in DOMAIN f |-> f[x] + g[x]]
InBatch(S) == [x \in Events |-> IF x \in S THEN 1 ELSE 0]

\* A transaction that has written nothing.
NewTx(pc, batch) ==
  [pc |-> pc, batch |-> batch, left |-> batch,
   events |-> <<>>, dead |-> {}, findings |-> {}, evidence |-> Zero(Events),
   incidents |-> {}, stories |-> Zero(Fingerprints),
   removed |-> {}, entities |-> {}, sightings |-> -1, locked |-> FALSE]

Idle == NewTx("idle", <<>>)

Init ==
  /\ db = [events |-> <<>>, dead |-> {}, findings |-> {}, evidence |-> Zero(Events),
           incidents |-> {}, stories |-> Zero(Fingerprints), graph |-> {}, sightings |-> 0]
  /\ tx = [r \in Requests |-> Idle]
  /\ served = 0
  /\ suppressed = {}
  /\ projected = {}
  /\ answered = {}
  /\ serial = TRUE

-----------------------------------------------------------------------------
(* What request r sees.                                                     *)
\* load_window
SeenEvents(r) == Range(db.events) \cup Range(tx[r].events)
SeenFindings(r) == db.findings \cup tx[r].findings
SeenEvidence(r) == Plus(db.evidence, tx[r].evidence)

Others(r) == Requests \ {r}

\* Another transaction has inserted event e and not ended.
EventHeld(r, e) == \E q \in Others(r) : e \in Range(tx[q].events)

Goto(r, pc) == tx' = [tx EXCEPT ![r].pc = pc]

\* get_db on an exception: rollback.  The data plane keeps what was written to it.
Rollback(r) ==
  /\ tx' = [tx EXCEPT ![r] = Idle]
  /\ UNCHANGED <<db, served, suppressed, projected, answered, serial>>

\* Whatever makes a request fail before its commit.
Fail(r) == tx[r].pc # "idle" /\ Rollback(r)

Begin(r, pc, batch) ==
  /\ tx[r].pc = "idle"
  /\ served < MaxRequests
  /\ served' = served + 1
  /\ tx' = [tx EXCEPT ![r] = NewTx(pc, batch)]
  /\ serial' = (serial /\ \A q \in Others(r) : tx[q].pc = "idle")
  /\ UNCHANGED <<db, suppressed, projected, answered>>

-----------------------------------------------------------------------------
(* ingest_payloads                                                          *)
Ingest(r, b) == Begin(r, "payload", b)

AtPayload(r) == tx[r].pc = "payload" /\ tx[r].left # <<>>
Payload(r) == Head(tx[r].left)

\* normalize_payload: an adapter accepts the payload, or it raises.
normalize_payload(p) == p \in Events

\* normalize_payload raises: the payload becomes a dead letter.
RejectPayload(r) ==
  /\ AtPayload(r)
  /\ ~normalize_payload(Payload(r))
  /\ tx' = [tx EXCEPT ![r].dead = @ \cup {Payload(r)}, ![r].left = Tail(@)]
  /\ UNCHANGED <<db, served, suppressed, projected, answered, serial>>

\* record_sightings: the indicator's row is read (once per session) and
\* counted up in memory.
RecordSighting(r) ==
  LET seen == IF tx[r].sightings = -1 THEN db.sightings ELSE tx[r].sightings
  IN  /\ AtPayload(r)
      /\ normalize_payload(Payload(r))
      /\ IF Payload(r) \in Watched
         THEN tx' = [tx EXCEPT ![r].pc = "sighting", ![r].sightings = seen + 1]
         ELSE Goto(r, "check")
      /\ UNCHANGED <<db, served, suppressed, projected, answered, serial>>

\* The flush of record_sightings: the row is locked until the commit.
FlushSighting(r) ==
  /\ tx[r].pc = "sighting"
  /\ \A q \in Others(r) : ~tx[q].locked
  /\ tx' = [tx EXCEPT ![r].pc = "check", ![r].locked = TRUE]
  /\ UNCHANGED <<db, served, suppressed, projected, answered, serial>>

\* The id belongs to another tenant, or the event is known: not stored again.
SkipEvent(r) ==
  LET e == Payload(r)
  IN  /\ tx[r].pc = "check"
      /\ e \in SeenEvents(r) \cup Foreign
      /\ tx' = [tx EXCEPT ![r].pc = "payload", ![r].left = Tail(@),
                          ![r].dead = IF e \in Foreign THEN @ \cup {e} ELSE @]
      /\ UNCHANGED <<db, served, suppressed, projected, answered, serial>>

\* best_effort_project: each write to the data plane may fail unnoticed.
best_effort_project(e) == projected' \in {projected, projected \cup {e}}

\* A new event: projected to the data plane if that works, added and flushed.
StoreEvent(r) ==
  LET e == Payload(r)
  IN  /\ tx[r].pc = "check"
      /\ ~EventHeld(r, e)
      /\ e \notin SeenEvents(r) \cup Foreign
      /\ tx' = [tx EXCEPT ![r].pc = "evaluate", ![r].events = Append(@, e)]
      /\ best_effort_project(e)
      /\ UNCHANGED <<db, served, suppressed, answered, serial>>

-----------------------------------------------------------------------------
(* Detection and evidence                                                   *)

\* Mutant: rules only see the events of their own request.
Fires_OwnEventsOnly(r, f, e, scheduled) ==
  /\ FindingDef[f].scheduled = scheduled
  /\ e \in FindingDef[f].triggers
  /\ FindingDef[f].needs \subseteq Range(tx[r].events)

\* DetectionRegistry.evaluate: rule f reports on event e in the tenant's window.
Fires(r, f, e, scheduled) ==
  /\ FindingDef[f].scheduled = scheduled
  /\ e \in FindingDef[f].triggers
  /\ FindingDef[f].needs \subseteq SeenEvents(r)

\* A suppression or an exception matches the finding.  The endpoints give a
\* suppression no expiry.
is_suppressed(f) == f \in suppressed

\* The findings evaluate_and_store_findings adds: not suppressed, not known.
NewFindings(r, es, scheduled) ==
  {f \in Findings : /\ \E e \in es : Fires(r, f, e, scheduled)
                    /\ ~is_suppressed(f)
                    /\ f \notin SeenFindings(r)}

EventsOf(fs) == UNION {FindingDef[f].needs : f \in fs}

\* Mutant: only the first events get evidence, those that trigger a rule do not.
Registers_NotTriggers(r, fs) ==
  {e \in EventsOf(fs) : SeenEvidence(r)[e] = 0 /\ \A f \in fs : e \notin FindingDef[f].triggers}

\* register_event_evidence: the events that get an evidence row for fs.
Registers(r, fs) == {e \in EventsOf(fs) : SeenEvidence(r)[e] = 0}

\* Two evidence rows of one event: scalar_one_or_none raises.
EvidenceAmbiguous(r, fs) == \E e \in EventsOf(fs) : SeenEvidence(r)[e] > 1

\* evaluate_and_store_findings over the events es, then the code at next.
AddFindings(r, es, scheduled, next) ==
  LET fs == NewFindings(r, es, scheduled)
  IN  /\ \A q \in Others(r) : fs \cap tx[q].findings = {}
      /\ IF EvidenceAmbiguous(r, fs)
         THEN Rollback(r)
         ELSE /\ tx' = [tx EXCEPT ![r] = [next EXCEPT
                          !.findings = @ \cup fs,
                          !.evidence = Plus(@, InBatch(Registers(r, fs)))]]
              /\ UNCHANGED <<db, served, suppressed, projected, answered, serial>>

\* evaluate_and_store, for the event just stored.
Evaluate(r) ==
  /\ tx[r].pc = "evaluate"
  /\ AddFindings(r, {Payload(r)}, FALSE, [tx[r] EXCEPT !.pc = "payload", !.left = Tail(@)])

\* POST /detections/scheduled/run: the scheduled rules over all events.
RunScheduled(r) == Begin(r, "scheduled", <<>>)

EvaluateScheduled(r) ==
  /\ tx[r].pc = "scheduled"
  /\ AddFindings(r, SeenEvents(r), TRUE, [tx[r] EXCEPT !.pc = "commit"])

\* POST /detections/suppressions and /exceptions.
Suppress(f) ==
  /\ suppressed' = suppressed \cup {f}
  /\ f \notin suppressed
  /\ UNCHANGED <<db, tx, served, projected, answered, serial>>

-----------------------------------------------------------------------------
(* Graph, storylines and incidents, when something was accepted             *)
EndOfBatch(r) ==
  /\ tx[r].pc = "payload" /\ tx[r].left = <<>>
  /\ Goto(r, IF tx[r].events = <<>> THEN "commit" ELSE "graph")
  /\ UNCHANGED <<db, served, suppressed, projected, answered, serial>>

GraphOf(es) == UNION {EntitiesOf[e] : e \in es}

\* Mutant: only the batch's own events are projected.
GraphView_OwnEventsOnly(r) == GraphOf(Range(tx[r].events))

\* build_graph over the tenant's window.
GraphView(r) == GraphOf(SeenEvents(r))

\* project_graph and _replace: all rows go, the rebuilt ones come.  The rows
\* another transaction has replaced are waited for.
ProjectGraph(r) ==
  /\ tx[r].pc = "graph"
  /\ \A q \in Others(r) :
       (tx[q].removed \cup tx[q].entities) \cap (db.graph \cup GraphView(r)) = {}
  /\ tx' = [tx EXCEPT ![r].pc = "stories", ![r].removed = db.graph, ![r].entities = GraphView(r)]
  /\ UNCHANGED <<db, served, suppressed, projected, answered, serial>>

\* POST /incidents/rebuild
Rebuild(r) == Begin(r, "stories", <<>>)

\* One storyline that correlate tries: told if its findings are stored.
Tell(acc, s) ==
  IF s.needs \subseteq acc.findings THEN [acc EXCEPT !.told = Append(@, s)] ELSE acc

\* correlate: the storylines the stored findings tell, in order.
correlate(fs) == FoldLeft(Tell, [findings |-> fs, told |-> <<>>], StoryDefs).told

(***************************************************************************)
(* The loop of persist_storylines_and_incidents.  stories are the rows the *)
(* queries see, added those not yet flushed; creating an incident flushes. *)
(***************************************************************************)
PersistStory(acc, s) ==
  CASE acc.error \/ acc.stories[s.fp] > 1 -> [acc EXCEPT !.error = TRUE]
    [] ~acc.error /\ acc.stories[s.fp] = 1 -> acc
    [] OTHER ->
         LET new == s.fp \notin acc.incidents
             one == [x \in Fingerprints |-> IF x = s.fp THEN 1 ELSE 0]
         IN  [acc EXCEPT
                !.incidents = @ \cup {s.fp},
                !.stories = IF new THEN Plus(@, acc.added) ELSE @,
                !.added = IF new THEN one ELSE Plus(@, one)]

Persisted(r) ==
  FoldLeft(PersistStory,
           [stories |-> db.stories, added |-> Zero(Fingerprints),
            incidents |-> db.incidents, error |-> FALSE],
           correlate(SeenFindings(r)))

\* persist_storylines_and_incidents: more than one storyline row with a
\* fingerprint raises; an incident another transaction adds is waited for.
Correlate(r) ==
  LET p == Persisted(r)
  IN  /\ tx[r].pc = "stories"
      /\ \A q \in Others(r) : (p.incidents \ db.incidents) \cap tx[q].incidents = {}
      /\ IF p.error
         THEN Rollback(r)
         ELSE /\ tx' = [tx EXCEPT ![r].pc = "commit",
                          ![r].incidents = p.incidents \ db.incidents,
                          ![r].stories = [x \in Fingerprints |->
                                            p.stories[x] + p.added[x] - db.stories[x]]]
              /\ UNCHANGED <<db, served, suppressed, projected, answered, serial>>

\* Mutant: dead letters are written by a session that is not committed.
Merge_NoDeadLetters(t) ==
  [events |-> db.events \o t.events, dead |-> db.dead,
   findings |-> db.findings \cup t.findings, evidence |-> Plus(db.evidence, t.evidence),
   incidents |-> db.incidents \cup t.incidents, stories |-> Plus(db.stories, t.stories),
   graph |-> (db.graph \ t.removed) \cup t.entities,
   sightings |-> IF t.sightings = -1 THEN db.sightings ELSE t.sightings]

\* The rows after a commit.
Merge(t) ==
  [events |-> db.events \o t.events, dead |-> db.dead \cup t.dead,
   findings |-> db.findings \cup t.findings, evidence |-> Plus(db.evidence, t.evidence),
   incidents |-> db.incidents \cup t.incidents, stories |-> Plus(db.stories, t.stories),
   graph |-> (db.graph \ t.removed) \cup t.entities,
   sightings |-> IF t.sightings = -1 THEN db.sightings ELSE t.sightings]

\* The handler returns, get_db commits, the client gets its answer.
Commit(r) ==
  /\ tx[r].pc = "commit"
  /\ db' = Merge(tx[r])
  /\ answered' = answered \cup Range(tx[r].batch)
  /\ tx' = [tx EXCEPT ![r] = Idle]
  /\ UNCHANGED <<served, suppressed, projected, serial>>

Work(r) ==
  \/ RejectPayload(r) \/ RecordSighting(r) \/ FlushSighting(r)
  \/ SkipEvent(r) \/ StoreEvent(r) \/ Evaluate(r)
  \/ EvaluateScheduled(r)
  \/ EndOfBatch(r) \/ ProjectGraph(r) \/ Correlate(r)
  \/ Commit(r)

Next ==
  \/ \E r \in Requests :
       \/ \E b \in Batches : Ingest(r, b)
       \/ RunScheduled(r)
       \/ Rebuild(r)
       \/ Work(r)
       \/ Fail(r)
  \/ \E f \in Findings : Suppress(f)

Spec == Init /\ [][Next]_vars
-----------------------------------------------------------------------------
Labels == {"idle", "payload", "sighting", "check", "evaluate", "scheduled", "graph", "stories", "commit"}

(* Types: no event of another tenant is ever stored, dead letters are the   *)
(* payloads that failed, and a transaction is at one of its labels.         *)
TypeOK ==
  /\ db.events \in Seq(Events \ Foreign)
  /\ db.dead \subseteq Bad \cup Foreign
  /\ db.findings \subseteq Findings
  /\ db.evidence \in [Events -> Nat]
  /\ db.incidents \subseteq Fingerprints
  /\ db.stories \in [Fingerprints -> Nat]
  /\ db.graph \subseteq Entities
  /\ db.sightings \in Nat
  /\ \A r \in Requests :
       /\ tx[r].pc \in Labels
       /\ tx[r].pc \in {"sighting", "check", "evaluate"} => tx[r].left # <<>> /\ Payload(r) \in Events
       /\ tx[r].stories \in [Fingerprints -> Nat]
  /\ served \in 0..MaxRequests
  /\ suppressed \subseteq Findings
  /\ projected \subseteq Events \ Foreign
  /\ serial \in BOOLEAN

(* Idempotent accept: however requests overlap and are repeated, an event   *)
(* is stored at most once (the duplicate check of ingest_payloads together  *)
(* with uq_event_idempotency).                                              *)
AcceptedOnce == IsInjective(db.events)

(* Every payload of a request that was answered with success is stored, now *)
(* or by an earlier request, or kept as a dead letter.                      *)
AnsweredKept == answered \subseteq Range(db.events) \cup db.dead

(* Whatever overlaps, fails or is sent again, each payload that was         *)
(* answered is kept, and kept once (ingest_payloads, get_db).               *)
PayloadsKept == TypeOK /\ AcceptedOnce /\ AnsweredKept

(* "No claim without evidence" (correlation/engine.py:1): each finding      *)
(* rests on stored events that all have evidence, each storyline and each   *)
(* incident on stored findings, and no storyline is without its incident.   *)
ClaimsHaveEvidence ==
  /\ \A e \in EventsOf(db.findings) : e \in Range(db.events) /\ db.evidence[e] > 0
  /\ \A x \in Fingerprints :
       /\ x \in db.incidents <=> db.stories[x] > 0
       /\ x \in db.incidents =>
            \E i \in DOMAIN StoryDefs : StoryDefs[i].fp = x /\ StoryDefs[i].needs \subseteq db.findings

(* The entity graph always shows exactly the entities of the stored events: *)
(* two requests that rebuild it at the same time lose nothing               *)
(* (project_graph, _replace).                                               *)
GraphComplete == db.graph = GraphOf(Range(db.events))

(* While requests do not overlap, a finding whose trigger arrived           *)
(* after the other events it needs is recorded, unless it was suppressed    *)
(* (evaluate_and_store runs inside the transaction that stores the event).  *)
NoMissedDetection ==
  serial => \A f \in Findings \ suppressed : ~FindingDef[f].scheduled =>
    \A i \in DOMAIN db.events :
      /\ db.events[i] \in FindingDef[f].triggers
      /\ FindingDef[f].needs \subseteq {db.events[j] : j \in 1..i}
      => f \in db.findings

(* While requests do not overlap, an event has one evidence record          *)
(* however many findings rest on it (register_event_evidence).              *)
EvidenceUnique == serial => \A e \in Events : db.evidence[e] <= 1

(* "multiple low-level alerts correlate into one storyline"                 *)
(* (BLUE_TEAM_OS_BUILD_SPEC.md:303): a fingerprint has one storyline.       *)
OneStoryline == \A x \in Fingerprints : db.stories[x] <= 1

(* While requests do not overlap, each stored event that matches the        *)
(* indicator is counted among its sightings (record_sightings).             *)
SightingsCounted == serial => db.sightings >= Cardinality(Watched \cap Range(db.events))

(* Requests that come one after the other lose nothing: no detection, no    *)
(* sighting, and no evidence is registered twice (evaluate_and_store,       *)
(* record_sightings, register_event_evidence).                              *)
SerialComplete == NoMissedDetection /\ EvidenceUnique /\ SightingsCounted
=============================================================================
