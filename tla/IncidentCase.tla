---------------------------- MODULE IncidentCase ----------------------------
(***************************************************************************)
(* Analysts at work on one tenant's incidents: the write operations of     *)
(* services/incidents.py behind api/incidents.py, and the chain of custody *)
(* of services/evidence.py behind api/evidence.py.                         *)
(*                                                                         *)
(* A request reads its rows, computes new column values in the process,    *)
(* and flushes them; an UPDATE sets the columns that differ from what was  *)
(* read and waits for a row that another transaction has updated.  Nothing *)
(* notices that a row has changed since it was read.  A link updates the   *)
(* incident before the evidence, in every request, so the rows of a flush  *)
(* are modelled as locked together.  After the flush only the audit record *)
(* is written (AuditChain); it may fail, like anything before it.          *)
(***************************************************************************)
EXTENDS Naturals, Sequences, FiniteSets, SequencesExt

CONSTANTS
  Requests,      \* request threads of the API
  Grouped,       \* ids of the incidents that correlation has grouped
  StoryEvidence, \* [Grouped -> the evidence their storylines cite]
  Alerts,        \* alert ids
  Evidence,      \* ids of stored evidence, all of it sealed
  StatusInputs,  \* statuses that clients send, also unsupported ones
  Blank,         \* a text of white space only
  Text,          \* any other text
  None,          \* null
  MaxRequests    \* bound: requests served in a behaviour

INCIDENT_STATUSES ==
  {"grouped", "new", "triaging", "investigating", "contained", "eradicated", "recovered", "closed"}

ASSUME CaseAssumption ==
  /\ MaxRequests \in Nat
  /\ Grouped \cap (0..MaxRequests) = {}
  /\ None \notin Grouped \cup Evidence \cup Alerts \cup (0..MaxRequests)
  /\ None \notin INCIDENT_STATUSES
  /\ \A g \in Grouped : StoryEvidence[g] \subseteq Evidence

VARIABLES
  incidents,     \* the committed incidents rows, by id
  evidence,      \* the committed evidence rows, by id
  alerts,        \* [Alerts -> alerts.status]
  tx,            \* [Requests -> the request being served]
  served,        \* requests begun so far
  acked,         \* requests answered with success (history)
  shared         \* columns that two open requests have held at once (history)

rows == <<incidents, evidence, alerts>>
vars == <<rows, tx, served, acked, shared>>

\* A timeline entry: its kind, the request that wrote it (0 for correlation),
\* and the status it tells of.
TimelineEvent(kind, by, status) == [kind |-> kind, by |-> by, status |-> status]

\* A new incidents row.
Incident(alert, status, cited, created) ==
  [source_alert_id |-> alert, status |-> status, assignee |-> None,
   evidence_ids |-> cited, notes |-> <<>>, tasks |-> <<>>,
   root_cause |-> None, lessons_learned |-> None, timeline |-> <<created>>]

\* A request.  row and evidence_row are the rows as read, new and
\* evidence_new as the handler leaves them.
NewTx(pc, op, n) ==
  [pc |-> pc, op |-> op, n |-> n, value |-> None, alert |-> None,
   inc |-> None, row |-> None, new |-> None,
   ev |-> None, evidence_row |-> None, evidence_new |-> None]

Idle == NewTx("idle", None, 0)

Init ==
  /\ incidents = [g \in Grouped |->
       Incident(None, "grouped", StoryEvidence[g], TimelineEvent("created", 0, "grouped"))]
  /\ evidence = [e \in Evidence |-> [incident_id |-> None, history |-> <<>>, custody |-> <<>>]]
  /\ alerts = [a \in Alerts |-> "open"]
  /\ tx = [r \in Requests |-> Idle]
  /\ served = 0
  /\ acked = {}
  /\ shared = {}

-----------------------------------------------------------------------------
(* Transactions                                                             *)
Others(r) == Requests \ {r}

\* The columns t has read and will write: a link and an entry of the chain of
\* custody write different columns of the evidence.
Held(t) ==
  {<<"incident", i>> : i \in {t.inc} \ {None}} \cup
  {<<t.op, e>> : e \in IF t.pc = "lookup" THEN {} ELSE {t.ev} \ {None}}

\* Request r becomes t.
Reads(r, t) ==
  /\ tx' = [tx EXCEPT ![r] = t]
  /\ shared' = shared \cup {c \in Held(t) : \E q \in Others(r) : c \in Held(tx[q])}

Begin(r, t) ==
  /\ tx[r] = Idle
  /\ served < MaxRequests
  /\ served' = served + 1
  /\ Reads(r, t)
  /\ UNCHANGED <<rows, acked>>

\* Mutant: every column is written.
Written_AllColumns(read, new, row) == new

\* An UPDATE sets the columns whose value differs from the one that was read.
Written(read, new, row) ==
  [c \in DOMAIN row |-> IF new[c] # read[c] THEN new[c] ELSE row[c]]

SavedIncidents(t) ==
  [i \in DOMAIN incidents \cup ({t.inc} \ {None}) |->
     IF i # t.inc THEN incidents[i]
     ELSE IF i \in DOMAIN incidents THEN Written(t.row, t.new, incidents[i]) ELSE t.new]

SavedEvidence(t) ==
  [e \in Evidence |->
     IF e = t.ev THEN Written(t.evidence_row, t.evidence_new, evidence[e]) ELSE evidence[e]]

SavedAlerts(t) == [a \in Alerts |-> IF a = t.alert THEN "promoted" ELSE alerts[a]]

\* get_db on an exception: nothing is kept.
Rollback(r) ==
  /\ tx' = [tx EXCEPT ![r] = Idle]
  /\ UNCHANGED <<rows, served, acked, shared>>

\* A failure anywhere before the commit, the audit record's included.
Fail(r) == tx[r].pc # "idle" /\ Rollback(r)

\* Another open transaction has written a row that r writes.
Waits(r) ==
  \E q \in Others(r) :
    /\ tx[q].pc = "commit"
    /\ \/ tx[r].inc # None /\ tx[q].inc = tx[r].inc
       \/ tx[r].ev # None /\ tx[q].ev = tx[r].ev
       \/ tx[r].alert # None /\ tx[q].alert = tx[r].alert

\* db.flush() of request r, which becomes t.
Flush(r, t) ==
  /\ ~Waits(r)
  /\ tx' = [tx EXCEPT ![r] = [t EXCEPT !.pc = "commit"]]
  /\ UNCHANGED <<rows, served, acked, shared>>

Commit(r) ==
  /\ tx[r].pc = "commit"
  /\ incidents' = SavedIncidents(tx[r])
  /\ evidence' = SavedEvidence(tx[r])
  /\ alerts' = SavedAlerts(tx[r])
  /\ acked' = acked \cup {[n |-> tx[r].n, op |-> tx[r].op, inc |-> tx[r].inc, ev |-> tx[r].ev]}
  /\ tx' = [tx EXCEPT ![r] = Idle]
  /\ UNCHANGED <<served, shared>>
-----------------------------------------------------------------------------
(* An alert becomes an incident                                             *)
\* POST /incidents/from-alert: the alert and its incident are looked up.  An
\* incident that is there is returned as it is.
ConvertAlert(r, a) ==
  LET existing == \E i \in DOMAIN incidents : incidents[i].source_alert_id = a
      t == NewTx(IF existing THEN "commit" ELSE "create", "from_alert", served + 1)
  IN  Begin(r, IF existing THEN t ELSE [t EXCEPT !.alert = a])

\* Mutant: incidents have no unique fingerprint.
FingerprintTaken_Never(a) == FALSE

\* uq_incident_fingerprint: the fingerprint names the alert.
FingerprintTaken(a) == \E i \in DOMAIN incidents : incidents[i].source_alert_id = a

\* create_from_alert: the insert.
CreateFromAlert(r) ==
  LET t == tx[r]
  IN  /\ t.pc = "create"
      /\ IF FingerprintTaken(t.alert)
         THEN Rollback(r)
         ELSE Flush(r, [t EXCEPT !.inc = t.n,
                !.new = Incident(t.alert, "new", {}, TimelineEvent("created_from_alert", t.n, "new"))])

-----------------------------------------------------------------------------
(* Operations on an incident                                                *)

\* get_incident, at the start of every handler.
GetIncident(r, op, i, e, value) ==
  Begin(r, [NewTx(IF op = "evidence_link" THEN "lookup" ELSE "change", op, served + 1) EXCEPT
              !.inc = i, !.row = incidents[i], !.ev = e, !.value = value])

\* POST /incidents/{incident_id}/status, assign, notes, tasks, root-cause,
\* lessons, evidence
ChangeStatus(r, i, status) == GetIncident(r, "status_change", i, None, status)
AssignIncident(r, i) == GetIncident(r, "assignment", i, None, Text)
Note(r, i, text) == GetIncident(r, "note", i, None, text)
Task(r, i, text) == GetIncident(r, "task", i, None, text)
RootCause(r, i, text) == GetIncident(r, "root_cause", i, None, text)
Lessons(r, i, text) == GetIncident(r, "lessons", i, None, text)
LinkEvidence(r, i, e) == GetIncident(r, "evidence_link", i, e, None)

AtChange(r, op) == tx[r].pc = "change" /\ tx[r].op = op

\* The end of every operation: the timeline is extended and all is flushed.
Record(r, row, status) ==
  Flush(r, [tx[r] EXCEPT !.new =
    [row EXCEPT !.timeline = Append(@, TimelineEvent(tx[r].op, tx[r].n, status))]])

SetStatus(r) ==
  /\ AtChange(r, "status_change")
  /\ IF tx[r].value \in INCIDENT_STATUSES
     THEN Record(r, [tx[r].row EXCEPT !.status = tx[r].value], tx[r].value)
     ELSE Rollback(r)

\* Mutant: an assignment takes up an incident that is not grouped, too.
Assign_AnyStatus(r) ==
  /\ AtChange(r, "assignment")
  /\ Record(r, [tx[r].row EXCEPT !.assignee = tx[r].value, !.status = "triaging"], None)

\* assign: a grouped incident is taken up.
Assign(r) ==
  /\ AtChange(r, "assignment")
  /\ Record(r, [tx[r].row EXCEPT !.assignee = tx[r].value,
                                 !.status = IF @ = "grouped" THEN "triaging" ELSE @], None)

AddNote(r) ==
  /\ AtChange(r, "note")
  /\ IF tx[r].value = Blank
     THEN Rollback(r)
     ELSE Record(r, [tx[r].row EXCEPT !.notes = Append(@, tx[r].n)], None)

AddTask(r) ==
  /\ AtChange(r, "task")
  /\ IF tx[r].value = Blank
     THEN Rollback(r)
     ELSE Record(r, [tx[r].row EXCEPT !.tasks = Append(@, tx[r].n)], None)

\* text.strip() or None
Stripped(text) == IF text = Blank THEN None ELSE text

SetRootCause(r) ==
  /\ AtChange(r, "root_cause")
  /\ Record(r, [tx[r].row EXCEPT !.root_cause = Stripped(tx[r].value)], None)

SetLessons(r) ==
  /\ AtChange(r, "lessons")
  /\ Record(r, [tx[r].row EXCEPT !.lessons_learned = Stripped(tx[r].value)], None)

-----------------------------------------------------------------------------
(* Evidence                                                                 *)

BoundElsewhere(e, i) == evidence[e].incident_id \notin {None, i}

\* link_evidence: the evidence is looked up and must not be bound elsewhere.
LookUpEvidence(r) ==
  LET t == tx[r]
  IN  /\ t.pc = "lookup"
      /\ IF BoundElsewhere(t.ev, t.inc)
         THEN Rollback(r)
         ELSE /\ Reads(r, [t EXCEPT !.pc = "change", !.evidence_row = evidence[t.ev]])
              /\ UNCHANGED <<rows, served, acked>>

\* link_evidence: both sides are written.
Link(r) ==
  LET t == tx[r]
      linked == [t.evidence_row EXCEPT !.incident_id = t.inc, !.history = Append(@, t.n)]
  IN  /\ AtChange(r, "evidence_link")
      /\ Flush(r, [t EXCEPT
           !.new = [t.row EXCEPT !.evidence_ids = @ \cup {t.ev},
                                 !.timeline = Append(@, TimelineEvent("evidence_link", t.n, None))],
           !.evidence_new = linked])

\* POST /evidence/{evidence_id}/custody
CustodyEvent(r, e) ==
  Begin(r, [NewTx("change", "custody", served + 1) EXCEPT !.ev = e, !.evidence_row = evidence[e]])

\* append_custody
AppendCustody(r) ==
  /\ AtChange(r, "custody")
  /\ Flush(r, [tx[r] EXCEPT !.evidence_new =
                 [tx[r].evidence_row EXCEPT !.custody = Append(@, tx[r].n)]])

-----------------------------------------------------------------------------
Call(r) ==
  \/ \E a \in Alerts : ConvertAlert(r, a)
  \/ \E e \in Evidence : CustodyEvent(r, e)
  \/ \E i \in DOMAIN incidents :
       \/ \E status \in StatusInputs : ChangeStatus(r, i, status)
       \/ AssignIncident(r, i)
       \/ \E text \in {Blank, Text} :
            Note(r, i, text) \/ Task(r, i, text) \/ RootCause(r, i, text) \/ Lessons(r, i, text)
       \/ \E e \in Evidence : LinkEvidence(r, i, e)

Work(r) ==
  \/ CreateFromAlert(r)
  \/ SetStatus(r) \/ Assign(r) \/ AddNote(r) \/ AddTask(r)
  \/ SetRootCause(r) \/ SetLessons(r)
  \/ LookUpEvidence(r) \/ Link(r) \/ AppendCustody(r)
  \/ Commit(r)

Next == \E r \in Requests : Call(r) \/ Work(r) \/ Fail(r)

Spec == Init /\ [][Next]_vars
-----------------------------------------------------------------------------
Ops == {"from_alert", "status_change", "assignment", "note", "task",
        "root_cause", "lessons", "evidence_link", "custody"}
Numbers == 1..MaxRequests

(* Types: rows keep to their columns, evidence is bound to incidents that   *)
(* exist, and a request that is about to write has read what it changes.    *)
TypeOK ==
  /\ DOMAIN incidents \subseteq Grouped \cup Numbers
  /\ \A i \in DOMAIN incidents :
       /\ incidents[i].source_alert_id \in Alerts \cup {None}
       /\ incidents[i].status \in INCIDENT_STATUSES
       /\ incidents[i].evidence_ids \subseteq Evidence
       /\ incidents[i].notes \in Seq(Numbers) /\ incidents[i].tasks \in Seq(Numbers)
       /\ incidents[i].timeline # <<>>
  /\ \A e \in Evidence :
       /\ evidence[e].incident_id \in DOMAIN incidents \cup {None}
       /\ evidence[e].history \in Seq(Numbers) /\ evidence[e].custody \in Seq(Numbers)
  /\ alerts \in [Alerts -> {"open", "promoted"}]
  /\ \A r \in Requests :
       /\ tx[r].pc \in {"idle", "create", "lookup", "change", "commit"}
       /\ tx[r].pc \in {"lookup", "change"} /\ tx[r].op # "custody" => tx[r].inc \in DOMAIN incidents
       /\ tx[r].pc # "idle" => tx[r].op \in Ops
  /\ served \in 0..MaxRequests
  /\ \A a \in acked : a.n \in Numbers /\ a.op \in Ops

(* However often and by however many analysts an alert is converted, it     *)
(* becomes one incident, and it is marked as promoted exactly when that     *)
(* incident exists (create_from_alert, uq_incident_fingerprint).            *)
OneIncidentPerAlert ==
  /\ \A i, j \in DOMAIN incidents :
       incidents[i].source_alert_id = incidents[j].source_alert_id
         /\ incidents[i].source_alert_id # None => i = j
  /\ \A a \in Alerts :
       alerts[a] = "promoted" <=> \E i \in DOMAIN incidents : incidents[i].source_alert_id = a

Alone(column, id) == <<column, id>> \notin shared

Entries(timeline) == {timeline[k].by : k \in DOMAIN timeline}

(* What a request was told is recorded stays recorded, in the timeline and  *)
(* in the list it went to, unless two requests held the same list at once.  *)
(* Requests that overlap on different columns of a row do not disturb each  *)
(* other (the read, copy and assign of every operation).                    *)
EntriesKept ==
  \A a \in acked :
    /\ a.inc # None /\ Alone("incident", a.inc) =>
         LET row == incidents[a.inc]
         IN  /\ a.n \in Entries(row.timeline)
             /\ a.op = "note" => a.n \in Range(row.notes)
             /\ a.op = "task" => a.n \in Range(row.tasks)
             /\ a.op = "evidence_link" => a.ev \in row.evidence_ids
    /\ a.op = "custody" /\ Alone("custody", a.ev) => a.n \in Range(evidence[a.ev].custody)
    /\ a.op = "evidence_link" /\ Alone("evidence_link", a.ev) => a.n \in Range(evidence[a.ev].history)

\* What an entry of the timeline makes of a status.
Replay(status, entry) ==
  CASE entry.status # None -> entry.status
    [] entry.kind = "assignment" /\ status = "grouped" -> "triaging"
    [] OTHER -> status

(* "timeline reconstructs correctly" (BLUE_TEAM_OS_BUILD_SPEC.md:364): the  *)
(* status of an incident that no two requests held at once is what its      *)
(* timeline tells, though an assignment records no status (set_status,      *)
(* assign).                                                                 *)
TimelineReconstructs ==
  \A i \in DOMAIN incidents : Alone("incident", i) =>
    incidents[i].status = FoldLeft(Replay, None, incidents[i].timeline)

(* Evidence that a request has linked to an incident stays bound to that    *)
(* incident, so that no second one can claim it, unless two links of the    *)
(* evidence were in progress at once (link_evidence, EVIDENCE_BOUND).       *)
EvidenceBoundOnce ==
  \A a \in acked : a.op = "evidence_link" /\ Alone("evidence_link", a.ev) =>
    evidence[a.ev].incident_id = a.inc

Answered == {a.n : a \in acked}

(* A request that failed leaves no entry anywhere, however far it had come  *)
(* (get_db).                                                                *)
OnlyAnswered ==
  /\ \A i \in DOMAIN incidents :
       Entries(incidents[i].timeline) \cup Range(incidents[i].notes) \cup Range(incidents[i].tasks)
         \subseteq Answered \cup {0}
  /\ \A e \in Evidence : Range(evidence[e].history) \cup Range(evidence[e].custody) \subseteq Answered

(* Answers stand: what a request was told has happened stays recorded and   *)
(* bound, and what failed has left nothing, unless two requests held the    *)
(* same columns at once (get_db and the list updates of incidents.py).      *)
AnswersStand == TypeOK /\ EntriesKept /\ EvidenceBoundOnce /\ OnlyAnswered
=============================================================================
