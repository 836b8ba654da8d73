------------------------- MODULE IncidentCaseProofs -------------------------
(***************************************************************************)
(* Proofs about IncidentCase for any incidents, alerts and evidence, and   *)
(* any number of requests that overlap.  A request that has read a row     *)
(* which no other request holds has read what is still there when it       *)
(* commits; the inductive invariant says this of every open request, and   *)
(* what each will write.                                                   *)
(***************************************************************************)
EXTENDS IncidentCase, SequenceTheorems, TLAPS

Replaying == INSTANCE FoldLaws WITH Op <- Replay

-----------------------------------------------------------------------------
(* The inductive invariant                                                  *)
Ids == Grouped \cup Numbers
Entry == [kind : Ops \cup {"created", "created_from_alert"}, by : 0..MaxRequests, status : INCIDENT_STATUSES \cup {None}]

IncidentColumns ==
  {"source_alert_id", "status", "assignee", "evidence_ids", "notes", "tasks", "root_cause", "lessons_learned", "timeline"}
EvidenceColumns == {"incident_id", "history", "custody"}
TxColumns == {"pc", "op", "n", "value", "alert", "inc", "row", "new", "ev", "evidence_row", "evidence_new"}

IsIncident(row) ==
  /\ DOMAIN row = IncidentColumns
  /\ row.source_alert_id \in Alerts \cup {None} /\ row.status \in INCIDENT_STATUSES /\ row.evidence_ids \subseteq Evidence
  /\ row.notes \in Seq(Numbers) /\ row.tasks \in Seq(Numbers) /\ row.timeline \in Seq(Entry) /\ row.timeline # <<>>

IsEvidence(row) ==
  /\ DOMAIN row = EvidenceColumns
  /\ row.incident_id \in DOMAIN incidents \cup {None} /\ row.history \in Seq(Numbers) /\ row.custody \in Seq(Numbers)

\* The requests that an incident or evidence names.
NamedIn(row) == Entries(row.timeline) \cup Range(row.notes) \cup Range(row.tasks)
NamedOn(row) == Range(row.history) \cup Range(row.custody)

\* What an operation makes of the incident it has read.
Edited(t) ==
  /\ IsIncident(t.new) /\ t.new.source_alert_id = t.row.source_alert_id
  /\ \E e \in Entry :
       /\ e.by = t.n /\ t.new.timeline = Append(t.row.timeline, e) /\ t.new.status = Replay(t.row.status, e)
  /\ t.new.notes = IF t.op = "note" THEN Append(t.row.notes, t.n) ELSE t.row.notes
  /\ t.new.tasks = IF t.op = "task" THEN Append(t.row.tasks, t.n) ELSE t.row.tasks
  /\ t.new.evidence_ids = IF t.op = "evidence_link" THEN t.row.evidence_ids \cup {t.ev} ELSE t.row.evidence_ids

\* What an operation makes of the evidence it has read.
Bound(t) ==
  /\ IsEvidence(t.evidence_new)
  /\ t.evidence_new.incident_id = IF t.op = "evidence_link" THEN t.inc ELSE t.evidence_row.incident_id
  /\ t.evidence_new.history = IF t.op = "evidence_link" THEN Append(t.evidence_row.history, t.n) ELSE t.evidence_row.history
  /\ t.evidence_new.custody = IF t.op = "custody" THEN Append(t.evidence_row.custody, t.n) ELSE t.evidence_row.custody

\* A request about an alert: about to insert, inserted, or nothing to do.
Converting(t) ==
  /\ t.ev = None
  /\ \/ t.pc = "create" /\ t.alert \in Alerts /\ t.inc = None
     \/ /\ t.pc = "commit" /\ t.alert \in Alerts /\ t.inc = t.n
        /\ t.new = Incident(t.alert, "new", {}, TimelineEvent("created_from_alert", t.n, "new"))
        /\ \A i \in DOMAIN incidents : incidents[i].source_alert_id # t.alert
     \/ t.pc = "commit" /\ t.alert = None /\ t.inc = None
  /\ t.alert # None => t.n \notin DOMAIN incidents

\* A request about an incident.
Working(t) ==
  /\ t.alert = None /\ t.inc \in DOMAIN incidents /\ IsIncident(t.row) /\ NamedIn(t.row) \subseteq Answered \cup {0}
  /\ IF t.op = "evidence_link" THEN t.ev \in Evidence ELSE t.ev = None
  /\ t.pc \in (IF t.op = "evidence_link" THEN {"lookup", "change", "commit"} ELSE {"change", "commit"})
  /\ t.pc = "commit" => Edited(t)

\* A request about evidence that it has read.
Handling(t) ==
  /\ t.ev \in Evidence /\ IsEvidence(t.evidence_row) /\ NamedOn(t.evidence_row) \subseteq Answered
  /\ t.op = "evidence_link" => t.evidence_row.incident_id \in {None, t.inc}
  /\ t.pc = "commit" => Bound(t)

Sound(t) ==
  /\ DOMAIN t = TxColumns /\ t.op \in Ops /\ t.n \in 1..served
  /\ t.op = "from_alert" => Converting(t)
  /\ t.op \notin {"from_alert", "custody"} => Working(t)
  /\ t.op = "custody" => t.alert = None /\ t.inc = None /\ t.pc \in {"change", "commit"}
  /\ t.op = "custody" \/ (t.op = "evidence_link" /\ t.pc # "lookup") => Handling(t)

Rows ==
  /\ DOMAIN incidents \subseteq Grouped \cup 1..served /\ \A i \in DOMAIN incidents : IsIncident(incidents[i])
  /\ DOMAIN evidence = Evidence /\ \A e \in Evidence : IsEvidence(evidence[e])
  /\ alerts \in [Alerts -> {"open", "promoted"}]
  /\ served \in 0..MaxRequests
  /\ \A a \in acked : a.n \in 1..served /\ a.op \in Ops

\* What was answered names rows that exist.
Named ==
  \A a \in acked :
    /\ a.inc # None => a.inc \in DOMAIN incidents
    /\ a.op = "evidence_link" => a.inc # None /\ a.ev \in Evidence
    /\ a.op = "custody" => a.ev \in Evidence

\* Two open requests: they have numbers of their own, what both hold is shared,
\* and they do not both insert an incident for one alert.
Beside(t, u, sh) ==
  /\ t.n # u.n
  /\ Held(t) \cap Held(u) \subseteq sh
  /\ t.pc = "commit" /\ u.pc = "commit" /\ t.alert # None => t.alert # u.alert

Apart ==
  \A r, q \in Requests : r # q /\ tx[r].pc # "idle" /\ tx[q].pc # "idle" => Beside(tx[r], tx[q], shared)

\* What was read and is not shared is still there.
Current(t) ==
  /\ t.inc \in DOMAIN incidents /\ Alone("incident", t.inc) =>
       \A c \in IncidentColumns : t.row[c] = incidents[t.inc][c]
  /\ t.op = "evidence_link" /\ t.pc # "lookup" /\ Alone("evidence_link", t.ev) =>
       /\ t.evidence_row.incident_id = evidence[t.ev].incident_id
       /\ t.evidence_row.history = evidence[t.ev].history
  /\ t.op = "custody" /\ Alone("custody", t.ev) => t.evidence_row.custody = evidence[t.ev].custody

Fits(t) == t.pc # "idle" /\ Sound(t) /\ Current(t)

Facts == OneIncidentPerAlert /\ EntriesKept /\ EvidenceBoundOnce /\ OnlyAnswered /\ TimelineReconstructs

CInv ==
  /\ Rows /\ Named /\ Facts
  /\ DOMAIN tx = Requests /\ Apart
  /\ \A r \in Requests : tx[r] = Idle \/ Fits(tx[r])

-----------------------------------------------------------------------------
(* What the timeline tells                                                  *)
Told(timeline) == FoldLeft(Replay, None, timeline)

LEMMA ToldFold ==
  ASSUME NEW timeline
  PROVE  Told(timeline) = Replaying!Fold(None, timeline)
BY DEF Told, Replaying!Fold, Replaying!FoldLeft, FoldLeft, Replaying!MapThenFoldSet, MapThenFoldSet,
       Replaying!Max, Max

LEMMA ToldAppend ==
  ASSUME NEW timeline \in Seq(Entry), NEW e \in Entry
  PROVE  Told(Append(timeline, e)) = Replay(Told(timeline), e)
BY ToldFold, Replaying!FoldAppend

LEMMA ToldFirst ==
  ASSUME NEW e \in Entry
  PROVE  Told(<<e>>) = Replay(None, e)
<1>1. <<>> \in Seq(Entry) /\ Append(<<>>, e) = <<e>>
  OBVIOUS
<1>2. Told(<<>>) = None
  BY ToldFold, Replaying!FoldEmpty
<1>3. QED
  BY <1>1, <1>2, ToldAppend

-----------------------------------------------------------------------------
(* Open requests                                                            *)

\* What two requests are to each other.
LEMMA BesideBothWays ==
  ASSUME NEW t, NEW u, NEW sh, Beside(t, u, sh)
  PROVE  Beside(u, t, sh)
<1>1. /\ t.n # u.n /\ Held(t) \cap Held(u) \subseteq sh
      /\ t.pc = "commit" /\ u.pc = "commit" /\ t.alert # None => t.alert # u.alert
  BY DEF Beside
<1>2. Held(u) \cap Held(t) \subseteq sh
  BY <1>1
<1>3. QED
  BY <1>1, <1>2 DEF Beside

LEMMA BesideMore ==
  ASSUME NEW t, NEW u, NEW sh, NEW more, Beside(t, u, sh), sh \subseteq more
  PROVE  Beside(t, u, more)
BY DEF Beside

LEMMA IdlePc == Idle.pc = "idle" /\ Idle.inc = None /\ Idle.ev = None /\ Idle.alert = None
BY DEF Idle, NewTx

\* One request becomes t, which stands beside the others.
LEMMA ApartKept ==
  ASSUME DOMAIN tx = Requests, Apart, shared \subseteq shared',
         NEW r \in Requests, NEW t, tx' = [tx EXCEPT ![r] = t],
         t.pc = "idle" \/ \A q \in Others(r) : tx[q].pc # "idle" => Beside(t, tx[q], shared')
  PROVE  Apart'
<1> SUFFICES ASSUME NEW p \in Requests, NEW q \in Requests, p # q, tx'[p].pc # "idle", tx'[q].pc # "idle"
             PROVE  Beside(tx'[p], tx'[q], shared')
  BY DEF Apart, Beside
<1>1. tx'[r] = t /\ \A s \in Requests : s # r => tx'[s] = tx[s]
  OBVIOUS
<1>2. CASE p = r
  BY <1>1, <1>2 DEF Others
<1>3. CASE q = r
  BY <1>1, <1>3, BesideBothWays DEF Others
<1>4. CASE p # r /\ q # r
  BY <1>1, <1>4, BesideMore DEF Apart
<1>5. QED
  BY <1>2, <1>3, <1>4

\* While no row changes, what the rows say stays true: sharing only grows.
LEMMA FactsKept ==
  ASSUME Rows, Named, Facts, UNCHANGED <<rows, acked>>, shared \subseteq shared',
         served' \in served..MaxRequests
  PROVE  Rows' /\ Named' /\ Facts'
<1>1. incidents' = incidents /\ evidence' = evidence /\ alerts' = alerts /\ acked' = acked
  BY DEF rows
<1>2. MaxRequests \in Nat /\ served \in Nat /\ served' \in Nat /\ served <= served' /\ served' <= MaxRequests
  BY CaseAssumption DEF Rows
<1>3. Rows'
  BY <1>1, <1>2 DEF Rows, IsIncident, IsEvidence
<1>4. Named'
  BY <1>1 DEF Named
<1>5. OneIncidentPerAlert' /\ OnlyAnswered'
  BY <1>1 DEF Facts, OneIncidentPerAlert, OnlyAnswered, Answered
<1>6. \A c, id : Alone(c, id)' => Alone(c, id)
  BY DEF Alone
<1>7. EvidenceBoundOnce'
  BY <1>1, <1>6 DEF Facts, EvidenceBoundOnce
<1>8. TimelineReconstructs'
  BY <1>1, <1>6 DEF Facts, TimelineReconstructs
<1>9. EntriesKept'
  BY <1>1, <1>6 DEF Facts, EntriesKept
<1>10. QED
  BY <1>3, <1>4, <1>5, <1>7, <1>8, <1>9 DEF Facts

\* So does what an open request has read.
LEMMA FitsKept ==
  ASSUME NEW t, Fits(t), UNCHANGED <<rows, acked>>, shared \subseteq shared',
         served \in Nat, served' \in Nat, served <= served'
  PROVE  Fits(t)'
<1>1. incidents' = incidents /\ evidence' = evidence /\ acked' = acked
  BY DEF rows
<1>2. Sound(t)'
  <2>1. Sound(t) /\ (t.n \in 1..served => t.n \in 1..served')
    BY DEF Fits
  <2>2. Converting(t)' <=> Converting(t)
    BY <1>1 DEF Converting
  <2>3. Working(t)' <=> Working(t)
    BY <1>1 DEF Working, Edited, IsIncident, NamedIn, Answered
  <2>4. Handling(t)' <=> Handling(t)
    BY <1>1 DEF Handling, Bound, IsEvidence, NamedOn, Answered
  <2>5. QED
    BY <2>1, <2>2, <2>3, <2>4 DEF Sound
<1>3. \A c, id : Alone(c, id)' => Alone(c, id)
  BY DEF Alone
<1>4. Current(t)'
  BY <1>1, <1>3 DEF Fits, Current
<1>5. QED
  BY <1>2, <1>4 DEF Fits

\* A step of a request that changes no row.
LEMMA RequestStep ==
  ASSUME CInv, UNCHANGED <<rows, acked>>, shared \subseteq shared', served' \in served..MaxRequests,
         NEW r \in Requests, NEW t, tx' = [tx EXCEPT ![r] = t],
         t = Idle \/ (Fits(t)' /\ \A q \in Others(r) : tx[q].pc # "idle" => Beside(t, tx[q], shared'))
  PROVE  CInv'
<1>1. Rows /\ Named /\ Facts /\ DOMAIN tx = Requests /\ Apart
  BY DEF CInv
<1>2. Rows' /\ Named' /\ Facts'
  BY <1>1, FactsKept
<1>3. Apart'
  BY <1>1, ApartKept, IdlePc
<1>4. served \in Nat /\ served' \in Nat /\ served <= served'
  BY <1>1, CaseAssumption DEF Rows
<1>5. ASSUME NEW q \in Requests PROVE (tx[q] = Idle \/ Fits(tx[q]))'
  <2>1. CASE q = r
    BY <1>1, <2>1
  <2>2. CASE q # r
    <3>1. tx'[q] = tx[q]
      BY <2>2, <1>1
    <3>2. PICK u : u = tx[q]
      OBVIOUS
    <3>3. u = Idle \/ Fits(u)
      BY <3>2 DEF CInv
    <3>4. u = Idle \/ Fits(u)'
      BY <3>3, <1>4, FitsKept
    <3>5. QED
      BY <3>1, <3>2, <3>4
  <2>3. QED
    BY <2>1, <2>2
<1>6. DOMAIN tx' = Requests
  BY <1>1
<1>7. QED
  BY <1>2, <1>3, <1>5, <1>6 DEF CInv

-----------------------------------------------------------------------------
(* Requests that begin                                                      *)
LEMMA NewTxColumns ==
  ASSUME NEW pc, NEW op, NEW n
  PROVE  LET t == NewTx(pc, op, n)
         IN  /\ DOMAIN t = TxColumns /\ t.pc = pc /\ t.op = op /\ t.n = n
             /\ t.alert = None /\ t.inc = None /\ t.ev = None
BY DEF NewTx, TxColumns

\* A request that begins has a number of its own, and what it reads while
\* others hold it is shared from then on.
LEMMA BeginKeeps ==
  ASSUME CInv, NEW r \in Requests, NEW t, Begin(r, t), t.n = served + 1,
         t.pc = "commit" => t.alert = None, Fits(t)'
  PROVE  CInv'
<1>1. /\ served < MaxRequests /\ served' = served + 1 /\ UNCHANGED <<rows, acked>>
      /\ tx' = [tx EXCEPT ![r] = t]
      /\ shared' = shared \cup {c \in Held(t) : \E q \in Others(r) : c \in Held(tx[q])}
  BY DEF Begin, Reads
<1>2. served \in Nat /\ MaxRequests \in Nat
  BY CaseAssumption DEF CInv, Rows
<1>3. served' \in served..MaxRequests /\ shared \subseteq shared'
  BY <1>1, <1>2
<1>4. ASSUME NEW q \in Others(r), tx[q].pc # "idle" PROVE Beside(t, tx[q], shared')
  <2>1. PICK u : u = tx[q]
    OBVIOUS
  <2>2. u.pc # "idle" /\ Sound(u)
    BY <2>1, <1>4, IdlePc DEF CInv, Fits, Others
  <2>3. u.n # t.n
    BY <2>2, <1>2 DEF Sound
  <2>4. Held(t) \cap Held(u) \subseteq shared'
    BY <1>1, <2>1
  <2>5. Beside(t, u, shared')
    <3>1. t.pc = "commit" /\ u.pc = "commit" /\ t.alert # None => t.alert # u.alert
      OBVIOUS
    <3>2. QED
      BY <2>3, <2>4, <3>1 DEF Beside
  <2>6. QED
    BY <2>1, <2>5
<1>5. QED
  BY <1>1, <1>3, <1>4, RequestStep

\* What an incident or evidence that is read has in its columns.
LEMMA ReadIncident ==
  ASSUME Rows, Facts, NEW i \in DOMAIN incidents, NEW row, row = incidents[i]
  PROVE  IsIncident(row) /\ NamedIn(row) \subseteq Answered \cup {0}
BY DEF Rows, Facts, OnlyAnswered, NamedIn

LEMMA ReadEvidence ==
  ASSUME Rows, Facts, NEW e \in Evidence, NEW row, row = evidence[e]
  PROVE  IsEvidence(row) /\ NamedOn(row) \subseteq Answered
BY DEF Rows, Facts, OnlyAnswered, NamedOn

LEMMA ConvertAlertKeeps ==
  ASSUME CInv, NEW r \in Requests, NEW a \in Alerts, ConvertAlert(r, a)
  PROVE  CInv'
<1> DEFINE existing == \E i \in DOMAIN incidents : incidents[i].source_alert_id = a
           new == NewTx(IF existing THEN "commit" ELSE "create", "from_alert", served + 1)
<1>1. PICK t : t = IF existing THEN new ELSE [new EXCEPT !.alert = a]
  OBVIOUS
<1>2. Begin(r, t)
  BY <1>1 DEF ConvertAlert
<1>3. served' = served + 1 /\ served \in Nat /\ served < MaxRequests /\ incidents' = incidents
  BY <1>2 DEF Begin, CInv, Rows, rows
<1>4. PICK pc, n : pc = (IF existing THEN "commit" ELSE "create") /\ n = served + 1
  OBVIOUS
<1>5. new = NewTx(pc, "from_alert", n)
  BY <1>4
<1> HIDE DEF existing, new
<1>6. /\ DOMAIN t = TxColumns /\ t.pc = pc /\ t.op = "from_alert" /\ t.n = n
      /\ t.inc = None /\ t.ev = None
  <2>1. /\ DOMAIN new = TxColumns /\ new.pc = pc /\ new.op = "from_alert" /\ new.n = n
        /\ new.alert = None /\ new.inc = None /\ new.ev = None
    BY <1>5, NewTxColumns
  <2>2. QED
    BY <2>1, <1>1 DEF TxColumns
<1>7. IF existing THEN t.alert = None ELSE t.alert = a
  BY <1>1, <1>5, NewTxColumns DEF TxColumns
<1>8. Converting(t)'
  <2>1. a # None /\ \A i \in DOMAIN incidents : i \in Grouped \cup 1..served
    BY CaseAssumption DEF CInv, Rows
  <2>2. n \notin DOMAIN incidents
    <3>1. n \in 0..MaxRequests /\ n \notin 1..served
      BY <1>3, <1>4, CaseAssumption
    <3>2. QED
      BY <2>1, <3>1, CaseAssumption
  <2>3. t.alert \in Alerts => t.pc = "create"
    BY <1>4, <1>6, <1>7, CaseAssumption
  <2>4. t.alert = None \/ t.alert \in Alerts
    BY <1>7
  <2>5. t.alert = None => t.pc = "commit"
    BY <1>4, <1>6, <1>7, CaseAssumption
  <2>6. QED
    BY <2>1, <2>2, <2>3, <2>4, <2>5, <1>3, <1>6 DEF Converting
<1>9. Fits(t)'
  <2>1. t.pc # "idle"
    BY <1>4, <1>6
  <2>2. t.n \in 1..served'
    BY <1>3, <1>4, <1>6
  <2>3. Sound(t)'
    BY <1>6, <1>8, <2>2 DEF Sound, Ops
  <2>4. None \notin DOMAIN incidents
    BY CaseAssumption DEF CInv, Rows
  <2>5. Current(t)'
    BY <1>3, <1>6, <2>4 DEF Current
  <2>6. QED
    BY <2>1, <2>3, <2>5 DEF Fits
<1>10. QED
  <2>1. t.pc = "commit" => t.alert = None
    BY <1>4, <1>6, <1>7
  <2>2. QED
    BY <1>2, <1>4, <1>6, <1>9, <2>1, BeginKeeps

LEMMA CustodyEventKeeps ==
  ASSUME CInv, NEW r \in Requests, NEW e \in Evidence, CustodyEvent(r, e)
  PROVE  CInv'
<1>1. PICK n, row : n = served + 1 /\ row = evidence[e]
  OBVIOUS
<1>2. PICK new : new = NewTx("change", "custody", n)
  OBVIOUS
<1>3. PICK t : t = [new EXCEPT !.ev = e, !.evidence_row = row]
  OBVIOUS
<1>4. Begin(r, t)
  BY <1>1, <1>2, <1>3 DEF CustodyEvent
<1>5. /\ served' = served + 1 /\ served \in Nat
      /\ incidents' = incidents /\ evidence' = evidence /\ acked' = acked
  BY <1>4 DEF Begin, CInv, Rows, rows
<1>6. /\ DOMAIN t = TxColumns /\ t.pc = "change" /\ t.op = "custody" /\ t.n = n
      /\ t.alert = None /\ t.inc = None /\ t.ev = e /\ t.evidence_row = row
  <2>1. /\ DOMAIN new = TxColumns /\ new.pc = "change" /\ new.op = "custody" /\ new.n = n
        /\ new.alert = None /\ new.inc = None
    BY <1>2, NewTxColumns
  <2>2. QED
    BY <2>1, <1>3 DEF TxColumns
<1>7. Handling(t)'
  <2>1. IsEvidence(row) /\ NamedOn(row) \subseteq Answered
    BY <1>1, ReadEvidence DEF CInv
  <2>2. IsEvidence(row)' /\ NamedOn(row) \subseteq Answered'
    BY <2>1, <1>5 DEF IsEvidence, Answered
  <2>3. QED
    BY <1>6, <2>2 DEF Handling
<1>8. Fits(t)'
  <2>1. t.n \in 1..served'
    BY <1>1, <1>5, <1>6
  <2>2. Sound(t)'
    BY <1>6, <1>7, <2>1 DEF Sound, Ops
  <2>3. None \notin DOMAIN incidents
    BY CaseAssumption DEF CInv, Rows
  <2>4. Current(t)'
    BY <1>1, <1>5, <1>6, <2>3 DEF Current
  <2>5. QED
    BY <1>6, <2>2, <2>4 DEF Fits
<1>9. QED
  BY <1>1, <1>4, <1>6, <1>8, BeginKeeps

CaseOps == Ops \ {"from_alert", "custody"}

LEMMA GetIncidentKeeps ==
  ASSUME CInv, NEW r \in Requests, NEW op \in CaseOps, NEW i \in DOMAIN incidents, NEW e, NEW value,
         IF op = "evidence_link" THEN e \in Evidence ELSE e = None,
         GetIncident(r, op, i, e, value)
  PROVE  CInv'
<1>1. PICK pc, n, row : /\ pc = (IF op = "evidence_link" THEN "lookup" ELSE "change")
                        /\ n = served + 1 /\ row = incidents[i]
  OBVIOUS
<1>2. PICK new : new = NewTx(pc, op, n)
  OBVIOUS
<1>3. PICK t : t = [new EXCEPT !.inc = i, !.row = row, !.ev = e, !.value = value]
  OBVIOUS
<1>4. Begin(r, t)
  BY <1>1, <1>2, <1>3 DEF GetIncident
<1>5. /\ served' = served + 1 /\ served \in Nat
      /\ incidents' = incidents /\ evidence' = evidence /\ acked' = acked
  BY <1>4 DEF Begin, CInv, Rows, rows
<1>6. /\ DOMAIN t = TxColumns /\ t.pc = pc /\ t.op = op /\ t.n = n
      /\ t.alert = None /\ t.inc = i /\ t.ev = e /\ t.row = row
  <2>1. DOMAIN new = TxColumns /\ new.pc = pc /\ new.op = op /\ new.n = n /\ new.alert = None
    BY <1>2, NewTxColumns
  <2>2. QED
    BY <2>1, <1>3 DEF TxColumns
<1>7. Working(t)'
  <2>1. IsIncident(row) /\ NamedIn(row) \subseteq Answered \cup {0}
    BY <1>1, ReadIncident DEF CInv
  <2>2. IsIncident(row)' /\ NamedIn(row) \subseteq Answered' \cup {0}
    BY <2>1, <1>5 DEF IsIncident, Answered
  <2>3. t.pc \in (IF op = "evidence_link" THEN {"lookup", "change", "commit"} ELSE {"change", "commit"}) /\ t.pc # "commit"
    BY <1>1, <1>6
  <2>4. QED
    BY <1>5, <1>6, <2>2, <2>3 DEF Working
<1>8. Fits(t)'
  <2>1. t.n \in 1..served'
    BY <1>1, <1>5, <1>6
  <2>2. t.pc # "idle" /\ t.pc # "commit" /\ (op = "evidence_link" => t.pc = "lookup")
    BY <1>1, <1>6
  <2>3. Sound(t)'
    BY <1>6, <1>7, <2>1, <2>2 DEF Sound, CaseOps
  <2>4. Current(t)'
    BY <1>1, <1>5, <1>6, <2>2 DEF Current, CaseOps
  <2>5. QED
    BY <2>2, <2>3, <2>4 DEF Fits
<1>9. t.pc # "commit"
  BY <1>1, <1>6
<1>10. QED
  BY <1>1, <1>4, <1>6, <1>8, <1>9, BeginKeeps

LEMMA CallKeeps ==
  ASSUME CInv, NEW r \in Requests, Call(r)
  PROVE  CInv'
<1>1. CASE \E a \in Alerts : ConvertAlert(r, a)
  BY <1>1, ConvertAlertKeeps
<1>2. CASE \E e \in Evidence : CustodyEvent(r, e)
  BY <1>2, CustodyEventKeeps
<1>3. ASSUME NEW i \in DOMAIN incidents, NEW status, ChangeStatus(r, i, status) PROVE CInv'
  BY <1>3, GetIncidentKeeps DEF ChangeStatus, CaseOps, Ops
<1>4. ASSUME NEW i \in DOMAIN incidents, AssignIncident(r, i) PROVE CInv'
  BY <1>4, GetIncidentKeeps DEF AssignIncident, CaseOps, Ops
<1>5. ASSUME NEW i \in DOMAIN incidents, NEW text, Note(r, i, text) PROVE CInv'
  BY <1>5, GetIncidentKeeps DEF Note, CaseOps, Ops
<1>6. ASSUME NEW i \in DOMAIN incidents, NEW text, Task(r, i, text) PROVE CInv'
  BY <1>6, GetIncidentKeeps DEF Task, CaseOps, Ops
<1>7. ASSUME NEW i \in DOMAIN incidents, NEW text, RootCause(r, i, text) PROVE CInv'
  BY <1>7, GetIncidentKeeps DEF RootCause, CaseOps, Ops
<1>8. ASSUME NEW i \in DOMAIN incidents, NEW text, Lessons(r, i, text) PROVE CInv'
  BY <1>8, GetIncidentKeeps DEF Lessons, CaseOps, Ops
<1>9. ASSUME NEW i \in DOMAIN incidents, NEW e \in Evidence, LinkEvidence(r, i, e) PROVE CInv'
  BY <1>9, GetIncidentKeeps DEF LinkEvidence, CaseOps, Ops
<1>10. QED
  BY <1>1, <1>2, <1>3, <1>4, <1>5, <1>6, <1>7, <1>8, <1>9 DEF Call

-----------------------------------------------------------------------------
(* Requests at work                                                         *)

\* An open request.
LEMMA OpenRequest ==
  ASSUME CInv, NEW r \in Requests, NEW t, t = tx[r], t.pc # "idle"
  PROVE  Fits(t) /\ DOMAIN t = TxColumns
BY IdlePc DEF CInv, Fits, Sound

LEMMA RollbackKeeps ==
  ASSUME CInv, NEW r \in Requests, Rollback(r)
  PROVE  CInv'
<1>1. tx' = [tx EXCEPT ![r] = Idle] /\ UNCHANGED <<rows, acked>> /\ served' = served /\ shared' = shared
  BY DEF Rollback
<1>2. served' \in served..MaxRequests
  BY <1>1, CaseAssumption DEF CInv, Rows
<1>3. QED
  BY <1>1, <1>2, RequestStep

\* A request that flushes what it has read goes on standing beside the others.
LEMMA FlushKeeps ==
  ASSUME CInv, NEW r \in Requests, tx[r].pc = "change", NEW t, tx' = [tx EXCEPT ![r] = t],
         UNCHANGED <<rows, served, acked, shared>>,
         t.pc = "commit", t.op = tx[r].op, t.n = tx[r].n, t.inc = tx[r].inc, t.ev = tx[r].ev,
         t.alert = None, Fits(t)
  PROVE  CInv'
<1>1. PICK old : old = tx[r]
  OBVIOUS
<1>2. Held(t) = Held(old)
  BY <1>1 DEF Held
<1>3. ASSUME NEW q \in Others(r), tx[q].pc # "idle" PROVE Beside(t, tx[q], shared')
  <2>1. PICK u : u = tx[q]
    OBVIOUS
  <2>2. Beside(old, u, shared)
    BY <1>1, <1>3, <2>1 DEF CInv, Apart, Others
  <2>3. Beside(t, u, shared)
    BY <1>1, <1>2, <2>2 DEF Beside
  <2>4. QED
    BY <2>1, <2>3
<1>4. UNCHANGED <<rows, acked>> /\ shared' = shared /\ served' = served /\ served \in 0..MaxRequests
  BY DEF CInv, Rows
<1>5. served \in Nat /\ served' \in Nat /\ served <= served' /\ served' \in served..MaxRequests
  BY <1>4, CaseAssumption
<1>6. Fits(t)'
  BY <1>4, <1>5, FitsKept
<1>7. QED
  BY <1>3, <1>4, <1>5, <1>6, RequestStep

\* What an insert puts there.
LEMMA NewIncident ==
  ASSUME NEW a \in Alerts, NEW n \in Numbers, NEW row,
         row = Incident(a, "new", {}, TimelineEvent("created_from_alert", n, "new"))
  PROVE  /\ IsIncident(row) /\ row.source_alert_id = a
         /\ NamedIn(row) = {n} /\ n \in Entries(row.timeline)
         /\ row.status = Told(row.timeline)
<1>1. PICK e : e = TimelineEvent("created_from_alert", n, "new")
  OBVIOUS
<1>2. e.kind = "created_from_alert" /\ e.by = n /\ e.status = "new" /\ e \in Entry
  <2>1. n \in 0..MaxRequests
    BY DEF Numbers
  <2>2. QED
    BY <1>1, <2>1 DEF TimelineEvent, Entry, INCIDENT_STATUSES
<1>3. /\ DOMAIN row = IncidentColumns /\ row.source_alert_id = a /\ row.status = "new"
      /\ row.evidence_ids = {} /\ row.notes = <<>> /\ row.tasks = <<>> /\ row.timeline = <<e>>
  BY <1>1 DEF Incident, IncidentColumns
<1>4. <<e>> \in Seq(Entry) /\ <<e>> # <<>> /\ <<>> \in Seq(Numbers) /\ "new" \in INCIDENT_STATUSES
  BY <1>2 DEF INCIDENT_STATUSES
<1>5. IsIncident(row)
  BY <1>3, <1>4 DEF IsIncident
<1>6. Entries(<<e>>) = {n}
  BY <1>2 DEF Entries
<1>7. Range(<<>>) = {}
  BY DEF Range
<1>8. Told(<<e>>) = "new"
  <2>1. None # "new"
    BY CaseAssumption DEF INCIDENT_STATUSES
  <2>2. QED
    BY <1>2, <2>1, ToldFirst DEF Replay
<1>9. QED
  BY <1>3, <1>5, <1>6, <1>7, <1>8 DEF NamedIn

LEMMA CreateFromAlertKeeps ==
  ASSUME CInv, NEW r \in Requests, CreateFromAlert(r)
  PROVE  CInv'
<1>1. CASE FingerprintTaken(tx[r].alert)
  BY <1>1, RollbackKeeps DEF CreateFromAlert
<1>2. CASE ~FingerprintTaken(tx[r].alert)
  <2>1. PICK t, row : t = tx[r] /\ row = Incident(t.alert, "new", {}, TimelineEvent("created_from_alert", t.n, "new"))
    OBVIOUS
  <2>2. PICK u : u = [[t EXCEPT !.inc = t.n, !.new = row] EXCEPT !.pc = "commit"]
    OBVIOUS
  <2>3. /\ t.pc = "create" /\ ~Waits(r) /\ tx' = [tx EXCEPT ![r] = u]
        /\ UNCHANGED <<rows, acked>> /\ served' = served /\ shared' = shared
    BY <1>2, <2>1, <2>2 DEF CreateFromAlert, Flush
  <2>4. Fits(t) /\ DOMAIN t = TxColumns
    BY <2>1, <2>3, OpenRequest
  <2>5. Sound(t) /\ t.op \in Ops /\ t.n \in 1..served
    BY <2>4 DEF Fits, Sound
  <2>6. t.op = "from_alert"
    BY <2>3, <2>5 DEF Sound, Working
  <2>7. /\ t.ev = None /\ t.alert \in Alerts /\ t.inc = None /\ t.alert # None
        /\ t.n \notin DOMAIN incidents
    <3>1. Converting(t)
      BY <2>5, <2>6 DEF Sound
    <3>2. QED
      BY <3>1, <2>3, CaseAssumption DEF Converting
  <2>8. /\ DOMAIN u = TxColumns /\ u.pc = "commit" /\ u.op = "from_alert" /\ u.n = t.n
        /\ u.alert = t.alert /\ u.inc = t.n /\ u.ev = None /\ u.new = row
    BY <2>2, <2>4, <2>6, <2>7 DEF TxColumns
  <2>9. Fits(u)
    <3>1. Converting(u)
      BY <1>2, <2>1, <2>7, <2>8 DEF Converting, FingerprintTaken
    <3>2. Sound(u)
      BY <2>5, <2>6, <2>8, <3>1 DEF Sound
    <3>3. Current(u)
      BY <2>7, <2>8 DEF Current
    <3>4. QED
      BY <2>8, <3>2, <3>3 DEF Fits
  <2>10. ASSUME NEW q \in Others(r), tx[q].pc # "idle" PROVE Beside(u, tx[q], shared')
    <3>1. PICK v : v = tx[q]
      OBVIOUS
    <3>2. Sound(v) /\ v.op \in Ops
      BY <3>1, <2>10, OpenRequest DEF Fits, Sound, Others
    <3>3. Beside(t, v, shared)
      BY <2>1, <2>3, <2>10, <3>1 DEF CInv, Apart, Others
    <3>4. u.n # v.n
      BY <2>8, <3>3 DEF Beside
    <3>5. v.inc # t.n
      <4>1. v.inc \in DOMAIN incidents \/ v.inc = None \/ v.inc = v.n
        BY <3>2 DEF Sound, Working, Converting
      <4>2. t.n # None
        <5>1. t.n \in 0..MaxRequests
          BY <2>5, CaseAssumption DEF CInv, Rows
        <5>2. QED
          BY <5>1, CaseAssumption
      <4>3. QED
        BY <4>1, <4>2, <2>7, <2>8, <3>4
    <3>6. Held(u) \cap Held(v) = {}
      <4>1. \A c \in Held(u) : c = <<"incident", t.n>>
        BY <2>8 DEF Held
      <4>2. <<"incident", t.n>> \notin Held(v)
        BY <3>2, <3>5 DEF Held, Ops
      <4>3. QED
        BY <4>1, <4>2
    <3>7. v.pc = "commit" => u.alert # v.alert
      BY <2>1, <2>3, <2>7, <2>8, <2>10, <3>1 DEF Waits
    <3>8. QED
      BY <2>3, <3>1, <3>4, <3>6, <3>7 DEF Beside
  <2>11. served \in Nat /\ served' \in Nat /\ served <= served' /\ served' \in served..MaxRequests
    BY <2>3, CaseAssumption DEF CInv, Rows
  <2>12. Fits(u)'
    BY <2>3, <2>9, <2>11, FitsKept
  <2>13. QED
    BY <2>3, <2>10, <2>11, <2>12, RequestStep
<1>3. QED
  BY <1>1, <1>2

LEMMA ReplayedStatus ==
  ASSUME NEW status \in INCIDENT_STATUSES, NEW e \in Entry
  PROVE  Replay(status, e) \in INCIDENT_STATUSES
BY DEF Replay, Entry, INCIDENT_STATUSES

\* The incident as an operation other than a link leaves it, but for the timeline.
Retold(t, row, status) ==
  /\ DOMAIN row = IncidentColumns
  /\ row.source_alert_id = t.row.source_alert_id /\ row.evidence_ids = t.row.evidence_ids
  /\ row.timeline = t.row.timeline
  /\ row.notes = IF t.op = "note" THEN Append(t.row.notes, t.n) ELSE t.row.notes
  /\ row.tasks = IF t.op = "task" THEN Append(t.row.tasks, t.n) ELSE t.row.tasks
  /\ status \in INCIDENT_STATUSES \cup {None}
  /\ row.status = Replay(t.row.status, TimelineEvent(t.op, t.n, status))

LEMMA RecordKeeps ==
  ASSUME CInv, NEW r \in Requests, NEW t, t = tx[r], t.pc = "change", t.op \in CaseOps \ {"evidence_link"},
         NEW row, NEW status, Retold(t, row, status), Record(r, row, status)
  PROVE  CInv'
<1>1. PICK e : e = TimelineEvent(t.op, t.n, status)
  OBVIOUS
<1>2. PICK new : new = [row EXCEPT !.timeline = Append(@, e)]
  OBVIOUS
<1>3. PICK u : u = [[t EXCEPT !.new = new] EXCEPT !.pc = "commit"]
  OBVIOUS
<1>4. tx' = [tx EXCEPT ![r] = u] /\ UNCHANGED <<rows, served, acked, shared>>
  BY <1>1, <1>2, <1>3 DEF Record, Flush
<1>5. Fits(t) /\ DOMAIN t = TxColumns /\ Sound(t) /\ Current(t)
  BY OpenRequest DEF Fits
<1>6. Working(t) /\ t.n \in 1..served /\ t.op \in Ops
  BY <1>5 DEF Sound, CaseOps
<1>7. /\ DOMAIN u = TxColumns /\ u.pc = "commit" /\ u.op = t.op /\ u.n = t.n
      /\ u.alert = t.alert /\ u.inc = t.inc /\ u.ev = t.ev /\ u.row = t.row /\ u.new = new
  BY <1>3, <1>5 DEF TxColumns
<1>8. e \in Entry /\ e.by = t.n
  <2>1. t.n \in 0..MaxRequests
    BY <1>6, CaseAssumption DEF CInv, Rows
  <2>2. e.kind = t.op /\ e.by = t.n /\ e.status = status /\ e = [kind |-> t.op, by |-> t.n, status |-> status]
    BY <1>1 DEF TimelineEvent
  <2>3. QED
    BY <2>1, <2>2, <1>6 DEF Entry, Retold
<1>9. IsIncident(t.row) /\ t.n \in Numbers
  <2>1. t.n \in 1..MaxRequests
    BY <1>6, CaseAssumption DEF CInv, Rows
  <2>2. QED
    BY <1>6, <2>1 DEF Working, Numbers
<1>10. /\ DOMAIN new = IncidentColumns /\ new.timeline = Append(t.row.timeline, e)
       /\ new.source_alert_id = t.row.source_alert_id /\ new.evidence_ids = t.row.evidence_ids
       /\ new.notes = (IF t.op = "note" THEN Append(t.row.notes, t.n) ELSE t.row.notes)
       /\ new.tasks = (IF t.op = "task" THEN Append(t.row.tasks, t.n) ELSE t.row.tasks)
       /\ new.status = Replay(t.row.status, e)
  BY <1>1, <1>2 DEF Retold, IncidentColumns
<1>11. IsIncident(new)
  <2>1. new.timeline \in Seq(Entry) /\ new.timeline # <<>>
    BY <1>8, <1>9, <1>10, AppendProperties DEF IsIncident
  <2>2. new.notes \in Seq(Numbers) /\ new.tasks \in Seq(Numbers)
    BY <1>9, <1>10, AppendProperties DEF IsIncident
  <2>3. new.status \in INCIDENT_STATUSES
    BY <1>8, <1>9, <1>10, ReplayedStatus DEF IsIncident
  <2>4. QED
    BY <2>1, <2>2, <2>3, <1>9, <1>10 DEF IsIncident
<1>12. Edited(u)
  BY <1>7, <1>8, <1>10, <1>11 DEF Edited
<1>13. Fits(u)
  <2>1. Working(u)
    BY <1>6, <1>7, <1>12 DEF Working
  <2>2. Sound(u)
    BY <1>6, <1>7, <2>1 DEF Sound, CaseOps
  <2>3. Current(u)
    BY <1>5, <1>7 DEF Current, CaseOps
  <2>4. QED
    BY <1>7, <2>2, <2>3 DEF Fits
<1>14. u.alert = None
  BY <1>6, <1>7 DEF Working
<1>15. QED
  BY <1>4, <1>7, <1>13, <1>14, FlushKeeps

\* What a request about an incident works on.
LEMMA AtChangeReads ==
  ASSUME CInv, NEW r \in Requests, NEW op \in CaseOps, AtChange(r, op), NEW t, t = tx[r]
  PROVE  /\ t.pc = "change" /\ t.op = op
         /\ DOMAIN t.row = IncidentColumns /\ t.row.status \in INCIDENT_STATUSES
<1>1. t.pc = "change" /\ t.op = op
  BY DEF AtChange
<1>2. Sound(t)
  BY <1>1, OpenRequest DEF Fits
<1>3. Working(t)
  BY <1>1, <1>2 DEF Sound, CaseOps
<1>4. QED
  BY <1>1, <1>3 DEF Working, IsIncident

\* The entry of an operation that tells of no status.
LEMMA ReplayNone ==
  ASSUME NEW op, NEW n, NEW status
  PROVE  Replay(status, TimelineEvent(op, n, None)) = IF op = "assignment" /\ status = "grouped" THEN "triaging" ELSE status
BY DEF Replay, TimelineEvent

LEMMA SetStatusKeeps ==
  ASSUME CInv, NEW r \in Requests, SetStatus(r)
  PROVE  CInv'
<1>1. CASE tx[r].value \notin INCIDENT_STATUSES
  BY <1>1, RollbackKeeps DEF SetStatus
<1>2. CASE tx[r].value \in INCIDENT_STATUSES
  <2>1. PICK t : t = tx[r]
    OBVIOUS
  <2>2. PICK row : row = [t.row EXCEPT !.status = t.value]
    OBVIOUS
  <2>3. Record(r, row, t.value)
    BY <1>2, <2>1, <2>2 DEF SetStatus
  <2>4. t.pc = "change" /\ t.op = "status_change" /\ DOMAIN t.row = IncidentColumns
    BY <2>1, AtChangeReads DEF SetStatus, CaseOps, Ops
  <2>5. Replay(t.row.status, TimelineEvent(t.op, t.n, t.value)) = t.value
    <3>1. t.value # None
      BY <1>2, <2>1, CaseAssumption
    <3>2. QED
      BY <2>4, <3>1 DEF Replay, TimelineEvent
  <2>6. Retold(t, row, t.value)
    BY <1>2, <2>1, <2>2, <2>4, <2>5 DEF Retold, IncidentColumns
  <2>7. QED
    BY <2>1, <2>3, <2>4, <2>6, RecordKeeps DEF CaseOps, Ops
<1>3. QED
  BY <1>1, <1>2

LEMMA AssignKeeps ==
  ASSUME CInv, NEW r \in Requests, Assign(r)
  PROVE  CInv'
<1>1. PICK t : t = tx[r]
  OBVIOUS
<1>2. PICK row : row = [t.row EXCEPT !.assignee = t.value, !.status = IF @ = "grouped" THEN "triaging" ELSE @]
  OBVIOUS
<1>3. Record(r, row, None)
  BY <1>1, <1>2 DEF Assign
<1>4. t.pc = "change" /\ t.op = "assignment" /\ DOMAIN t.row = IncidentColumns
  BY <1>1, AtChangeReads DEF Assign, CaseOps, Ops
<1>5. row.status = Replay(t.row.status, TimelineEvent(t.op, t.n, None))
  BY <1>2, <1>4, ReplayNone DEF IncidentColumns
<1>6. Retold(t, row, None)
  BY <1>2, <1>4, <1>5 DEF Retold, IncidentColumns
<1>7. QED
  BY <1>1, <1>3, <1>4, <1>6, RecordKeeps DEF CaseOps, Ops

LEMMA AddNoteKeeps ==
  ASSUME CInv, NEW r \in Requests, AddNote(r)
  PROVE  CInv'
<1>1. CASE tx[r].value = Blank
  BY <1>1, RollbackKeeps DEF AddNote
<1>2. CASE tx[r].value # Blank
  <2>1. PICK t : t = tx[r]
    OBVIOUS
  <2>2. PICK row : row = [t.row EXCEPT !.notes = Append(@, t.n)]
    OBVIOUS
  <2>3. Record(r, row, None)
    BY <1>2, <2>1, <2>2 DEF AddNote
  <2>4. t.pc = "change" /\ t.op = "note" /\ DOMAIN t.row = IncidentColumns
    BY <2>1, AtChangeReads DEF AddNote, CaseOps, Ops
  <2>5. t.row.status = Replay(t.row.status, TimelineEvent(t.op, t.n, None))
    BY <2>4, ReplayNone
  <2>6. Retold(t, row, None)
    BY <2>2, <2>4, <2>5 DEF Retold, IncidentColumns
  <2>7. QED
    BY <2>1, <2>3, <2>4, <2>6, RecordKeeps DEF CaseOps, Ops
<1>3. QED
  BY <1>1, <1>2

LEMMA AddTaskKeeps ==
  ASSUME CInv, NEW r \in Requests, AddTask(r)
  PROVE  CInv'
<1>1. CASE tx[r].value = Blank
  BY <1>1, RollbackKeeps DEF AddTask
<1>2. CASE tx[r].value # Blank
  <2>1. PICK t : t = tx[r]
    OBVIOUS
  <2>2. PICK row : row = [t.row EXCEPT !.tasks = Append(@, t.n)]
    OBVIOUS
  <2>3. Record(r, row, None)
    BY <1>2, <2>1, <2>2 DEF AddTask
  <2>4. t.pc = "change" /\ t.op = "task" /\ DOMAIN t.row = IncidentColumns
    BY <2>1, AtChangeReads DEF AddTask, CaseOps, Ops
  <2>5. t.row.status = Replay(t.row.status, TimelineEvent(t.op, t.n, None))
    BY <2>4, ReplayNone
  <2>6. Retold(t, row, None)
    BY <2>2, <2>4, <2>5 DEF Retold, IncidentColumns
  <2>7. QED
    BY <2>1, <2>3, <2>4, <2>6, RecordKeeps DEF CaseOps, Ops
<1>3. QED
  BY <1>1, <1>2

\* set_root_cause and set_lessons.
LEMMA SetTextKeeps ==
  ASSUME CInv, NEW r \in Requests, SetRootCause(r) \/ SetLessons(r)
  PROVE  CInv'
<1>1. PICK t, text : t = tx[r] /\ text = Stripped(t.value)
  OBVIOUS
<1>2. ASSUME NEW op \in {"root_cause", "lessons"}, AtChange(r, op), NEW row,
             row = [t.row EXCEPT !.root_cause = text] \/ row = [t.row EXCEPT !.lessons_learned = text],
             Record(r, row, None)
      PROVE  CInv'
  <2>1. op \in CaseOps /\ op # "evidence_link" /\ op # "note" /\ op # "task" /\ op # "assignment"
    BY <1>2 DEF CaseOps, Ops
  <2>2. t.pc = "change" /\ t.op = op /\ DOMAIN t.row = IncidentColumns
    BY <1>1, <1>2, <2>1, AtChangeReads
  <2>3. t.row.status = Replay(t.row.status, TimelineEvent(t.op, t.n, None))
    BY <2>1, <2>2, ReplayNone
  <2>4. Retold(t, row, None)
    BY <1>2, <2>1, <2>2, <2>3 DEF Retold, IncidentColumns
  <2>5. QED
    BY <1>1, <1>2, <2>1, <2>2, <2>4, RecordKeeps
<1>3. CASE SetRootCause(r)
  BY <1>1, <1>2, <1>3 DEF SetRootCause
<1>4. CASE SetLessons(r)
  BY <1>1, <1>2, <1>4 DEF SetLessons
<1>5. QED
  BY <1>3, <1>4

\* link_evidence: from here on the request holds the evidence too.
LEMMA LookUpEvidenceKeeps ==
  ASSUME CInv, NEW r \in Requests, LookUpEvidence(r)
  PROVE  CInv'
<1>1. CASE BoundElsewhere(tx[r].ev, tx[r].inc)
  BY <1>1, RollbackKeeps DEF LookUpEvidence
<1>2. CASE ~BoundElsewhere(tx[r].ev, tx[r].inc)
  <2>1. PICK t, row : t = tx[r] /\ row = evidence[t.ev]
    OBVIOUS
  <2>2. PICK u : u = [t EXCEPT !.pc = "change", !.evidence_row = row]
    OBVIOUS
  <2>3. /\ t.pc = "lookup" /\ UNCHANGED <<rows, acked>> /\ served' = served
        /\ tx' = [tx EXCEPT ![r] = u]
        /\ shared' = shared \cup {c \in Held(u) : \E q \in Others(r) : c \in Held(tx[q])}
    BY <1>2, <2>1, <2>2 DEF LookUpEvidence, Reads
  <2>4. Fits(t) /\ DOMAIN t = TxColumns /\ Sound(t) /\ Current(t)
    BY <2>1, <2>3, OpenRequest DEF Fits
  <2>5. t.op \in Ops /\ t.n \in 1..served /\ t.op = "evidence_link"
    BY <2>3, <2>4 DEF Sound, Working, Converting
  <2>6. Working(t) /\ t.ev \in Evidence /\ t.alert = None
    BY <2>4, <2>5 DEF Sound, Working
  <2>7. /\ DOMAIN u = TxColumns /\ u.pc = "change" /\ u.op = t.op /\ u.n = t.n
        /\ u.alert = t.alert /\ u.inc = t.inc /\ u.ev = t.ev /\ u.row = t.row /\ u.evidence_row = row
    BY <2>2, <2>4 DEF TxColumns
  <2>8. Handling(u)
    <3>1. IsEvidence(row) /\ NamedOn(row) \subseteq Answered
      BY <2>1, <2>6, ReadEvidence DEF CInv
    <3>2. row.incident_id \in {None, t.inc}
      BY <1>2, <2>1 DEF BoundElsewhere
    <3>3. QED
      BY <2>6, <2>7, <3>1, <3>2 DEF Handling
  <2>9. Sound(u)
    <3>1. Working(u)
      BY <2>5, <2>6, <2>7 DEF Working
    <3>2. QED
      BY <2>5, <2>7, <2>8, <3>1 DEF Sound
  <2>10. Current(u)
    BY <2>1, <2>4, <2>5, <2>7 DEF Current
  <2>11. shared \subseteq shared' /\ served \in Nat /\ served' \in Nat /\ served <= served' /\ served' \in served..MaxRequests
    BY <2>3, CaseAssumption DEF CInv, Rows
  <2>12. Fits(u)'
    <3>1. Fits(u)
      BY <2>7, <2>9, <2>10 DEF Fits
    <3>2. QED
      BY <3>1, <2>3, <2>11, FitsKept
  <2>13. ASSUME NEW q \in Others(r), tx[q].pc # "idle" PROVE Beside(u, tx[q], shared')
    <3>1. PICK v : v = tx[q]
      OBVIOUS
    <3>2. Beside(t, v, shared)
      BY <2>1, <2>3, <2>13, <3>1 DEF CInv, Apart, Others
    <3>3. u.n # v.n
      BY <2>7, <3>2 DEF Beside
    <3>4. Held(u) \cap Held(v) \subseteq shared'
      BY <2>3, <3>1
    <3>5. QED
      BY <2>7, <3>1, <3>3, <3>4 DEF Beside
  <2>14. QED
    BY <2>3, <2>11, <2>12, <2>13, RequestStep
<1>3. QED
  BY <1>1, <1>2

LEMMA LinkKeeps ==
  ASSUME CInv, NEW r \in Requests, Link(r)
  PROVE  CInv'
<1>1. PICK t : t = tx[r]
  OBVIOUS
<1>2. PICK e : e = TimelineEvent("evidence_link", t.n, None)
  OBVIOUS
<1>3. PICK new : new = [t.row EXCEPT !.evidence_ids = @ \cup {t.ev}, !.timeline = Append(@, e)]
  OBVIOUS
<1>4. PICK linked : linked = [t.evidence_row EXCEPT !.incident_id = t.inc, !.history = Append(@, t.n)]
  OBVIOUS
<1>5. PICK u : u = [[t EXCEPT !.new = new, !.evidence_new = linked] EXCEPT !.pc = "commit"]
  OBVIOUS
<1>6. /\ t.pc = "change" /\ t.op = "evidence_link"
      /\ tx' = [tx EXCEPT ![r] = u] /\ UNCHANGED <<rows, served, acked, shared>>
  BY <1>1, <1>2, <1>3, <1>4, <1>5 DEF Link, AtChange, Flush
<1>7. Fits(t) /\ DOMAIN t = TxColumns /\ Sound(t) /\ Current(t)
  BY <1>1, <1>6, OpenRequest DEF Fits
<1>8. Working(t) /\ Handling(t) /\ t.n \in 1..served /\ t.op \in Ops
  BY <1>6, <1>7 DEF Sound
<1>9. /\ DOMAIN u = TxColumns /\ u.pc = "commit" /\ u.op = t.op /\ u.n = t.n
      /\ u.alert = t.alert /\ u.inc = t.inc /\ u.ev = t.ev /\ u.row = t.row /\ u.new = new
      /\ u.evidence_row = t.evidence_row /\ u.evidence_new = linked
  BY <1>5, <1>7 DEF TxColumns
<1>10. t.n \in Numbers /\ t.n \in 0..MaxRequests
  BY <1>8, CaseAssumption DEF CInv, Rows, Numbers
<1>11. e \in Entry /\ e.by = t.n
  <2>1. e = [kind |-> "evidence_link", by |-> t.n, status |-> None]
    BY <1>2 DEF TimelineEvent
  <2>2. QED
    BY <2>1, <1>10 DEF Entry, Ops
<1>12. IsIncident(t.row) /\ t.ev \in Evidence
  BY <1>6, <1>8 DEF Working
<1>13. /\ DOMAIN new = IncidentColumns /\ new.timeline = Append(t.row.timeline, e)
       /\ new.source_alert_id = t.row.source_alert_id /\ new.evidence_ids = t.row.evidence_ids \cup {t.ev}
       /\ new.notes = t.row.notes /\ new.tasks = t.row.tasks /\ new.status = t.row.status
  BY <1>3, <1>12 DEF IsIncident, IncidentColumns
<1>14. new.status = Replay(t.row.status, e)
  BY <1>2, <1>13, ReplayNone
<1>15. IsIncident(new)
  <2>1. new.timeline \in Seq(Entry) /\ new.timeline # <<>>
    BY <1>11, <1>12, <1>13, AppendProperties DEF IsIncident
  <2>2. QED
    BY <2>1, <1>12, <1>13 DEF IsIncident
<1>16. Edited(u)
  BY <1>6, <1>9, <1>11, <1>13, <1>14, <1>15 DEF Edited
<1>17. IsEvidence(t.evidence_row) /\ t.inc \in DOMAIN incidents
  BY <1>8 DEF Handling, Working
<1>18. /\ DOMAIN linked = EvidenceColumns /\ linked.incident_id = t.inc
       /\ linked.history = Append(t.evidence_row.history, t.n) /\ linked.custody = t.evidence_row.custody
  BY <1>4, <1>17 DEF IsEvidence, EvidenceColumns
<1>19. IsEvidence(linked)
  <2>1. linked.history \in Seq(Numbers)
    BY <1>10, <1>17, <1>18, AppendProperties DEF IsEvidence
  <2>2. QED
    BY <2>1, <1>17, <1>18 DEF IsEvidence
<1>20. Bound(u)
  BY <1>6, <1>9, <1>18, <1>19 DEF Bound
<1>21. Fits(u)
  <2>1. Working(u)
    BY <1>6, <1>8, <1>9, <1>16 DEF Working
  <2>2. Handling(u)
    BY <1>8, <1>9, <1>20 DEF Handling
  <2>3. Sound(u)
    BY <1>6, <1>8, <1>9, <2>1, <2>2 DEF Sound
  <2>4. Current(u)
    BY <1>6, <1>7, <1>9 DEF Current
  <2>5. QED
    BY <1>9, <2>3, <2>4 DEF Fits
<1>22. u.alert = None
  BY <1>8, <1>9 DEF Working
<1>23. QED
  BY <1>1, <1>6, <1>9, <1>21, <1>22, FlushKeeps

LEMMA AppendCustodyKeeps ==
  ASSUME CInv, NEW r \in Requests, AppendCustody(r)
  PROVE  CInv'
<1>1. PICK t : t = tx[r]
  OBVIOUS
<1>2. PICK new : new = [t.evidence_row EXCEPT !.custody = Append(@, t.n)]
  OBVIOUS
<1>3. PICK u : u = [[t EXCEPT !.evidence_new = new] EXCEPT !.pc = "commit"]
  OBVIOUS
<1>4. /\ t.pc = "change" /\ t.op = "custody"
      /\ tx' = [tx EXCEPT ![r] = u] /\ UNCHANGED <<rows, served, acked, shared>>
  BY <1>1, <1>2, <1>3 DEF AppendCustody, AtChange, Flush
<1>5. Fits(t) /\ DOMAIN t = TxColumns /\ Sound(t) /\ Current(t)
  BY <1>1, <1>4, OpenRequest DEF Fits
<1>6. Handling(t) /\ t.n \in 1..served /\ t.op \in Ops /\ t.alert = None /\ t.inc = None
  BY <1>4, <1>5 DEF Sound
<1>7. /\ DOMAIN u = TxColumns /\ u.pc = "commit" /\ u.op = t.op /\ u.n = t.n
      /\ u.alert = t.alert /\ u.inc = t.inc /\ u.ev = t.ev
      /\ u.evidence_row = t.evidence_row /\ u.evidence_new = new
  BY <1>3, <1>5 DEF TxColumns
<1>8. t.n \in Numbers
  BY <1>6, CaseAssumption DEF CInv, Rows, Numbers
<1>9. IsEvidence(t.evidence_row)
  BY <1>6 DEF Handling
<1>10. /\ DOMAIN new = EvidenceColumns /\ new.incident_id = t.evidence_row.incident_id
       /\ new.history = t.evidence_row.history /\ new.custody = Append(t.evidence_row.custody, t.n)
  BY <1>2, <1>9 DEF IsEvidence, EvidenceColumns
<1>11. IsEvidence(new)
  <2>1. new.custody \in Seq(Numbers)
    BY <1>8, <1>9, <1>10, AppendProperties DEF IsEvidence
  <2>2. QED
    BY <2>1, <1>9, <1>10 DEF IsEvidence
<1>12. Bound(u)
  BY <1>4, <1>7, <1>10, <1>11 DEF Bound
<1>13. Fits(u)
  <2>1. Handling(u)
    BY <1>4, <1>6, <1>7, <1>12 DEF Handling
  <2>2. Sound(u)
    BY <1>4, <1>6, <1>7, <2>1 DEF Sound
  <2>3. Current(u)
    <3>1. None \notin DOMAIN incidents
      BY CaseAssumption DEF CInv, Rows
    <3>2. QED
      BY <1>4, <1>5, <1>6, <1>7, <3>1 DEF Current
  <2>4. QED
    BY <1>7, <2>2, <2>3 DEF Fits
<1>14. QED
  BY <1>1, <1>4, <1>6, <1>7, <1>13, FlushKeeps

-----------------------------------------------------------------------------
(* A request commits                                                        *)
LEMMA EntriesAppend ==
  ASSUME NEW timeline \in Seq(Entry), NEW e \in Entry
  PROVE  Entries(Append(timeline, e)) = Entries(timeline) \cup {e.by}
<1>1. PICK longer : longer = Append(timeline, e)
  OBVIOUS
<1>2. PICK n \in Nat : n = Len(timeline)
  OBVIOUS
<1>3. /\ longer \in Seq(Entry) /\ Len(longer) = n + 1
      /\ \A k \in 1..n : longer[k] = timeline[k]
      /\ longer[n + 1] = e
  BY <1>1, <1>2, AppendProperties
<1>4. DOMAIN timeline = 1..n /\ DOMAIN longer = 1..(n + 1)
  BY <1>2, <1>3
<1>5. 1..(n + 1) = 1..n \cup {n + 1}
  OBVIOUS
<1>6. Entries(longer) = Entries(timeline) \cup {e.by}
  BY <1>3, <1>4, <1>5 DEF Entries
<1>7. QED
  BY <1>1, <1>6

LEMMA RangeAppended ==
  ASSUME NEW S, NEW seq \in Seq(S), NEW x \in S
  PROVE  Range(Append(seq, x)) = Range(seq) \cup {x}
<1>1. PICK longer : longer = Append(seq, x)
  OBVIOUS
<1>2. PICK n \in Nat : n = Len(seq)
  OBVIOUS
<1>3. /\ longer \in Seq(S) /\ Len(longer) = n + 1
      /\ \A k \in 1..n : longer[k] = seq[k]
      /\ longer[n + 1] = x
  BY <1>1, <1>2, AppendProperties
<1>4. DOMAIN seq = 1..n /\ DOMAIN longer = 1..(n + 1)
  BY <1>2, <1>3
<1>5. 1..(n + 1) = 1..n \cup {n + 1}
  OBVIOUS
<1>6. Range(longer) = Range(seq) \cup {x}
  BY <1>3, <1>4, <1>5 DEF Range
<1>7. QED
  BY <1>1, <1>6

\* What an UPDATE makes of a row.
Saves(read, new, row, saved) ==
  /\ DOMAIN saved = DOMAIN row
  /\ \A c \in DOMAIN row : saved[c] = IF new[c] # read[c] THEN new[c] ELSE row[c]

LEMMA WrittenSaves ==
  ASSUME NEW read, NEW new, NEW row, NEW saved, saved = Written(read, new, row)
  PROVE  Saves(read, new, row, saved)
BY DEF Written, Saves

\* What a request records in an incident is there, ...
Recorded(t, row) ==
  /\ t.n \in Entries(row.timeline)
  /\ t.op = "note" => t.n \in Range(row.notes)
  /\ t.op = "task" => t.n \in Range(row.tasks)
  /\ t.op = "evidence_link" => t.ev \in row.evidence_ids

\* ... and what was recorded before.
Grown(row, saved) ==
  /\ Entries(row.timeline) \subseteq Entries(saved.timeline)
  /\ Range(row.notes) \subseteq Range(saved.notes)
  /\ Range(row.tasks) \subseteq Range(saved.tasks)
  /\ row.evidence_ids \subseteq saved.evidence_ids

\* What an operation leaves names no request but the one and those before it.
LEMMA EditedNames ==
  ASSUME NEW t, IsIncident(t.row), Edited(t), t.n \in Numbers
  PROVE  /\ Entries(t.new.timeline) = Entries(t.row.timeline) \cup {t.n}
         /\ Range(t.new.notes) = Range(t.row.notes) \cup (IF t.op = "note" THEN {t.n} ELSE {})
         /\ Range(t.new.tasks) = Range(t.row.tasks) \cup (IF t.op = "task" THEN {t.n} ELSE {})
<1>1. PICK e \in Entry : e.by = t.n /\ t.new.timeline = Append(t.row.timeline, e)
  BY DEF Edited
<1>2. Entries(t.new.timeline) = Entries(t.row.timeline) \cup {t.n}
  BY <1>1, EntriesAppend DEF IsIncident
<1>3. Range(t.new.notes) = Range(t.row.notes) \cup (IF t.op = "note" THEN {t.n} ELSE {})
  BY RangeAppended DEF IsIncident, Edited
<1>4. Range(t.new.tasks) = Range(t.row.tasks) \cup (IF t.op = "task" THEN {t.n} ELSE {})
  BY RangeAppended DEF IsIncident, Edited
<1>5. QED
  BY <1>2, <1>3, <1>4

\* The row after an operation that did not read what is there now.
LEMMA IncidentSaved ==
  ASSUME NEW t, NEW row, NEW saved, Saves(t.row, t.new, row, saved),
         IsIncident(row), IsIncident(t.row), Edited(t), t.n \in Numbers,
         NEW A, NamedIn(row) \subseteq A, NamedIn(t.row) \subseteq A
  PROVE  /\ IsIncident(saved) /\ NamedIn(saved) \subseteq A \cup {t.n}
         /\ saved.source_alert_id = row.source_alert_id
<1>1. \A c \in IncidentColumns : saved[c] = t.new[c] \/ saved[c] = row[c]
  BY DEF Saves, IsIncident
<1>2. DOMAIN saved = IncidentColumns
  BY DEF Saves, IsIncident
<1>3. saved.source_alert_id = row.source_alert_id
  BY DEF Saves, IsIncident, IncidentColumns, Edited
<1>4. IsIncident(t.new)
  BY DEF Edited
<1>5. /\ saved.status = t.new.status \/ saved.status = row.status
      /\ saved.evidence_ids = t.new.evidence_ids \/ saved.evidence_ids = row.evidence_ids
      /\ saved.notes = t.new.notes \/ saved.notes = row.notes
      /\ saved.tasks = t.new.tasks \/ saved.tasks = row.tasks
      /\ saved.timeline = t.new.timeline \/ saved.timeline = row.timeline
  BY <1>1 DEF IncidentColumns
<1>6. IsIncident(saved)
  BY <1>2, <1>3, <1>4, <1>5 DEF IsIncident
<1>7. /\ Entries(t.new.timeline) \subseteq A \cup {t.n} /\ Range(t.new.notes) \subseteq A \cup {t.n}
      /\ Range(t.new.tasks) \subseteq A \cup {t.n}
  BY EditedNames DEF NamedIn
<1>8. /\ Entries(saved.timeline) \subseteq A \cup {t.n} /\ Range(saved.notes) \subseteq A \cup {t.n}
      /\ Range(saved.tasks) \subseteq A \cup {t.n}
  BY <1>5, <1>7 DEF NamedIn
<1>9. QED
  BY <1>3, <1>6, <1>8 DEF NamedIn

\* The row after an operation that has read what is there.
LEMMA IncidentSavedAlone ==
  ASSUME NEW t, NEW row, NEW saved, Saves(t.row, t.new, row, saved),
         IsIncident(row), IsIncident(t.row), Edited(t), t.n \in Numbers,
         \A c \in IncidentColumns : t.row[c] = row[c],
         row.status = Told(row.timeline)
  PROVE  Recorded(t, saved) /\ Grown(row, saved) /\ saved.status = Told(saved.timeline)
<1>1. \A c \in IncidentColumns : saved[c] = t.new[c]
  BY DEF Saves, IsIncident
<1>2. /\ saved.status = t.new.status /\ saved.evidence_ids = t.new.evidence_ids
      /\ saved.notes = t.new.notes /\ saved.tasks = t.new.tasks /\ saved.timeline = t.new.timeline
  BY <1>1 DEF IncidentColumns
<1>3. /\ t.row.status = row.status /\ t.row.evidence_ids = row.evidence_ids
      /\ t.row.notes = row.notes /\ t.row.tasks = row.tasks /\ t.row.timeline = row.timeline
  BY DEF IncidentColumns
<1>4. PICK e \in Entry : t.new.timeline = Append(t.row.timeline, e) /\ t.new.status = Replay(t.row.status, e)
  BY DEF Edited
<1>5. saved.status = Told(saved.timeline)
  BY <1>2, <1>3, <1>4, ToldAppend DEF IsIncident
<1>6. Recorded(t, saved) /\ Grown(row, saved)
  <2>1. /\ Entries(saved.timeline) = Entries(row.timeline) \cup {t.n}
        /\ Range(saved.notes) = Range(row.notes) \cup (IF t.op = "note" THEN {t.n} ELSE {})
        /\ Range(saved.tasks) = Range(row.tasks) \cup (IF t.op = "task" THEN {t.n} ELSE {})
    BY <1>2, <1>3, EditedNames
  <2>2. saved.evidence_ids = IF t.op = "evidence_link" THEN row.evidence_ids \cup {t.ev} ELSE row.evidence_ids
    BY <1>2, <1>3 DEF Edited
  <2>3. QED
    BY <2>1, <2>2 DEF Recorded, Grown
<1>7. QED
  BY <1>5, <1>6

\* What a commit leaves of the incident it is about.
Closes(t, saved) ==
  /\ IsIncident(saved) /\ NamedIn(saved) \subseteq Answered \cup {0, t.n}
  /\ Alone("incident", t.inc) => Recorded(t, saved) /\ saved.status = Told(saved.timeline)
  /\ IF t.inc \in DOMAIN incidents
     THEN /\ t.alert = None /\ saved.source_alert_id = incidents[t.inc].source_alert_id
          /\ Alone("incident", t.inc) => Grown(incidents[t.inc], saved)
     ELSE t.inc = t.n /\ t.alert \in Alerts /\ saved.source_alert_id = t.alert

LEMMA CommitsIncident ==
  ASSUME CInv, NEW r \in Requests, NEW t, t = tx[r], Commit(r)
  PROVE  /\ DOMAIN incidents' = DOMAIN incidents \cup ({t.inc} \ {None})
         /\ \A i \in DOMAIN incidents : i # t.inc => incidents'[i] = incidents[i]
         /\ t.inc = None => t.alert = None
         /\ \A saved : t.inc # None /\ saved = incidents'[t.inc] => Closes(t, saved)
<1>1. t.pc = "commit" /\ incidents' = SavedIncidents(t)
  BY DEF Commit
<1>2. Fits(t) /\ Sound(t) /\ Current(t) /\ t.op \in Ops
  BY <1>1, OpenRequest DEF Fits, Sound
<1>3. t.n \in Numbers
  BY <1>2, CaseAssumption DEF CInv, Rows, Sound, Numbers
<1>4. /\ DOMAIN incidents' = DOMAIN incidents \cup ({t.inc} \ {None})
      /\ \A i \in DOMAIN incidents : i # t.inc => incidents'[i] = incidents[i]
  BY <1>1 DEF SavedIncidents
<1>5. t.inc = None => t.alert = None
  <2>1. CASE t.op = "from_alert"
    <3>1. t.n # None
      <4>1. t.n \in 0..MaxRequests
        BY <1>3 DEF Numbers
      <4>2. QED
        BY <4>1, CaseAssumption
    <3>2. Converting(t)
      BY <1>2, <2>1 DEF Sound
    <3>3. QED
      BY <1>1, <3>1, <3>2 DEF Converting
  <2>2. CASE t.op # "from_alert"
    BY <1>2, <2>2 DEF Sound, Working
  <2>3. QED
    BY <2>1, <2>2
<1>6. ASSUME NEW saved, t.inc # None, saved = incidents'[t.inc] PROVE Closes(t, saved)
  <2>1. CASE t.op = "from_alert"
    <3>1. /\ t.alert \in Alerts /\ t.inc = t.n /\ t.n \notin DOMAIN incidents
          /\ t.new = Incident(t.alert, "new", {}, TimelineEvent("created_from_alert", t.n, "new"))
      BY <1>1, <1>2, <1>6, <2>1, CaseAssumption DEF Sound, Converting
    <3>2. saved = t.new
      BY <1>1, <1>6, <3>1 DEF SavedIncidents
    <3>3. PICK a, n : a = t.alert /\ n = t.n
      OBVIOUS
    <3>4. saved = Incident(a, "new", {}, TimelineEvent("created_from_alert", n, "new"))
      BY <3>1, <3>2, <3>3
    <3>5. /\ IsIncident(saved) /\ saved.source_alert_id = a
          /\ NamedIn(saved) = {n} /\ n \in Entries(saved.timeline)
          /\ saved.status = Told(saved.timeline)
      BY <1>3, <3>1, <3>3, <3>4, NewIncident
    <3>6. Recorded(t, saved)
      BY <2>1, <3>3, <3>5 DEF Recorded
    <3>7. QED
      BY <3>1, <3>3, <3>5, <3>6 DEF Closes
  <2>2. CASE t.op # "from_alert"
    <3>1. t.op # "custody"
      BY <1>2, <1>6 DEF Sound
    <3>2. Working(t)
      BY <1>2, <2>2, <3>1 DEF Sound
    <3>3. /\ t.inc \in DOMAIN incidents /\ t.alert = None /\ IsIncident(t.row) /\ Edited(t)
          /\ NamedIn(t.row) \subseteq Answered \cup {0}
      BY <1>1, <3>2 DEF Working
    <3>4. PICK row : row = incidents[t.inc]
      OBVIOUS
    <3>5. saved = Written(t.row, t.new, row)
      BY <1>1, <1>6, <3>3, <3>4 DEF SavedIncidents
    <3>6. Saves(t.row, t.new, row, saved)
      BY <3>5, WrittenSaves
    <3>7. IsIncident(row) /\ NamedIn(row) \subseteq Answered \cup {0}
      BY <3>3, <3>4, ReadIncident DEF CInv
    <3>8. PICK A : A = Answered \cup {0}
      OBVIOUS
    <3>9. IsIncident(saved) /\ NamedIn(saved) \subseteq A \cup {t.n} /\ saved.source_alert_id = row.source_alert_id
      <4>1. NamedIn(row) \subseteq A /\ NamedIn(t.row) \subseteq A
        BY <3>3, <3>7, <3>8
      <4>2. QED
        BY <1>3, <3>3, <3>6, <3>7, <4>1, IncidentSaved
    <3>10. ASSUME Alone("incident", t.inc)
           PROVE  Recorded(t, saved) /\ Grown(row, saved) /\ saved.status = Told(saved.timeline)
      <4>1. \A c \in IncidentColumns : t.row[c] = row[c]
        BY <1>2, <3>3, <3>4, <3>10 DEF Current
      <4>2. row.status = Told(row.timeline)
        BY <3>3, <3>4, <3>10 DEF CInv, Facts, TimelineReconstructs, Told
      <4>3. QED
        BY <1>3, <3>3, <3>6, <3>7, <4>1, <4>2, IncidentSavedAlone
    <3>11. NamedIn(saved) \subseteq Answered \cup {0, t.n}
      BY <3>8, <3>9
    <3>12. QED
      BY <3>3, <3>4, <3>9, <3>10, <3>11 DEF Closes
  <2>3. QED
    BY <2>1, <2>2
<1>7. QED
  BY <1>4, <1>5, <1>6

\* What a commit leaves of the evidence it is about: the two operations write
\* different columns.
Binds(t, row, saved) ==
  /\ IsEvidence(saved) /\ NamedOn(saved) \subseteq Answered \cup {t.n}
  /\ t.op = "evidence_link" =>
       /\ saved.custody = row.custody
       /\ Alone("evidence_link", t.ev) =>
            /\ saved.incident_id = t.inc /\ row.incident_id \in {None, t.inc}
            /\ Range(saved.history) = Range(row.history) \cup {t.n}
  /\ t.op = "custody" =>
       /\ saved.incident_id = row.incident_id /\ saved.history = row.history
       /\ Alone("custody", t.ev) => Range(saved.custody) = Range(row.custody) \cup {t.n}

LEMMA CommitsEvidence ==
  ASSUME CInv, NEW r \in Requests, NEW t, t = tx[r], Commit(r)
  PROVE  /\ DOMAIN evidence' = Evidence
         /\ \A e \in Evidence : e # t.ev => evidence'[e] = evidence[e]
         /\ t.ev \in Evidence => t.op \in {"evidence_link", "custody"}
         /\ t.op \in {"evidence_link", "custody"} => t.ev \in Evidence
         /\ \A row, saved : t.ev \in Evidence /\ row = evidence[t.ev] /\ saved = evidence'[t.ev] => Binds(t, row, saved)
<1>1. t.pc = "commit" /\ evidence' = SavedEvidence(t)
  BY DEF Commit
<1>2. Fits(t) /\ Sound(t) /\ Current(t) /\ t.op \in Ops
  BY <1>1, OpenRequest DEF Fits, Sound
<1>3. t.n \in Numbers
  BY <1>2, CaseAssumption DEF CInv, Rows, Sound, Numbers
<1>4. DOMAIN evidence' = Evidence /\ \A e \in Evidence : e # t.ev => evidence'[e] = evidence[e]
  BY <1>1 DEF SavedEvidence
<1>5. t.ev \in Evidence => t.op \in {"evidence_link", "custody"}
  BY <1>2, CaseAssumption DEF Sound, Working, Converting
<1>6. t.op \in {"evidence_link", "custody"} => Handling(t) /\ t.ev \in Evidence
  BY <1>1, <1>2 DEF Sound, Handling
<1>7. ASSUME NEW row, NEW saved, t.ev \in Evidence, row = evidence[t.ev], saved = evidence'[t.ev]
      PROVE  Binds(t, row, saved)
  <2>1. t.op \in {"evidence_link", "custody"} /\ Handling(t) /\ Bound(t)
    BY <1>1, <1>5, <1>6, <1>7 DEF Handling
  <2>2. saved = Written(t.evidence_row, t.evidence_new, row)
    BY <1>1, <1>7 DEF SavedEvidence
  <2>3. Saves(t.evidence_row, t.evidence_new, row, saved)
    BY <2>2, WrittenSaves
  <2>4. IsEvidence(row) /\ NamedOn(row) \subseteq Answered
    BY <1>7, ReadEvidence DEF CInv
  <2>5. IsEvidence(t.evidence_row) /\ NamedOn(t.evidence_row) \subseteq Answered /\ IsEvidence(t.evidence_new)
    BY <2>1 DEF Handling, Bound
  <2>6. /\ DOMAIN saved = EvidenceColumns
        /\ saved.incident_id = IF t.evidence_new.incident_id # t.evidence_row.incident_id THEN t.evidence_new.incident_id ELSE row.incident_id
        /\ saved.history = IF t.evidence_new.history # t.evidence_row.history THEN t.evidence_new.history ELSE row.history
        /\ saved.custody = IF t.evidence_new.custody # t.evidence_row.custody THEN t.evidence_new.custody ELSE row.custody
    BY <2>3, <2>4 DEF Saves, IsEvidence, EvidenceColumns
  <2>7. IsEvidence(saved)
    BY <2>4, <2>5, <2>6 DEF IsEvidence
  <2>8. /\ t.op = "evidence_link" => Range(t.evidence_new.history) = Range(t.evidence_row.history) \cup {t.n}
        /\ t.op = "custody" => Range(t.evidence_new.custody) = Range(t.evidence_row.custody) \cup {t.n}
    BY <1>3, <2>1, <2>5, RangeAppended DEF Bound, IsEvidence
  <2>9. CASE t.op = "evidence_link"
    <3>1. t.evidence_new.incident_id = t.inc /\ t.evidence_new.custody = t.evidence_row.custody
      BY <2>1, <2>9 DEF Bound
    <3>2. saved.custody = row.custody /\ (saved.history = t.evidence_new.history \/ saved.history = row.history)
      BY <2>6, <3>1
    <3>3. NamedOn(saved) \subseteq Answered \cup {t.n}
      BY <2>4, <2>5, <2>8, <2>9, <3>2 DEF NamedOn
    <3>4. ASSUME Alone("evidence_link", t.ev)
          PROVE  /\ saved.incident_id = t.inc /\ row.incident_id \in {None, t.inc}
                 /\ Range(saved.history) = Range(row.history) \cup {t.n}
      <4>1. t.evidence_row.incident_id = row.incident_id /\ t.evidence_row.history = row.history
        BY <1>1, <1>2, <1>7, <2>9, <3>4 DEF Current
      <4>2. row.incident_id \in {None, t.inc}
        BY <2>1, <2>9, <4>1 DEF Handling
      <4>3. saved.incident_id = t.inc /\ saved.history = t.evidence_new.history
        BY <2>6, <3>1, <4>1
      <4>4. QED
        BY <2>8, <2>9, <4>1, <4>2, <4>3
    <3>5. QED
      BY <2>7, <2>9, <3>2, <3>3, <3>4 DEF Binds
  <2>10. CASE t.op = "custody"
    <3>1. t.evidence_new.incident_id = t.evidence_row.incident_id /\ t.evidence_new.history = t.evidence_row.history
      BY <2>1, <2>10 DEF Bound
    <3>2. /\ saved.incident_id = row.incident_id /\ saved.history = row.history
          /\ saved.custody = t.evidence_new.custody \/ saved.custody = row.custody
      BY <2>6, <3>1
    <3>3. NamedOn(saved) \subseteq Answered \cup {t.n}
      BY <2>4, <2>5, <2>8, <2>10, <3>2 DEF NamedOn
    <3>4. ASSUME Alone("custody", t.ev)
          PROVE  Range(saved.custody) = Range(row.custody) \cup {t.n}
      <4>1. t.evidence_row.custody = row.custody
        BY <1>2, <1>7, <2>10, <3>4 DEF Current
      <4>2. saved.custody = t.evidence_new.custody
        BY <2>6, <4>1
      <4>3. QED
        BY <2>8, <2>10, <4>1, <4>2
    <3>5. QED
      BY <2>7, <2>10, <3>2, <3>3, <3>4 DEF Binds
  <2>11. QED
    BY <2>1, <2>9, <2>10
<1>8. QED
  BY <1>4, <1>5, <1>6, <1>7

\* What a commit does besides.
LEMMA CommitsRest ==
  ASSUME CInv, NEW r \in Requests, NEW t, t = tx[r], Commit(r)
  PROVE  /\ Fits(t) /\ Sound(t) /\ t.pc = "commit" /\ t.op \in Ops /\ t.n \in 1..served
         /\ tx' = [tx EXCEPT ![r] = Idle] /\ served' = served /\ shared' = shared
         /\ alerts' = [a \in Alerts |-> IF a = t.alert THEN "promoted" ELSE alerts[a]]
         /\ Answered' = Answered \cup {t.n}
         /\ \A a \in acked' : a \in acked \/ (a.n = t.n /\ a.op = t.op /\ a.inc = t.inc /\ a.ev = t.ev)
<1>1. /\ t.pc = "commit" /\ tx' = [tx EXCEPT ![r] = Idle] /\ served' = served /\ shared' = shared
      /\ alerts' = [a \in Alerts |-> IF a = t.alert THEN "promoted" ELSE alerts[a]]
      /\ acked' = acked \cup {[n |-> t.n, op |-> t.op, inc |-> t.inc, ev |-> t.ev]}
  BY DEF Commit, SavedAlerts
<1>2. Fits(t) /\ Sound(t) /\ t.op \in Ops /\ t.n \in 1..served
  BY <1>1, OpenRequest DEF Fits, Sound
<1>3. PICK mine : mine = [n |-> t.n, op |-> t.op, inc |-> t.inc, ev |-> t.ev]
  OBVIOUS
<1>4. /\ acked' = acked \cup {mine}
      /\ mine.n = t.n /\ mine.op = t.op /\ mine.inc = t.inc /\ mine.ev = t.ev
  BY <1>1, <1>3
<1>5. Answered' = Answered \cup {t.n}
  BY <1>4 DEF Answered
<1>6. QED
  BY <1>1, <1>2, <1>4, <1>5

LEMMA CommitRows ==
  ASSUME CInv, NEW r \in Requests, Commit(r)
  PROVE  Rows' /\ Named'
<1>1. PICK t : t = tx[r]
  OBVIOUS
<1>2. /\ Sound(t) /\ t.pc = "commit" /\ t.op \in Ops /\ t.n \in 1..served /\ served' = served
      /\ alerts' = [a \in Alerts |-> IF a = t.alert THEN "promoted" ELSE alerts[a]]
      /\ \A a \in acked' : a \in acked \/ (a.n = t.n /\ a.op = t.op /\ a.inc = t.inc /\ a.ev = t.ev)
  BY <1>1, CommitsRest
<1>3. /\ DOMAIN incidents' = DOMAIN incidents \cup ({t.inc} \ {None})
      /\ \A i \in DOMAIN incidents : i # t.inc => incidents'[i] = incidents[i]
      /\ \A saved : t.inc # None /\ saved = incidents'[t.inc] => Closes(t, saved)
  BY <1>1, CommitsIncident
<1>4. /\ DOMAIN evidence' = Evidence
      /\ \A e \in Evidence : e # t.ev => evidence'[e] = evidence[e]
      /\ t.op \in {"evidence_link", "custody"} => t.ev \in Evidence
      /\ \A row, saved : t.ev \in Evidence /\ row = evidence[t.ev] /\ saved = evidence'[t.ev] => Binds(t, row, saved)
  BY <1>1, CommitsEvidence
<1>5. DOMAIN incidents' \subseteq Grouped \cup 1..served
  <2>1. t.inc \in DOMAIN incidents \/ t.inc = t.n \/ t.inc = None
    BY <1>2 DEF Sound, Working, Converting
  <2>2. QED
    BY <1>2, <1>3, <2>1 DEF CInv, Rows
<1>6. ASSUME NEW i \in DOMAIN incidents' PROVE IsIncident(incidents'[i])
  <2>1. CASE i = t.inc
    <3>1. t.inc # None
      BY <1>3, <2>1, CaseAssumption DEF CInv, Rows
    <3>2. QED
      BY <1>3, <2>1, <3>1 DEF Closes
  <2>2. CASE i # t.inc
    BY <1>3, <2>2 DEF CInv, Rows
  <2>3. QED
    BY <2>1, <2>2
<1>7. ASSUME NEW e \in Evidence PROVE IsEvidence(evidence[e])'
  <2>1. PICK saved : saved = evidence'[e]
    OBVIOUS
  <2>2. IsEvidence(saved)
    <3>1. CASE e = t.ev
      BY <1>4, <2>1, <3>1 DEF Binds
    <3>2. CASE e # t.ev
      BY <1>4, <2>1, <3>2 DEF CInv, Rows
    <3>3. QED
      BY <3>1, <3>2
  <2>3. IsEvidence(saved)'
    BY <1>3, <2>2 DEF IsEvidence
  <2>4. QED
    BY <2>1, <2>3 DEF IsEvidence
<1>8. alerts' \in [Alerts -> {"open", "promoted"}]
  BY <1>2 DEF CInv, Rows
<1>9. \A a \in acked' : a.n \in 1..served /\ a.op \in Ops
  BY <1>2 DEF CInv, Rows
<1>10. Rows'
  <2>1. served' = served /\ served \in 0..MaxRequests
    BY <1>2 DEF CInv, Rows
  <2>2. QED
    BY <1>4, <1>5, <1>6, <1>7, <1>8, <1>9, <2>1 DEF Rows, IsIncident
<1>11. Named'
  <2>1. t.op = "evidence_link" => t.inc # None
    <3>1. None \notin DOMAIN incidents
      BY CaseAssumption DEF CInv, Rows
    <3>2. QED
      BY <1>2, <3>1 DEF Sound, Working
  <2>2. ASSUME NEW a \in acked'
        PROVE  /\ a.inc # None => a.inc \in DOMAIN incidents'
               /\ a.op = "evidence_link" => a.inc # None /\ a.ev \in Evidence
               /\ a.op = "custody" => a.ev \in Evidence
    <3>1. CASE a \in acked
      BY <1>3, <3>1 DEF CInv, Named
    <3>2. CASE a.n = t.n /\ a.op = t.op /\ a.inc = t.inc /\ a.ev = t.ev
      BY <1>3, <1>4, <2>1, <3>2
    <3>3. QED
      BY <1>2, <3>1, <3>2
  <2>3. QED
    BY <2>2 DEF Named
<1>12. QED
  BY <1>10, <1>11

LEMMA CommitAlerts ==
  ASSUME CInv, NEW r \in Requests, Commit(r)
  PROVE  OneIncidentPerAlert'
<1>1. PICK t : t = tx[r]
  OBVIOUS
<1>2. /\ Sound(t) /\ t.pc = "commit"
      /\ alerts' = [a \in Alerts |-> IF a = t.alert THEN "promoted" ELSE alerts[a]]
  BY <1>1, CommitsRest
<1>3. /\ DOMAIN incidents' = DOMAIN incidents \cup ({t.inc} \ {None})
      /\ \A i \in DOMAIN incidents : i # t.inc => incidents'[i] = incidents[i]
      /\ t.inc = None => t.alert = None
      /\ \A saved : t.inc # None /\ saved = incidents'[t.inc] => Closes(t, saved)
  BY <1>1, CommitsIncident
<1>4. /\ \A i, j \in DOMAIN incidents :
           incidents[i].source_alert_id = incidents[j].source_alert_id
             /\ incidents[i].source_alert_id # None => i = j
      /\ \A a \in Alerts :
           alerts[a] = "promoted" <=> \E i \in DOMAIN incidents : incidents[i].source_alert_id = a
  BY DEF CInv, Facts, OneIncidentPerAlert
<1>5. None \notin DOMAIN incidents /\ None \notin Alerts
  BY CaseAssumption DEF CInv, Rows
<1>6. \A i \in DOMAIN incidents : incidents'[i].source_alert_id = incidents[i].source_alert_id
  BY <1>3, <1>5 DEF Closes
<1>7. CASE t.inc = None \/ t.inc \in DOMAIN incidents
  <2>1. DOMAIN incidents' = DOMAIN incidents /\ t.alert = None
    BY <1>3, <1>5, <1>7 DEF Closes
  <2>2. \A a \in Alerts : alerts'[a] = alerts[a]
    BY <1>2, <1>5, <2>1
  <2>3. QED
    BY <1>4, <1>6, <2>1, <2>2 DEF OneIncidentPerAlert
<1>8. CASE t.inc # None /\ t.inc \notin DOMAIN incidents
  <2>1. /\ DOMAIN incidents' = DOMAIN incidents \cup {t.inc}
        /\ t.inc = t.n /\ t.alert \in Alerts /\ incidents'[t.inc].source_alert_id = t.alert
    BY <1>3, <1>8 DEF Closes
  <2>2. \A i \in DOMAIN incidents : incidents[i].source_alert_id # t.alert
    <3>1. t.op = "from_alert"
      BY <1>2, <1>5, <2>1 DEF Sound, Working
    <3>2. QED
      BY <1>2, <1>5, <2>1, <3>1 DEF Sound, Converting
  <2>3. \A i, j \in DOMAIN incidents' :
          incidents'[i].source_alert_id = incidents'[j].source_alert_id
            /\ incidents'[i].source_alert_id # None => i = j
    BY <1>4, <1>6, <2>1, <2>2
  <2>4. ASSUME NEW a \in Alerts
        PROVE  alerts'[a] = "promoted" <=> \E i \in DOMAIN incidents' : incidents'[i].source_alert_id = a
    <3>1. CASE a = t.alert
      BY <1>2, <2>1, <3>1
    <3>2. CASE a # t.alert
      BY <1>2, <1>4, <1>6, <2>1, <3>2
    <3>3. QED
      BY <3>1, <3>2
  <2>5. QED
    BY <2>3, <2>4 DEF OneIncidentPerAlert
<1>9. QED
  BY <1>7, <1>8

LEMMA CommitEntries ==
  ASSUME CInv, NEW r \in Requests, Commit(r)
  PROVE  EntriesKept'
<1>1. PICK t : t = tx[r]
  OBVIOUS
<1>2. /\ t.op \in Ops /\ shared' = shared
      /\ \A a \in acked' : a \in acked \/ (a.n = t.n /\ a.op = t.op /\ a.inc = t.inc /\ a.ev = t.ev)
  BY <1>1, CommitsRest
<1>3. /\ \A i \in DOMAIN incidents : i # t.inc => incidents'[i] = incidents[i]
      /\ \A saved : t.inc # None /\ saved = incidents'[t.inc] => Closes(t, saved)
  BY <1>1, CommitsIncident
<1>4. /\ \A e \in Evidence : e # t.ev => evidence'[e] = evidence[e]
      /\ t.ev \in Evidence => t.op \in {"evidence_link", "custody"}
      /\ t.op \in {"evidence_link", "custody"} => t.ev \in Evidence
      /\ \A row, saved : t.ev \in Evidence /\ row = evidence[t.ev] /\ saved = evidence'[t.ev] => Binds(t, row, saved)
  BY <1>1, CommitsEvidence
<1>5. \A c, id : Alone(c, id)' <=> Alone(c, id)
  BY <1>2 DEF Alone
<1>6. ASSUME NEW a \in acked', a.inc # None, Alone("incident", a.inc)
      PROVE  Recorded(a, incidents'[a.inc])
  <2>1. PICK saved : saved = incidents'[a.inc]
    OBVIOUS
  <2>2. CASE a \notin acked
    <3>1. a.n = t.n /\ a.op = t.op /\ a.inc = t.inc /\ a.ev = t.ev
      BY <1>2, <2>2
    <3>2. Recorded(t, saved)
      BY <1>3, <1>6, <2>1, <3>1 DEF Closes
    <3>3. QED
      BY <2>1, <3>1, <3>2 DEF Recorded
  <2>3. CASE a \in acked
    <3>1. PICK row : row = incidents[a.inc]
      OBVIOUS
    <3>2. a.inc \in DOMAIN incidents
      BY <1>6, <2>3 DEF CInv, Named
    <3>3. Recorded(a, row)
      BY <1>6, <2>3, <3>1 DEF CInv, Facts, EntriesKept, Recorded
    <3>4. CASE a.inc # t.inc
      BY <1>3, <2>1, <3>1, <3>2, <3>3, <3>4
    <3>5. CASE a.inc = t.inc
      <4>1. Grown(row, saved)
        BY <1>3, <1>6, <2>1, <3>1, <3>2, <3>5 DEF Closes
      <4>2. QED
        BY <2>1, <3>3, <4>1 DEF Recorded, Grown
    <3>6. QED
      BY <3>4, <3>5
  <2>4. QED
    BY <2>2, <2>3
<1>7. ASSUME NEW a \in acked', a.op = "custody", Alone("custody", a.ev)
      PROVE  a.n \in Range(evidence'[a.ev].custody)
  <2>1. PICK row, saved : row = evidence[a.ev] /\ saved = evidence'[a.ev]
    OBVIOUS
  <2>2. CASE a \notin acked
    <3>1. a.n = t.n /\ a.op = t.op /\ a.ev = t.ev
      BY <1>2, <2>2
    <3>2. Binds(t, row, saved)
      BY <1>4, <1>7, <2>1, <3>1
    <3>3. QED
      BY <1>7, <2>1, <3>1, <3>2 DEF Binds
  <2>3. CASE a \in acked
    <3>1. a.ev \in Evidence /\ a.n \in Range(row.custody)
      BY <1>7, <2>1, <2>3 DEF CInv, Named, Facts, EntriesKept
    <3>2. CASE a.ev # t.ev
      BY <1>4, <2>1, <3>1, <3>2
    <3>3. CASE a.ev = t.ev
      <4>1. Binds(t, row, saved) /\ t.op \in {"evidence_link", "custody"}
        BY <1>4, <2>1, <3>1, <3>3
      <4>2. QED
        BY <1>7, <2>1, <3>1, <3>3, <4>1 DEF Binds
    <3>4. QED
      BY <3>2, <3>3
  <2>4. QED
    BY <2>2, <2>3
<1>8. ASSUME NEW a \in acked', a.op = "evidence_link", Alone("evidence_link", a.ev)
      PROVE  a.n \in Range(evidence'[a.ev].history)
  <2>1. PICK row, saved : row = evidence[a.ev] /\ saved = evidence'[a.ev]
    OBVIOUS
  <2>2. CASE a \notin acked
    <3>1. a.n = t.n /\ a.op = t.op /\ a.ev = t.ev
      BY <1>2, <2>2
    <3>2. Binds(t, row, saved)
      BY <1>4, <1>8, <2>1, <3>1
    <3>3. QED
      BY <1>8, <2>1, <3>1, <3>2 DEF Binds
  <2>3. CASE a \in acked
    <3>1. a.ev \in Evidence /\ a.n \in Range(row.history)
      BY <1>8, <2>1, <2>3 DEF CInv, Named, Facts, EntriesKept
    <3>2. CASE a.ev # t.ev
      BY <1>4, <2>1, <3>1, <3>2
    <3>3. CASE a.ev = t.ev
      <4>1. Binds(t, row, saved) /\ t.op \in {"evidence_link", "custody"}
        BY <1>4, <2>1, <3>1, <3>3
      <4>2. QED
        BY <1>8, <2>1, <3>1, <3>3, <4>1 DEF Binds
    <3>4. QED
      BY <3>2, <3>3
  <2>4. QED
    BY <2>2, <2>3
<1>9. QED
  BY <1>5, <1>6, <1>7, <1>8 DEF EntriesKept, Recorded

LEMMA CommitBound ==
  ASSUME CInv, NEW r \in Requests, Commit(r)
  PROVE  EvidenceBoundOnce'
<1>1. PICK t : t = tx[r]
  OBVIOUS
<1>2. /\ shared' = shared
      /\ \A a \in acked' : a \in acked \/ (a.n = t.n /\ a.op = t.op /\ a.inc = t.inc /\ a.ev = t.ev)
  BY <1>1, CommitsRest
<1>3. /\ \A e \in Evidence : e # t.ev => evidence'[e] = evidence[e]
      /\ t.ev \in Evidence => t.op \in {"evidence_link", "custody"}
      /\ t.op \in {"evidence_link", "custody"} => t.ev \in Evidence
      /\ \A row, saved : t.ev \in Evidence /\ row = evidence[t.ev] /\ saved = evidence'[t.ev] => Binds(t, row, saved)
  BY <1>1, CommitsEvidence
<1>4. \A c, id : Alone(c, id)' <=> Alone(c, id)
  BY <1>2 DEF Alone
<1>5. ASSUME NEW a \in acked', a.op = "evidence_link", Alone("evidence_link", a.ev)
      PROVE  evidence'[a.ev].incident_id = a.inc
  <2>1. PICK row, saved : row = evidence[a.ev] /\ saved = evidence'[a.ev]
    OBVIOUS
  <2>2. CASE a \notin acked
    <3>1. a.n = t.n /\ a.op = t.op /\ a.inc = t.inc /\ a.ev = t.ev
      BY <1>2, <2>2
    <3>2. Binds(t, row, saved)
      BY <1>3, <1>5, <2>1, <3>1
    <3>3. QED
      BY <1>5, <2>1, <3>1, <3>2 DEF Binds
  <2>3. CASE a \in acked
    <3>1. a.ev \in Evidence /\ a.inc # None /\ row.incident_id = a.inc
      BY <1>5, <2>1, <2>3 DEF CInv, Named, Facts, EvidenceBoundOnce
    <3>2. CASE a.ev # t.ev
      BY <1>3, <2>1, <3>1, <3>2
    <3>3. CASE a.ev = t.ev
      <4>1. Binds(t, row, saved) /\ t.op \in {"evidence_link", "custody"}
        BY <1>3, <2>1, <3>1, <3>3
      <4>2. QED
        BY <1>5, <2>1, <3>1, <3>3, <4>1 DEF Binds
    <3>4. QED
      BY <3>2, <3>3
  <2>4. QED
    BY <2>2, <2>3
<1>6. QED
  BY <1>4, <1>5 DEF EvidenceBoundOnce

LEMMA CommitAnswered ==
  ASSUME CInv, NEW r \in Requests, Commit(r)
  PROVE  OnlyAnswered' /\ TimelineReconstructs'
<1>1. PICK t : t = tx[r]
  OBVIOUS
<1>2. Answered' = Answered \cup {t.n} /\ shared' = shared
  BY <1>1, CommitsRest
<1>3. /\ DOMAIN incidents' = DOMAIN incidents \cup ({t.inc} \ {None})
      /\ \A i \in DOMAIN incidents : i # t.inc => incidents'[i] = incidents[i]
      /\ \A saved : t.inc # None /\ saved = incidents'[t.inc] => Closes(t, saved)
  BY <1>1, CommitsIncident
<1>4. /\ \A e \in Evidence : e # t.ev => evidence'[e] = evidence[e]
      /\ \A row, saved : t.ev \in Evidence /\ row = evidence[t.ev] /\ saved = evidence'[t.ev] => Binds(t, row, saved)
  BY <1>1, CommitsEvidence
<1>5. None \notin DOMAIN incidents
  BY CaseAssumption DEF CInv, Rows
<1>6. ASSUME NEW i \in DOMAIN incidents'
      PROVE  /\ NamedIn(incidents'[i]) \subseteq Answered' \cup {0}
             /\ Alone("incident", i) => incidents'[i].status = Told(incidents'[i].timeline)
  <2>1. CASE i = t.inc
    <3>1. t.inc # None
      BY <1>3, <1>5, <2>1
    <3>2. PICK saved : saved = incidents'[i]
      OBVIOUS
    <3>3. Closes(t, saved)
      BY <1>3, <2>1, <3>1, <3>2
    <3>4. QED
      BY <1>2, <2>1, <3>2, <3>3 DEF Closes
  <2>2. CASE i # t.inc
    <3>1. i \in DOMAIN incidents /\ incidents'[i] = incidents[i]
      BY <1>3, <2>2
    <3>2. NamedIn(incidents[i]) \subseteq Answered \cup {0}
      BY <3>1 DEF CInv, Facts, OnlyAnswered, NamedIn
    <3>3. Alone("incident", i) => incidents[i].status = Told(incidents[i].timeline)
      BY <3>1 DEF CInv, Facts, TimelineReconstructs, Told
    <3>4. QED
      BY <1>2, <3>1, <3>2, <3>3
  <2>3. QED
    BY <2>1, <2>2
<1>7. ASSUME NEW e \in Evidence PROVE NamedOn(evidence'[e]) \subseteq Answered'
  <2>1. PICK row, saved : row = evidence[e] /\ saved = evidence'[e]
    OBVIOUS
  <2>2. CASE e = t.ev
    BY <1>2, <1>4, <2>1, <2>2 DEF Binds
  <2>3. CASE e # t.ev
    <3>1. NamedOn(row) \subseteq Answered
      BY <2>1 DEF CInv, Facts, OnlyAnswered, NamedOn
    <3>2. QED
      BY <1>2, <1>4, <2>1, <2>3, <3>1
  <2>4. QED
    BY <2>2, <2>3
<1>8. OnlyAnswered'
  BY <1>6, <1>7 DEF OnlyAnswered, NamedIn, NamedOn
<1>9. TimelineReconstructs'
  <2>1. \A i : Alone("incident", i)' <=> Alone("incident", i)
    BY <1>2 DEF Alone
  <2>2. QED
    BY <1>6, <2>1 DEF TimelineReconstructs, Told
<1>10. QED
  BY <1>8, <1>9

\* A row that a commit writes is not one that another request has read alone.
LEMMA CommitFits ==
  ASSUME CInv, NEW r \in Requests, Commit(r), NEW q \in Requests, q # r, NEW v, v = tx[q], v.pc # "idle"
  PROVE  Fits(v)'
<1>1. PICK t : t = tx[r]
  OBVIOUS
<1>2. /\ Sound(t) /\ t.pc = "commit" /\ t.op \in Ops /\ t.n \in 1..served /\ served' = served /\ shared' = shared
      /\ Answered' = Answered \cup {t.n}
  BY <1>1, CommitsRest
<1>3. /\ DOMAIN incidents' = DOMAIN incidents \cup ({t.inc} \ {None})
      /\ \A i \in DOMAIN incidents : i # t.inc => incidents'[i] = incidents[i]
      /\ \A saved : t.inc # None /\ saved = incidents'[t.inc] => Closes(t, saved)
  BY <1>1, CommitsIncident
<1>4. /\ \A e \in Evidence : e # t.ev => evidence'[e] = evidence[e]
      /\ t.ev \in Evidence => t.op \in {"evidence_link", "custody"}
      /\ \A row, saved : t.ev \in Evidence /\ row = evidence[t.ev] /\ saved = evidence'[t.ev] => Binds(t, row, saved)
  BY <1>1, CommitsEvidence
<1>5. Fits(v) /\ Sound(v) /\ Current(v) /\ v.op \in Ops /\ v.n \in 1..served
  BY OpenRequest DEF Fits, Sound
<1>6. Beside(t, v, shared)
  BY <1>1, <1>2 DEF CInv, Apart
<1>7. DOMAIN incidents \subseteq DOMAIN incidents' /\ Answered \subseteq Answered'
  BY <1>2, <1>3
<1>8. None \notin DOMAIN incidents /\ None \notin Alerts /\ None \notin Evidence
  BY CaseAssumption DEF CInv, Rows
<1>9. v.op = "from_alert" => Converting(v)'
  <2> SUFFICES ASSUME v.op = "from_alert" PROVE Converting(v)'
    OBVIOUS
  <2>1. Converting(v)
    BY <1>5 DEF Sound
  <2>2. v.alert # None => v.n \notin DOMAIN incidents'
    <3>1. v.n # t.n
      BY <1>6 DEF Beside
    <3>2. t.inc # None /\ t.inc \notin DOMAIN incidents => t.inc = t.n
      BY <1>3 DEF Closes
    <3>3. QED
      BY <1>3, <2>1, <3>1, <3>2 DEF Converting
  <2>3. ASSUME v.pc = "commit", v.alert # None, \A i \in DOMAIN incidents : incidents[i].source_alert_id # v.alert,
               NEW i \in DOMAIN incidents'
        PROVE  incidents'[i].source_alert_id # v.alert
    <3>1. CASE i # t.inc
      BY <1>3, <2>3, <3>1
    <3>2. CASE i = t.inc
      <4>1. PICK saved : saved = incidents'[t.inc]
        OBVIOUS
      <4>2. t.inc # None
        BY <1>3, <1>8, <3>2
      <4>3. Closes(t, saved)
        BY <1>3, <4>1, <4>2
      <4>4. CASE t.inc \in DOMAIN incidents
        BY <2>3, <3>2, <4>1, <4>3, <4>4 DEF Closes
      <4>5. CASE t.inc \notin DOMAIN incidents
        <5>1. saved.source_alert_id = t.alert /\ t.alert # None
          BY <1>8, <4>3, <4>5 DEF Closes
        <5>2. t.alert # v.alert
          BY <1>2, <1>6, <2>3, <5>1 DEF Beside
        <5>3. QED
          BY <3>2, <4>1, <5>1, <5>2
      <4>6. QED
        BY <4>4, <4>5
    <3>3. QED
      BY <3>1, <3>2
  <2>4. CASE v.pc = "create" \/ v.alert = None
    BY <1>8, <2>1, <2>2, <2>4 DEF Converting
  <2>5. CASE v.pc = "commit" /\ v.alert # None
    BY <1>8, <2>1, <2>2, <2>3, <2>5 DEF Converting
  <2>6. QED
    BY <2>1, <2>4, <2>5 DEF Converting
<1>10. v.op \notin {"from_alert", "custody"} => Working(v)'
  <2> SUFFICES ASSUME v.op \notin {"from_alert", "custody"} PROVE Working(v)'
    OBVIOUS
  <2>1. Working(v)
    BY <1>5 DEF Sound
  <2>2. v.inc \in DOMAIN incidents' /\ NamedIn(v.row) \subseteq Answered' \cup {0}
    BY <1>7, <2>1 DEF Working
  <2>3. Edited(v)' <=> Edited(v)
    BY DEF Edited, IsIncident
  <2>4. IsIncident(v.row)' <=> IsIncident(v.row)
    BY DEF IsIncident
  <2>5. QED
    BY <2>1, <2>2, <2>3, <2>4 DEF Working
<1>11. Handling(v) => Handling(v)'
  <2> SUFFICES ASSUME Handling(v) PROVE Handling(v)'
    OBVIOUS
  <2>1. IsEvidence(v.evidence_row)' /\ NamedOn(v.evidence_row) \subseteq Answered'
    BY <1>7 DEF Handling, IsEvidence
  <2>2. Bound(v) => Bound(v)'
    BY <1>7 DEF Bound, IsEvidence
  <2>3. QED
    BY <2>1, <2>2 DEF Handling
<1>12. Sound(v)'
  BY <1>2, <1>5, <1>9, <1>10, <1>11 DEF Sound
<1>13. \A c, id : Alone(c, id)' <=> Alone(c, id)
  BY <1>2 DEF Alone
<1>14. ASSUME v.inc \in DOMAIN incidents', Alone("incident", v.inc)
       PROVE  \A c \in IncidentColumns : v.row[c] = incidents'[v.inc][c]
  <2>1. v.inc # None
    BY <1>3, <1>8, <1>14
  <2>2. v.inc # t.inc
    <3>1. <<"incident", v.inc>> \in Held(v)
      BY <2>1 DEF Held
    <3>2. t.inc = v.inc => <<"incident", v.inc>> \in Held(t)
      BY <2>1 DEF Held
    <3>3. QED
      BY <1>6, <1>14, <3>1, <3>2 DEF Beside, Alone
  <2>3. v.inc \in DOMAIN incidents /\ incidents'[v.inc] = incidents[v.inc]
    BY <1>3, <1>14, <2>2
  <2>4. QED
    BY <1>5, <1>14, <2>3 DEF Current
<1>15. ASSUME v.op = "evidence_link", v.pc # "lookup", Alone("evidence_link", v.ev)
       PROVE  /\ v.evidence_row.incident_id = evidence'[v.ev].incident_id
              /\ v.evidence_row.history = evidence'[v.ev].history
  <2>1. PICK row, saved : row = evidence[v.ev] /\ saved = evidence'[v.ev]
    OBVIOUS
  <2>2. v.evidence_row.incident_id = row.incident_id /\ v.evidence_row.history = row.history
    BY <1>5, <1>15, <2>1 DEF Current
  <2>3. v.ev \in Evidence
    BY <1>5, <1>15 DEF Sound, Handling
  <2>4. CASE v.ev # t.ev
    BY <1>4, <2>1, <2>2, <2>3, <2>4
  <2>5. CASE v.ev = t.ev
    <3>1. Binds(t, row, saved) /\ t.op \in {"evidence_link", "custody"}
      BY <1>4, <2>1, <2>3, <2>5
    <3>2. <<"evidence_link", v.ev>> \in Held(v)
      BY <1>8, <1>15, <2>3 DEF Held
    <3>3. t.op = "evidence_link" => <<"evidence_link", v.ev>> \in Held(t)
      BY <1>2, <1>8, <2>3, <2>5 DEF Held
    <3>4. t.op = "custody"
      BY <1>6, <1>15, <3>1, <3>2, <3>3 DEF Beside, Alone
    <3>5. QED
      BY <2>1, <2>2, <3>1, <3>4 DEF Binds
  <2>6. QED
    BY <2>4, <2>5
<1>16. ASSUME v.op = "custody", Alone("custody", v.ev)
       PROVE  v.evidence_row.custody = evidence'[v.ev].custody
  <2>1. PICK row, saved : row = evidence[v.ev] /\ saved = evidence'[v.ev]
    OBVIOUS
  <2>2. v.evidence_row.custody = row.custody
    BY <1>5, <1>16, <2>1 DEF Current
  <2>3. v.ev \in Evidence /\ v.pc # "lookup"
    BY <1>5, <1>16 DEF Sound, Handling
  <2>4. CASE v.ev # t.ev
    BY <1>4, <2>1, <2>2, <2>3, <2>4
  <2>5. CASE v.ev = t.ev
    <3>1. Binds(t, row, saved) /\ t.op \in {"evidence_link", "custody"}
      BY <1>4, <2>1, <2>3, <2>5
    <3>2. <<"custody", v.ev>> \in Held(v)
      BY <1>8, <1>16, <2>3 DEF Held
    <3>3. t.op = "custody" => <<"custody", v.ev>> \in Held(t)
      BY <1>2, <1>8, <2>3, <2>5 DEF Held
    <3>4. t.op = "evidence_link"
      BY <1>6, <1>16, <3>1, <3>2, <3>3 DEF Beside, Alone
    <3>5. QED
      BY <2>1, <2>2, <3>1, <3>4 DEF Binds
  <2>6. QED
    BY <2>4, <2>5
<1>17. Current(v)'
  BY <1>13, <1>14, <1>15, <1>16 DEF Current
<1>18. QED
  BY <1>12, <1>17 DEF Fits

LEMMA CommitKeeps ==
  ASSUME CInv, NEW r \in Requests, Commit(r)
  PROVE  CInv'
<1>1. Rows' /\ Named'
  BY CommitRows
<1>2. Facts'
  BY CommitAlerts, CommitEntries, CommitBound, CommitAnswered DEF Facts
<1>3. tx' = [tx EXCEPT ![r] = Idle] /\ shared' = shared /\ DOMAIN tx = Requests /\ Apart
  BY DEF Commit, CInv
<1>4. Apart'
  BY <1>3, ApartKept, IdlePc
<1>5. ASSUME NEW q \in Requests PROVE (tx[q] = Idle \/ Fits(tx[q]))'
  <2>1. CASE q = r
    BY <1>3, <2>1
  <2>2. CASE q # r
    <3>1. PICK v : v = tx[q]
      OBVIOUS
    <3>2. tx'[q] = v
      BY <1>3, <2>2, <3>1
    <3>3. v = Idle \/ Fits(v)'
      BY <2>2, <3>1, CommitFits DEF CInv, Fits
    <3>4. QED
      BY <3>2, <3>3
  <2>3. QED
    BY <2>1, <2>2
<1>6. QED
  BY <1>1, <1>2, <1>3, <1>4, <1>5 DEF CInv

-----------------------------------------------------------------------------
\* What correlation has grouped.
LEMMA GroupedIncident ==
  ASSUME NEW cited \in SUBSET Evidence, NEW row,
         row = Incident(None, "grouped", cited, TimelineEvent("created", 0, "grouped"))
  PROVE  /\ IsIncident(row) /\ row.source_alert_id = None /\ NamedIn(row) = {0}
         /\ row.status = Told(row.timeline)
<1>1. PICK e : e = TimelineEvent("created", 0, "grouped")
  OBVIOUS
<1>2. e.by = 0 /\ e.kind = "created" /\ e.status = "grouped" /\ e \in Entry
  <2>1. 0 \in 0..MaxRequests
    BY CaseAssumption
  <2>2. QED
    BY <1>1, <2>1 DEF TimelineEvent, Entry, INCIDENT_STATUSES
<1>3. /\ DOMAIN row = IncidentColumns /\ row.source_alert_id = None /\ row.status = "grouped"
      /\ row.evidence_ids = cited /\ row.notes = <<>> /\ row.tasks = <<>> /\ row.timeline = <<e>>
  BY <1>1 DEF Incident, IncidentColumns
<1>4. /\ <<e>> \in Seq(Entry) /\ <<e>> # <<>> /\ <<>> \in Seq(Numbers) /\ "grouped" \in INCIDENT_STATUSES
      /\ cited \subseteq Evidence
  BY <1>2 DEF INCIDENT_STATUSES
<1>5. IsIncident(row)
  BY <1>3, <1>4 DEF IsIncident
<1>6. Entries(<<e>>) = {0} /\ Range(<<>>) = {}
  BY <1>2 DEF Entries, Range
<1>7. Told(<<e>>) = "grouped"
  <2>1. None # "grouped"
    BY CaseAssumption DEF INCIDENT_STATUSES
  <2>2. QED
    BY <1>2, <2>1, ToldFirst DEF Replay
<1>8. QED
  BY <1>3, <1>5, <1>6, <1>7 DEF NamedIn

LEMMA InitCase == Init => CInv
<1> SUFFICES ASSUME Init PROVE CInv
  OBVIOUS
<1>1. /\ DOMAIN incidents = Grouped /\ DOMAIN evidence = Evidence /\ DOMAIN tx = Requests
      /\ \A r \in Requests : tx[r] = Idle
      /\ alerts = [a \in Alerts |-> "open"] /\ served = 0 /\ acked = {} /\ shared = {}
  BY DEF Init
<1>2. ASSUME NEW g \in Grouped
      PROVE  /\ IsIncident(incidents[g]) /\ incidents[g].source_alert_id = None /\ NamedIn(incidents[g]) = {0}
             /\ incidents[g].status = Told(incidents[g].timeline)
  <2>1. PICK row, cited : row = incidents[g] /\ cited = StoryEvidence[g]
    OBVIOUS
  <2>2. cited \in SUBSET Evidence
    BY <2>1, CaseAssumption
  <2>3. row = Incident(None, "grouped", cited, TimelineEvent("created", 0, "grouped"))
    BY <2>1 DEF Init
  <2>4. QED
    BY <2>1, <2>2, <2>3, GroupedIncident
<1>3. ASSUME NEW e \in Evidence
      PROVE  IsEvidence(evidence[e]) /\ NamedOn(evidence[e]) = {}
  <2>1. PICK row : row = evidence[e]
    OBVIOUS
  <2>2. DOMAIN row = EvidenceColumns /\ row.incident_id = None /\ row.history = <<>> /\ row.custody = <<>>
    BY <2>1 DEF Init, EvidenceColumns
  <2>3. <<>> \in Seq(Numbers) /\ Range(<<>>) = {}
    BY DEF Range
  <2>4. QED
    BY <2>1, <2>2, <2>3 DEF IsEvidence, NamedOn
<1>4. Rows
  <2>1. served \in 0..MaxRequests
    BY <1>1, CaseAssumption
  <2>2. QED
    BY <1>1, <1>2, <1>3, <2>1 DEF Rows
<1>5. Named /\ EntriesKept /\ EvidenceBoundOnce
  BY <1>1 DEF Named, EntriesKept, EvidenceBoundOnce
<1>6. OneIncidentPerAlert
  BY <1>1, <1>2, CaseAssumption DEF OneIncidentPerAlert
<1>7. OnlyAnswered
  BY <1>1, <1>2, <1>3 DEF OnlyAnswered, NamedIn, NamedOn
<1>8. TimelineReconstructs
  BY <1>1, <1>2 DEF TimelineReconstructs, Told
<1>9. Apart
  BY <1>1, IdlePc DEF Apart
<1>10. QED
  BY <1>1, <1>4, <1>5, <1>6, <1>7, <1>8, <1>9 DEF CInv, Facts

LEMMA NextCase ==
  ASSUME CInv, [Next]_vars
  PROVE  CInv'
<1>1. ASSUME NEW r \in Requests, Call(r) PROVE CInv'
  BY <1>1, CallKeeps
<1>2. ASSUME NEW r \in Requests, Work(r) PROVE CInv'
  <2>1. CASE CreateFromAlert(r) \/ LookUpEvidence(r) \/ Link(r) \/ AppendCustody(r) \/ Commit(r)
    BY <2>1, CreateFromAlertKeeps, LookUpEvidenceKeeps, LinkKeeps, AppendCustodyKeeps, CommitKeeps
  <2>2. CASE SetStatus(r) \/ Assign(r) \/ AddNote(r) \/ AddTask(r) \/ SetRootCause(r) \/ SetLessons(r)
    BY <2>2, SetStatusKeeps, AssignKeeps, AddNoteKeeps, AddTaskKeeps, SetTextKeeps
  <2>3. QED
    BY <1>2, <2>1, <2>2 DEF Work
<1>3. ASSUME NEW r \in Requests, Fail(r) PROVE CInv'
  BY <1>3, RollbackKeeps DEF Fail
<1>4. CASE UNCHANGED vars
  <2>1. UNCHANGED <<rows, acked>> /\ shared' = shared /\ served' = served /\ tx' = tx
    BY <1>4 DEF vars
  <2>2. served \in Nat /\ served' \in Nat /\ served <= served' /\ served' \in served..MaxRequests
    BY <2>1, CaseAssumption DEF CInv, Rows
  <2>3. Rows' /\ Named' /\ Facts'
    BY <2>1, <2>2, FactsKept DEF CInv
  <2>4. Apart'
    BY <2>1 DEF CInv, Apart
  <2>5. ASSUME NEW q \in Requests PROVE (tx[q] = Idle \/ Fits(tx[q]))'
    <3>1. PICK v : v = tx[q]
      OBVIOUS
    <3>2. v = Idle \/ Fits(v)'
      BY <2>1, <2>2, <3>1, FitsKept DEF CInv
    <3>3. QED
      BY <2>1, <3>1, <3>2
  <2>6. QED
    BY <2>1, <2>3, <2>4, <2>5 DEF CInv
<1>5. QED
  BY <1>1, <1>2, <1>3, <1>4 DEF Next

\* The inductive invariant says that the types are right.
LEMMA CaseTyped ==
  ASSUME CInv
  PROVE  TypeOK
<1>1. DOMAIN incidents \subseteq Grouped \cup Numbers
  BY CaseAssumption DEF CInv, Rows, Numbers
<1>2. \A i \in DOMAIN incidents :
        /\ incidents[i].source_alert_id \in Alerts \cup {None}
        /\ incidents[i].status \in INCIDENT_STATUSES
        /\ incidents[i].evidence_ids \subseteq Evidence
        /\ incidents[i].notes \in Seq(Numbers) /\ incidents[i].tasks \in Seq(Numbers)
        /\ incidents[i].timeline # <<>>
  BY DEF CInv, Rows, IsIncident
<1>3. \A e \in Evidence :
        /\ evidence[e].incident_id \in DOMAIN incidents \cup {None}
        /\ evidence[e].history \in Seq(Numbers) /\ evidence[e].custody \in Seq(Numbers)
  BY DEF CInv, Rows, IsEvidence
<1>4. ASSUME NEW r \in Requests
      PROVE  /\ tx[r].pc \in {"idle", "create", "lookup", "change", "commit"}
             /\ tx[r].pc \in {"lookup", "change"} /\ tx[r].op # "custody" => tx[r].inc \in DOMAIN incidents
             /\ tx[r].pc # "idle" => tx[r].op \in Ops
  <2>1. PICK t : t = tx[r]
    OBVIOUS
  <2>2. CASE t = Idle
    BY <2>1, <2>2, IdlePc
  <2>3. CASE t # Idle
    <3>1. t.pc # "idle" /\ Sound(t) /\ t.op \in Ops
      BY <2>1, <2>3 DEF CInv, Fits, Sound
    <3>2. CASE t.op = "from_alert"
      BY <2>1, <3>1, <3>2 DEF Sound, Converting
    <3>3. CASE t.op = "custody"
      BY <2>1, <3>1, <3>3 DEF Sound
    <3>4. CASE t.op \notin {"from_alert", "custody"}
      BY <2>1, <3>1, <3>4 DEF Sound, Working
    <3>5. QED
      BY <3>2, <3>3, <3>4
  <2>4. QED
    BY <2>2, <2>3
<1>5. \A a \in acked : a.n \in Numbers /\ a.op \in Ops
  BY CaseAssumption DEF CInv, Rows, Numbers
<1>6. alerts \in [Alerts -> {"open", "promoted"}] /\ served \in 0..MaxRequests
  BY DEF CInv, Rows
<1>7. QED
  BY <1>1, <1>2, <1>3, <1>4, <1>5, <1>6 DEF TypeOK

-----------------------------------------------------------------------------
\* The inductive invariant holds in every behaviour.
THEOREM CaseInvariant == Spec => []CInv
BY InitCase, NextCase, PTL DEF Spec

\* However many analysts convert an alert, it becomes one incident, and it is
\* promoted exactly when that incident exists (create_from_alert).
THEOREM AlertsBecomeOneIncident == Spec => []OneIncidentPerAlert
<1>1. CInv => OneIncidentPerAlert
  BY DEF CInv, Facts
<1>2. QED
  BY <1>1, CaseInvariant, PTL

\* What a request was told is recorded and bound stays so, and what failed has
\* left nothing, unless two requests held the same columns at once (the
\* operations of services/incidents.py and services/evidence.py, get_db).
THEOREM AnswersAlwaysStand == Spec => []AnswersStand
<1>1. CInv => AnswersStand
  BY CaseTyped DEF CInv, Facts, AnswersStand
<1>2. QED
  BY <1>1, CaseInvariant, PTL

\* The status of an incident that no two requests held at once is what its
\* timeline tells, however long that has become (set_status, assign).
THEOREM TimelineAlwaysReconstructs == Spec => []TimelineReconstructs
<1>1. CInv => TimelineReconstructs
  BY DEF CInv, Facts
<1>2. QED
  BY <1>1, CaseInvariant, PTL
=============================================================================
