----------------------------- MODULE Connectors -----------------------------
(***************************************************************************)
(* The connectors (api/connectors.py and the source adapters) as writers   *)
(* of the tables that the hunts read: batches from Wazuh agents, from the  *)
(* network sensors and from the directory of a cloud.                      *)
(*                                                                         *)
(* A client repeats a batch when its answer was lost.  The handlers call   *)
(* ingest_payloads, of which the rows it stores, projects and dead-letters *)
(* are modelled here; what it makes of them is the subject of module       *)
(* Ingestion.                                                              *)
(***************************************************************************)
EXTENDS Hunts

CONSTANTS
  Rows,         \* the rows the clients send, by name (bound)
  MaxBatch,     \* bound: rows of a batch
  MaxRequests,  \* bound: batches sent
  FreshBase     \* ids made by the program are above it, those of clients below

ASSUME ConnectorAssumption ==
  /\ {MaxBatch, MaxRequests, FreshBase} \subseteq Nat
  /\ FreshBase > 0
  /\ \A p \in DOMAIN Rows :
       /\ p \in Names \ {NoRow}
       /\ Rows[p].feed \in {"wazuh", "network", "cloud"}
       /\ Rows[p].form \in {"plain", "claims", "invalid", "broken"}
       /\ Rows[p].key \in 0..(FreshBase - 1) /\ Rows[p].prefixed \in BOOLEAN
       /\ Rows[p].time \in Times /\ Rows[p].raw \in Bodies

VARIABLES
  dead,        \* [Payloads -> rows in dead_letter_events]
  accepted,    \* sum of the numbers "accepted" in the audit records
  requests,    \* batches sent (bound)
  sent,        \* [Payloads -> times in a batch that was answered] (history)
  rolledBack,  \* whether a request was undone after rows were projected (history)
  skipped      \* whether ClickHouse was away during a request (history)

feedVars == <<dead, accepted, requests, sent, rolledBack, skipped>>
telemetryVars == <<huntVars, feedVars>>

Payloads == DOMAIN Rows

-----------------------------------------------------------------------------
(* The adapters.  Forms of a row: plain; invalid, the adapter raises a      *)
(* ValueError; broken, it raises another exception; claims, the adapter     *)
(* takes it, but it has the four columns by which the router knows an event *)
(* that is canonical already, and is not one.                               *)
Adapter(p) == [plain |-> "event", claims |-> "event", invalid |-> "ValueError", broken |-> "other"][Rows[p].form]

\* normalize_payload: the router asks for the canonical columns first.  The
\* cloud endpoint hands it events, not rows.
Route(p) == IF Rows[p].feed = "cloud" THEN "event" ELSE IF Rows[p].form = "claims" THEN "ValueError" ELSE Adapter(p)

\* _basename
Basename(path) == IF path = <<>> THEN <<>> ELSE <<Last(path)>>

\* normalize_wazuh: neither process numbers nor addresses.
normalize_wazuh(raw) ==
  [NoBody EXCEPT !.source = "wazuh", !.host = raw.host, !.name = raw.name, !.pname = raw.pname,
                 !.rule = raw.rule, !.high = raw.high]

\* normalize_sysmon: the name of a process is the last part of its path, the
\* name of its parent is the path.
normalize_sysmon(raw) ==
  [NoBody EXCEPT !.source = "sysmon", !.host = raw.host, !.src = raw.src, !.dst = raw.dst, !.pid = raw.pid,
                 !.name = Basename(raw.name), !.ppid = raw.ppid, !.pname = raw.pname]

\* normalize_zeek and normalize_suricata: the host has an address only.
normalize_network(raw) ==
  [NoBody EXCEPT !.source = raw.source, !.src = raw.src, !.dst = raw.dst,
                 !.high = raw.high /\ raw.source = "suricata"]

\* AzureAdFixtureConnector.normalize_audit
normalize_audit(raw) ==
  [NoBody EXCEPT !.source = "azure-ad", !.host = IF raw.host = "" THEN "azure-ad" ELSE raw.host,
                 !.src = raw.src, !.high = raw.high]

\* A row of the Wazuh feed that names another source goes to its adapter.
Normalized(p) ==
  CASE Rows[p].feed = "network" -> normalize_network(Rows[p].raw)
    [] Rows[p].feed = "cloud" -> normalize_audit(Rows[p].raw)
    [] Rows[p].raw.source = "sysmon" -> normalize_sysmon(Rows[p].raw)
    [] OTHER -> normalize_wazuh(Rows[p].raw)

\* The network adapters keep an id only if it has the program's own prefix.
KeepsId(p) == Rows[p].key # 0 /\ (Rows[p].feed = "network" => Rows[p].prefixed)

\* The ids of clients that are kept tell rows apart.
ASSUME IdsAssumption ==
  \A p, q \in Payloads : KeepsId(p) /\ KeepsId(q) /\ Rows[p].key = Rows[q].key => p = q

-----------------------------------------------------------------------------
(* ingest_payloads                                                          *)
BatchesOf(feed) == UNION {[1..n -> {p \in Payloads : Rows[p].feed = feed}] : n \in 0..MaxBatch}
WazuhBatches == BatchesOf("wazuh")
NetworkBatches == BatchesOf("network")
CloudBatches == BatchesOf("cloud")

\* The id of an event: the client's, or a new one.
EventOf(acc, p) ==
  [id |-> IF KeepsId(p) THEN Rows[p].key ELSE FreshBase + acc.minted, tenant |-> "own", time |-> Rows[p].time,
   facts |-> {}, body |-> Normalized(p), row |-> p]

DeadLetterRow(acc, p) == [acc EXCEPT !.dead[p] = @ + 1]

\* Mutant: an event is projected before it is known whether it is new.
StoreRow_ProjectsFirst(acc, p) ==
  LET e == EventOf(acc, p)
      held == {f \in ToSet(acc.table) : f.id = e.id}
      early == [acc EXCEPT !.columns = IF acc.projected THEN Append(@, e) ELSE @,
                           !.minted = IF KeepsId(p) THEN @ ELSE @ + 1]
  IN  CASE \E f \in held : f.tenant # "own" -> DeadLetterRow(early, p)
        [] held # {} /\ \A f \in held : f.tenant = "own" -> early
        [] OTHER -> [early EXCEPT !.table = Append(@, e), !.accepted = @ + 1]

\* An id of another tenant is refused, one of the own tenant is a duplicate;
\* otherwise the event is projected and stored.
StoreRow(acc, p) ==
  LET e == EventOf(acc, p)
      held == {f \in ToSet(acc.table) : f.id = e.id}
  IN  CASE \E f \in held : f.tenant # "own" -> DeadLetterRow(acc, p)
        [] held # {} /\ \A f \in held : f.tenant = "own" -> acc
        [] OTHER -> [acc EXCEPT !.table = Append(@, e), !.accepted = @ + 1,
                                !.columns = IF acc.projected THEN Append(@, e) ELSE @,
                                !.minted = IF KeepsId(p) THEN @ ELSE @ + 1]

\* The rows one after another, until one raises what the loop does not catch.
IngestRow(acc, p) ==
  IF acc.raised THEN acc
  ELSE IF Route(p) = "other" THEN [acc EXCEPT !.raised = TRUE]
  ELSE IF Route(p) = "ValueError" THEN DeadLetterRow(acc, p)
  ELSE StoreRow(acc, p)

ingest_payloads(batch, projected) ==
  FoldLeft(IngestRow, [table |-> table, columns |-> columns, minted |-> minted, dead |-> dead, accepted |-> 0,
                       raised |-> FALSE, projected |-> projected], batch)

-----------------------------------------------------------------------------
(* The endpoints.                                                           *)
Occurrences(batch, p) == Cardinality({i \in DOMAIN batch : batch[i] = p})

\* The record is written and the session committed.
BatchStored(result, batch) ==
  /\ table' = result.table /\ dead' = result.dead
  /\ accepted' = accepted + result.accepted
  /\ sent' = [p \in Payloads |-> sent[p] + Occurrences(batch, p)]
  /\ UNCHANGED rolledBack

\* The session is rolled back; ClickHouse is not.
BatchUndone(result) ==
  /\ rolledBack' = (rolledBack \/ result.columns # columns)
  /\ UNCHANGED <<table, dead, accepted, sent>>

\* One batch through ingest_payloads.  A request may also fail after it, for
\* instance because its audit record cannot be written.  At most one event of
\* another tenant is there before (bound).
IngestBatch(batch, projected, fails) ==
  LET result == ingest_payloads(batch, projected)
  IN  /\ LET others == {e \in ToSet(table) \cup ToSet(columns) : e.row = NoRow}
         IN  Cardinality(others) <= 1 /\ \A e \in others : e.tenant = "other"
      /\ requests' = requests + 1
      /\ columns' = result.columns /\ minted' = result.minted
      /\ skipped' = (skipped \/ ~projected)
      /\ IF result.raised \/ fails THEN BatchUndone(result) ELSE BatchStored(result, batch)
      /\ UNCHANGED <<typed, answer, saved, audited, answered>>

\* POST /wazuh/ingest
WazuhIngest(batch, projected, fails) == IngestBatch(batch, projected, fails)

\* POST /network/ingest: an empty batch, or a row that its adapter does not
\* take, is refused before anything is stored.
NetworkIngest(batch, projected, fails) ==
  /\ batch # <<>>
  /\ \A p \in ToSet(batch) : Adapter(p) = "event"
  /\ IngestBatch(batch, projected, fails)

\* POST /cloud/azure/ingest: the adapter is called for all rows first.
AzureIngest(batch, projected, fails) ==
  /\ \A p \in ToSet(batch) : Adapter(p) = "event"
  /\ IngestBatch(batch, projected, fails)

FeedInit ==
  /\ HuntInit
  /\ dead = [p \in Payloads |-> 0] /\ sent = [p \in Payloads |-> 0]
  /\ accepted = 0 /\ requests = 0
  /\ rolledBack = FALSE /\ skipped = FALSE

\* The analyst types and stores rows before the first batch, and asks before it
\* or after one (bound).
Hunting ==
  /\ answer = NoAnswer /\ requests <= 1
  /\ HuntNext
  /\ requests = 0 \/ (requests = 1 /\ answer' # answer)
  /\ UNCHANGED feedVars

Feeding ==
  /\ answer = NoAnswer /\ typed = <<>> /\ requests < MaxRequests
  /\ \E projected, fails \in BOOLEAN :
       \/ \E batch \in WazuhBatches : WazuhIngest(batch, projected, fails)
       \/ \E batch \in NetworkBatches : NetworkIngest(batch, projected, fails)
       \/ \E batch \in CloudBatches : AzureIngest(batch, projected, fails)

FeedNext == Hunting \/ Feeding

FeedSpec == FeedInit /\ [][FeedNext]_telemetryVars
-----------------------------------------------------------------------------
FromFeeds(rows) == {e \in ToSet(rows) : e.row # NoRow}
Copies(p) == Cardinality({e \in ToSet(table) : e.row = p})

(* A batch is sent again when its answer was lost.  Every row that was      *)
(* answered is stored or dead-lettered, nothing of a batch that was undone  *)
(* is, a row whose id the adapter keeps is stored once however often it is  *)
(* sent, and another at most as often as it was answered (ingest_payloads,  *)
(* the ids the adapters give).                                              *)
RowsAccountedFor ==
  \A p \in Payloads :
    /\ (sent[p] > 0) = (Copies(p) + dead[p] > 0)
    /\ Copies(p) + dead[p] <= sent[p]
    /\ Rows[p].key # 0 /\ Rows[p].feed # "network" => Copies(p) <= 1

(* "Fail closed on unparseable rows before persistence" (connectors.py:158): *)
(* the network endpoint dead-letters no row that its adapter cannot parse.  *)
(* What it does dead-letter was taken by the adapter and refused by the     *)
(* router, or has the id of another tenant's event.                         *)
NetworkFailsClosed ==
  \A p \in Payloads : Rows[p].feed = "network" /\ dead[p] > 0 => Adapter(p) = "event"

(* As long as no request was undone, ClickHouse has no event that the       *)
(* control plane does not have and none twice, repeated batches included;   *)
(* as long as it was reachable it has all of them (the order of the         *)
(* duplicate check, best_effort_project and the insert).                    *)
BackendsAgree ==
  /\ ~rolledBack => /\ FromFeeds(columns) \subseteq FromFeeds(table)
                    /\ \A i, j \in DOMAIN columns : columns[i] = columns[j] /\ columns[i].row # NoRow => i = j
  /\ ~skipped => FromFeeds(table) \subseteq FromFeeds(columns)

(* The audit log tells how many events the connectors have stored: the      *)
(* numbers in its records add up to the rows of the table, also after       *)
(* duplicates, rejects and undone requests (write_audit in the endpoints).  *)
AuditCountsStored == accepted = Cardinality(FromFeeds(table))

(* What the connectors deliver is accounted for, in the table, among the    *)
(* dead letters, in ClickHouse and in the audit log, after repeated and     *)
(* undone batches too (connectors.py, ingest_payloads).                     *)
FeedsAccounted == RowsAccountedFor /\ NetworkFailsClosed /\ BackendsAgree /\ AuditCountsStored

(* "Missing parents are not invented" (process_tree.py:1): both ends of     *)
(* each edge are nodes, each edge rests on an event of the window, and a    *)
(* node is marked as inferred exactly when no event of the window is about  *)
(* it, in whatever order parents and children were reported.                *)
TreeIsObserved ==
  LET tree == build_process_tree(load_window)
      observed == {node_id(e) : e \in {f \in ToSet(load_window) : HasProcess(f)}}
  IN  /\ \A edge \in ToSet(tree.edges) : {edge.parent, edge.child} \subseteq DOMAIN tree.nodes
      /\ \A edge \in ToSet(tree.edges) : \E e \in ToSet(load_window) : e.id = edge.event /\ node_id(e) = edge.child
      /\ \A n \in DOMAIN tree.nodes : tree.nodes[n].inferred <=> n \notin observed

(* The sessions partition the events that have two addresses: each event is *)
(* counted in the one session of its addresses, between its start and end,  *)
(* and referenced there if it is from a sensor (sessions_from_events).      *)
SessionsPartition ==
  LET sessions == sessions_from_events(load_window)
      events == {e \in ToSet(load_window) : HasSession(e)}
  IN  /\ \A e \in events : Cardinality({s \in sessions : s.src = e.body.src /\ s.dst = e.body.dst}) = 1
      /\ \A s \in sessions :
           LET own == {e \in events : e.body.src = s.src /\ e.body.dst = s.dst}
           IN  /\ s.packets = Cardinality(own)
               /\ s.start = Min({e.time : e \in own}) /\ s.end = Max({e.time : e \in own})
               /\ s.zeek_refs \cup s.suricata_refs = {e.id : e \in {f \in own : f.body.source \in Network}}

(* The health of the Wazuh connector agrees with its inventory although     *)
(* they are computed separately and events arrive in any order: the counts  *)
(* of the agents add up to the events seen, and the last event is the       *)
(* latest of what the agents were last seen with (health, inventory).       *)
InventoryAgrees ==
  LET agents == inventory(load_window)
      now == health(load_window)
  IN  /\ now.events_seen = MapThenSumSet(LAMBDA a : agents[a].event_count, DOMAIN agents)
      /\ now.status = "healthy" <=> DOMAIN agents # {}
      /\ DOMAIN agents # {} => now.last_event_at = Max({agents[a].last_seen : a \in DOMAIN agents})
      /\ \A a \in DOMAIN agents : agents[a].alerts <= agents[a].event_count

(* The views computed from the window agree with its events and with each   *)
(* other: process tree, sessions, Wazuh inventory and health.               *)
ViewsAgree == TreeIsObserved /\ SessionsPartition /\ InventoryAgrees
=============================================================================
