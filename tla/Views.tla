------------------------------- MODULE Views -------------------------------
(***************************************************************************)
(* What the read-only endpoints compute from a tenant's window of events:  *)
(* the process tree (endpoint-adapters: process_tree.py), the network      *)
(* sessions (network-adapters: sessions_from_events) and the agents of the *)
(* Wazuh connector (connectors: WazuhConnector).                           *)
(***************************************************************************)
EXTENDS Telemetry, FiniteSetsExt, TLC

-----------------------------------------------------------------------------
(* process_tree.py                                                          *)
HasProcess(e) == e.body.pid # 0 \/ e.body.name # <<>>
HasParent(e) == e.body.ppid # 0 \/ e.body.pname # <<>>

NodeId(host, by, n, name) == [host |-> host, by |-> by, n |-> n, name |-> name]

\* _node_id: by process number, or by event when there is none.
node_id(e) ==
  IF e.body.pid # 0 THEN NodeId(e.body.host, "pid", e.body.pid, e.body.name)
  ELSE NodeId(e.body.host, "event", e.id, e.body.name)

\* _parent_id: by process number, or by name alone.
parent_id(e) ==
  IF e.body.ppid # 0
  THEN NodeId(e.body.host, "pid", e.body.ppid, IF e.body.pname = <<>> THEN <<"parent">> ELSE e.body.pname)
  ELSE NodeId(e.body.host, "name", 0, e.body.pname)

\* Mutant: the parent is written even when it is there.
AddProcess_Overwrites(tree, e) ==
  LET own == (node_id(e) :> [event |-> e.id, inferred |-> FALSE]) @@ tree.nodes
  IN  IF ~HasParent(e) THEN [tree EXCEPT !.nodes = own]
      ELSE [nodes |-> (parent_id(e) :> [event |-> 0, inferred |-> TRUE]) @@ own,
            edges |-> Append(tree.edges, [parent |-> parent_id(e), child |-> node_id(e), event |-> e.id])]

\* The node of the event replaces an earlier one; the parent is added only
\* when it is not there.
AddProcess(tree, e) ==
  LET own == (node_id(e) :> [event |-> e.id, inferred |-> FALSE]) @@ tree.nodes
  IN  IF ~HasParent(e) THEN [tree EXCEPT !.nodes = own]
      ELSE [nodes |-> own @@ (parent_id(e) :> [event |-> 0, inferred |-> TRUE]),
            edges |-> Append(tree.edges, [parent |-> parent_id(e), child |-> node_id(e), event |-> e.id])]

build_process_tree(events) ==
  FoldLeft(AddProcess, [nodes |-> <<>>, edges |-> <<>>], SelectSeq(events, HasProcess))

-----------------------------------------------------------------------------
(* sessions_from_events                                                     *)
HasSession(e) == e.body.src # "" /\ e.body.dst # ""

\* Protocol and port, which the key also has, are not part of the model.
SessionKey(e) == <<e.body.src, e.body.dst>>

sessions_from_events(events) ==
  LET relevant == SelectSeq(events, HasSession)
      Group(key) == SelectSeq(relevant, LAMBDA e : SessionKey(e) = key)
      Refs(key, source) == {e.id : e \in {f \in ToSet(Group(key)) : f.body.source = source}}
  IN  {[src |-> Group(key)[1].body.src, dst |-> Group(key)[1].body.dst,
        start |-> Group(key)[1].time, end |-> Last(Group(key)).time, packets |-> Len(Group(key)),
        zeek_refs |-> Refs(key, "zeek"), suricata_refs |-> Refs(key, "suricata")] :
         key \in {SessionKey(e) : e \in ToSet(relevant)}}

-----------------------------------------------------------------------------
(* WazuhConnector                                                           *)
IsWazuh(e) == e.body.source = "wazuh" \/ e.body.rule

agent_id(e) == IF e.body.host = "" THEN "unknown" ELSE e.body.host

\* One more event of an agent.
Seen(row, e) ==
  [row EXCEPT !.event_count = @ + 1, !.last_seen = e.time,
              !.alerts = @ + (IF e.body.rule \/ e.body.high THEN 1 ELSE 0)]

inventory(events) ==
  LET Add(by_agent, e) ==
        LET known == by_agent @@ (agent_id(e) :> [last_seen |-> e.time, event_count |-> 0, alerts |-> 0])
        IN  [known EXCEPT ![agent_id(e)] = Seen(@, e)]
  IN  FoldLeft(Add, <<>>, SelectSeq(events, IsWazuh))

\* Every agent that was ever seen counts as active.
health(events) ==
  LET wazuh_events == SelectSeq(events, IsWazuh)
  IN  [status |-> IF wazuh_events = <<>> THEN "awaiting_telemetry" ELSE "healthy",
       agents_total |-> Cardinality(DOMAIN inventory(events)),
       last_event_at |-> IF wazuh_events = <<>> THEN 0 ELSE Max({e.time : e \in ToSet(wazuh_events)}),
       events_seen |-> Len(wazuh_events)]
=============================================================================
