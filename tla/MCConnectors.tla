---------------------------- MODULE MCConnectors ----------------------------
(* A small vocabulary, the sequences that are run over stored events, and   *)
(* the rows for the other hunts: of the own tenant with every outcome of    *)
(* the projection, and of another tenant.  The rows of the feeds: with ids  *)
(* that the adapters keep or replace, one of them that of the other         *)
(* tenant's event, with a process and its child in either order, and of     *)
(* every form.                                                              *)
EXTENDS Connectors, HuntLanguage

A == <<"a", "=", "TRUE">>
NotB == <<"b", "!=", "TRUE">>
Group == <<"(">> \o A \o <<"OR">> \o NotB \o <<")">>

MCPhrases ==
  {A, NotB, Group, <<"u", "=", "TRUE">>, <<"a", "IN", "(", "TRUE", ",", "TRUE", ")">>,
   <<"AND">>, <<"OR">>, <<"NOT">>, <<"(">>, <<")">>, <<"FOLLOWED_BY">>, <<"WITHIN", "duration">>,
   <<"FROM", "b", "WHERE">>}

MCSequenceHunts ==
  {A \o <<"FOLLOWED_BY">> \o NotB,
   A \o <<"FOLLOWED_BY">> \o A \o <<"FOLLOWED_BY">> \o NotB,
   A \o <<"FOLLOWED_BY">> \o NotB \o <<"WITHIN", "duration">>,
   NotB \o <<"FOLLOWED_BY">> \o <<"u", "=", "TRUE">>}

Row(tenant, facts, stored, projected) ==
  [tenant |-> tenant, facts |-> facts, stored |-> stored, projected |-> projected]

MCTableRows ==
  {Row("own", {"a"}, TRUE, TRUE), Row("own", {"a"}, TRUE, FALSE), Row("own", {"a"}, FALSE, TRUE),
   Row("own", {}, TRUE, TRUE), Row("other", {"a"}, TRUE, TRUE)}

Payload(feed, key, form, time, raw) ==
  [feed |-> feed, key |-> key, prefixed |-> key = 3, form |-> form, time |-> time, raw |-> raw]

Alert == [NoBody EXCEPT !.source = "wazuh", !.host = "h", !.name = <<"word">>, !.pname = <<"mail">>, !.rule = TRUE]
Parent == [NoBody EXCEPT !.source = "sysmon", !.host = "h", !.pid = 4, !.name = <<"bin", "cmd">>]
Child ==
  [NoBody EXCEPT !.source = "sysmon", !.host = "h", !.pid = 5, !.name = <<"bin", "sh">>, !.ppid = 4,
                 !.pname = <<"cmd">>, !.src = "ip1", !.dst = "ip2"]
Conn == [NoBody EXCEPT !.source = "zeek", !.src = "ip1", !.dst = "ip2"]
Ids == [NoBody EXCEPT !.source = "suricata", !.src = "ip1", !.dst = "ip3", !.high = TRUE]

MCNames ==
  {"", "azure-ad", "h", "ip1", "ip2", "ip3", "word", "mail", "bin", "cmd", "sh"} \cup
  {"alert", "early", "parent", "child", "broken", "conn", "ids", "garbled", "claims", "audit", "unreadable"}

MCRows ==
  [alert |-> Payload("wazuh", 1, "plain", 1, Alert),
   early |-> Payload("wazuh", 0, "plain", 0, [Alert EXCEPT !.rule = FALSE]),
   parent |-> Payload("wazuh", 2, "plain", 1, Parent),
   child |-> Payload("wazuh", 0, "plain", 1, Child),
   broken |-> Payload("wazuh", 0, "broken", 3, Alert),
   conn |-> Payload("network", 3, "plain", 1, Conn),
   ids |-> Payload("network", 4, "plain", 0, Ids),
   garbled |-> Payload("network", 0, "invalid", 3, Conn),
   claims |-> Payload("network", 0, "claims", 3, Ids),
   audit |-> Payload("cloud", 5, "plain", 1, [NoBody EXCEPT !.src = "ip1"]),
   unreadable |-> Payload("cloud", 0, "invalid", 3, NoBody)]
=============================================================================
