----------------------------- MODULE Telemetry -----------------------------
(***************************************************************************)
(* The events that are stored, hunted in and viewed.                       *)
(*                                                                         *)
(* How a field of an event is compared with a value is abstracted to facts *)
(* that the event has; the body holds what the views read.  An empty       *)
(* string, an empty sequence and the number 0 stand for an absent value;   *)
(* the name of a process is the sequence of the parts of its path.         *)
(***************************************************************************)
EXTENDS Integers, Sequences, SequencesExt

CONSTANTS
  Facts,    \* fields of the table in _field_value
  Times,    \* timestamps of events
  Names     \* names of hosts, parts of paths, addresses, and of what connectors send

ASSUME TimesAssumption == Times \subseteq Nat
ASSUME NamesAssumption == {"", "azure-ad"} \subseteq Names

Tenants == {"own", "other"}
Endpoint == {"wazuh", "sysmon"}
Network == {"zeek", "suricata"}
Sources == Endpoint \cup Network \cup {"azure-ad", ""}

Bodies ==
  [source : Sources, host : Names, src : Names, dst : Names, pid : Nat, name : Seq(Names),
   ppid : Nat, pname : Seq(Names), rule : BOOLEAN, high : BOOLEAN]

NoBody ==
  [source |-> "", host |-> "", src |-> "", dst |-> "", pid |-> 0, name |-> <<>>,
   ppid |-> 0, pname |-> <<>>, rule |-> FALSE, high |-> FALSE]

\* The row of a connector's batch that an event was made of (history), for
\* other events the empty string.
NoRow == ""

Event ==
  [id : Nat, tenant : Tenants, time : Times, facts : SUBSET Facts, body : Bodies, row : Names]

\* The elements of a sequence that are in a set, in their order.
Pick(acc, x) == IF x \in acc.from THEN [acc EXCEPT !.kept = Append(@, x)] ELSE acc
Only(s, S) == FoldLeft(Pick, [from |-> S, kept |-> <<>>], s).kept
=============================================================================
