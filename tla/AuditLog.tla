------------------------------ MODULE AuditLog ------------------------------
(***************************************************************************)
(* What the audit trail promises its readers, with no word about tables,   *)
(* transactions or hashes: one global log that only grows at its end, in   *)
(* which the entries of a request appear once, next to each other.         *)
(* AuditChain is shown to implement this.                                  *)
(***************************************************************************)
EXTENDS Naturals, Sequences

CONSTANTS
  Requests,     \* HTTP requests that may write audit records
  MaxAudits     \* most audit records one request writes

VARIABLE log    \* the entries, oldest first; an entry names its request

Entries == {log[i] : i \in DOMAIN log}

Init == log = <<>>

\* All n entries of request q become visible in one step, at the end.
AppendBatch(q, n) ==
  /\ q \notin Entries
  /\ log' = log \o [i \in 1..n |-> q]

Next == \E q \in Requests, n \in 1..MaxAudits : AppendBatch(q, n)

Spec == Init /\ [][Next]_log
=============================================================================
