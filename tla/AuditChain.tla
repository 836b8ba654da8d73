----------------------------- MODULE AuditChain -----------------------------
(***************************************************************************)
(* The hash-chained audit log of the control plane and the requests that   *)
(* write it (services/api/app/services/audit.py, core/db.py, api/auth.py). *)
(*                                                                         *)
(* Every HTTP request owns one database session (get_db).  A handler does  *)
(* its work, calls write_audit zero or more times, and the session commits *)
(* when the handler returns or rolls back when it raises.  write_audit is  *)
(* three statements: read the highest sequence, read the latest hash,      *)
(* insert the record.  Handlers run on a thread pool over a READ COMMITTED *)
(* database, so the statements of different requests interleave: a read    *)
(* sees the committed rows and the session's own rows, and an insert waits *)
(* for another session that holds an uncommitted row with the same unique  *)
(* key.                                                                    *)
(***************************************************************************)
EXTENDS Naturals, Sequences, FiniteSets

CONSTANTS
  Requests,     \* HTTP requests
  MaxAudits     \* most write_audit calls of one request (login: one per tenant)

ASSUME AuditAssumption == MaxAudits \in Nat \ {0}

(***************************************************************************)
(* The kinds of handler, by what they change and how they end:             *)
(*   mutate     changes rows of the session, then writes one record        *)
(*   memory     changes a process-wide engine (playbooks, replay lab,      *)
(*              improvement queue) at once, then writes one record         *)
(*   login      writes one record per membership of the user               *)
(*   denied     a refused login: writes one record, then raises            *)
(*   unaudited  changes rows and writes no record                          *)
(***************************************************************************)
Kinds == {"mutate", "memory", "login", "denied", "unaudited"}

\* How many write_audit calls a handler of kind k may make.
AuditCalls(k) ==
  CASE k = "unaudited" -> {0}
    [] k = "login"     -> 1..MaxAudits
    [] OTHER           -> {1}

VARIABLES
  rows,         \* committed rows of audit_logs
  pending,      \* [Requests -> rows inserted and not yet committed]
  pc,           \* [Requests -> where the handler is]
  kind,         \* [Requests -> Kinds]
  todo,         \* [Requests -> write_audit calls still to make]
  readSeq,      \* [Requests -> sequence computed by next_sequence]
  readPrev,     \* [Requests -> hash returned by latest_hash]
  effects       \* requests whose change is in force

vars == <<rows, pending, pc, kind, todo, readSeq, readPrev, effects>>

-----------------------------------------------------------------------------
(* The hash function is collision free: a hash is the list of payloads it  *)
(* was computed over.                                                      *)
Payload == [sequence : Nat \ {0}, request_id : Requests]
Hash == Seq(Payload)
GENESIS_HASH == <<>>
chained_hash(previous, payload) == Append(previous, payload)

Row == [sequence : Nat \ {0}, request_id : Requests,
        previous_hash : Hash, record_hash : Hash]

PayloadOf(r) == [sequence |-> r.sequence, request_id |-> r.request_id]

MkRow(q, n, previous) ==
  LET payload == [sequence |-> n, request_id |-> q]
  IN  [sequence |-> n, request_id |-> q, previous_hash |-> previous,
       record_hash |-> chained_hash(previous, payload)]

\* SELECT ... ORDER BY sequence DESC LIMIT 1
LastRow(S) == CHOOSE r \in S : \A s \in S : s.sequence <= r.sequence

next_sequence(S) == IF S = {} THEN 1 ELSE LastRow(S).sequence + 1

latest_hash(S) == IF S = {} THEN GENESIS_HASH ELSE LastRow(S).record_hash

\* The rows a statement of request q sees.
Visible(q) == rows \cup pending[q]

\* Mutant: sequence is not declared unique.
Clash_SequenceNotUnique(r, s) == r.record_hash = s.record_hash

\* The unique constraints on sequence and record_hash.
Clash(r, s) == r.sequence = s.sequence \/ r.record_hash = s.record_hash

\* The walk over the rows in ascending order of sequence: each row is compared
\* with the one before it (the unique constraint makes the order strict).
verify_audit_chain ==
  \A r \in rows :
    LET previous == latest_hash({s \in rows \ {r} : s.sequence <= r.sequence})
    IN  /\ r.previous_hash = previous
        /\ r.record_hash = chained_hash(previous, PayloadOf(r))

-----------------------------------------------------------------------------
Init ==
  /\ rows = {}
  /\ pending = [q \in Requests |-> {}]
  /\ pc = [q \in Requests |-> "idle"]
  /\ kind = [q \in Requests |-> "mutate"]
  /\ todo = [q \in Requests |-> 0]
  /\ readSeq = [q \in Requests |-> 1]
  /\ readPrev = [q \in Requests |-> GENESIS_HASH]
  /\ effects = {}

\* Where a handler of kind k goes once it has n write_audit calls left.
AfterAudit(k, n) ==
  IF n > 0 THEN "sequence" ELSE IF k = "denied" THEN "raise" ELSE "commit"

\* The handler runs up to its first write_audit.  Changes of rows stay in the
\* session; changes of an in-process engine are in force immediately.
Handle(q) ==
  /\ pc[q] = "idle"
  /\ \E k \in Kinds : \E n \in AuditCalls(k) :
       /\ kind' = [kind EXCEPT ![q] = k]
       /\ todo' = [todo EXCEPT ![q] = n]
       /\ pc' = [pc EXCEPT ![q] = AfterAudit(k, n)]
       /\ effects' = IF k = "memory" THEN effects \cup {q} ELSE effects
  /\ UNCHANGED <<rows, pending, readSeq, readPrev>>

\* write_audit, first statement.
ReadSequence(q) ==
  /\ pc[q] = "sequence"
  /\ readSeq' = [readSeq EXCEPT ![q] = next_sequence(Visible(q))]
  /\ pc' = [pc EXCEPT ![q] = "hash"]
  /\ UNCHANGED <<rows, pending, kind, todo, readPrev, effects>>

\* Mutant: the latest hash is read through another session.
ReadHash_OtherSession(q) ==
  /\ pc[q] = "hash"
  /\ readPrev' = [readPrev EXCEPT ![q] = latest_hash(rows)]
  /\ pc' = [pc EXCEPT ![q] = "flush"]
  /\ UNCHANGED <<rows, pending, kind, todo, readSeq, effects>>

\* write_audit, second statement.
ReadHash(q) ==
  /\ pc[q] = "hash"
  /\ readPrev' = [readPrev EXCEPT ![q] = latest_hash(Visible(q))]
  /\ pc' = [pc EXCEPT ![q] = "flush"]
  /\ UNCHANGED <<rows, pending, kind, todo, readSeq, effects>>

NewRow(q) == MkRow(q, readSeq[q], readPrev[q])

\* A committed row has one of the new row's unique keys.
IntegrityError(q) == \E s \in Visible(q) : Clash(NewRow(q), s)

\* Another open session holds one of the keys: the insert waits for it.
Blocked(q) ==
  \E p \in Requests \ {q} : \E s \in pending[p] : Clash(NewRow(q), s)

\* Mutant: write_audit commits its record itself.
Flush_Autocommit(q) ==
  /\ pc[q] = "flush"
  /\ ~Blocked(q)
  /\ ~IntegrityError(q)
  /\ rows' = rows \cup {NewRow(q)}
  /\ todo' = [todo EXCEPT ![q] = @ - 1]
  /\ pc' = [pc EXCEPT ![q] = AfterAudit(kind[q], todo[q] - 1)]
  /\ UNCHANGED <<pending, kind, readSeq, readPrev, effects>>

\* write_audit, third statement: db.add and db.flush.
Flush(q) ==
  /\ pc[q] = "flush"
  /\ ~Blocked(q)
  /\ ~IntegrityError(q)
  /\ pending' = [pending EXCEPT ![q] = @ \cup {NewRow(q)}]
  /\ todo' = [todo EXCEPT ![q] = @ - 1]
  /\ pc' = [pc EXCEPT ![q] = AfterAudit(kind[q], todo[q] - 1)]
  /\ UNCHANGED <<rows, kind, readSeq, readPrev, effects>>

\* Mutant: the session is neither rolled back nor closed.
Rollback_Leaked(q) ==
  /\ pc' = [pc EXCEPT ![q] = "failed"]
  /\ UNCHANGED <<rows, pending, kind, todo, readSeq, readPrev, effects>>

\* The exception handler of get_db, and the close of the session.
Rollback(q) ==
  /\ pending' = [pending EXCEPT ![q] = {}]
  /\ pc' = [pc EXCEPT ![q] = "failed"]
  /\ UNCHANGED <<rows, kind, todo, readSeq, readPrev, effects>>

\* Mutant: the failure of write_audit is swallowed and the request goes on.
FlushFails_Swallowed(q) ==
  /\ pc[q] = "flush"
  /\ IntegrityError(q)
  /\ pc' = [pc EXCEPT ![q] = "commit"]
  /\ UNCHANGED <<rows, pending, kind, todo, readSeq, readPrev, effects>>

\* The flush raises; the handler does not catch it.
FlushFails(q) ==
  /\ pc[q] = "flush"
  /\ IntegrityError(q)
  /\ Rollback(q)

\* The handler of a refused login re-raises after its audit record.
RaiseDenied(q) ==
  /\ pc[q] = "raise"
  /\ Rollback(q)

\* Mutant: the log keeps only the newest batch.
Commit_Trims(q) ==
  /\ pc[q] = "commit"
  /\ rows' = IF pending[q] = {} THEN rows ELSE pending[q]
  /\ pending' = [pending EXCEPT ![q] = {}]
  /\ effects' = IF kind[q] \in {"mutate", "unaudited"} THEN effects \cup {q} ELSE effects
  /\ pc' = [pc EXCEPT ![q] = "done"]
  /\ UNCHANGED <<kind, todo, readSeq, readPrev>>

\* The handler returned: session.commit().
Commit(q) ==
  /\ pc[q] = "commit"
  /\ rows' = rows \cup pending[q]
  /\ pending' = [pending EXCEPT ![q] = {}]
  /\ effects' = IF kind[q] \in {"mutate", "unaudited"} THEN effects \cup {q} ELSE effects
  /\ pc' = [pc EXCEPT ![q] = "done"]
  /\ UNCHANGED <<kind, todo, readSeq, readPrev>>

\* The steps a request takes by itself once it has arrived.
Step(q) ==
  \/ ReadSequence(q)
  \/ ReadHash(q)
  \/ Flush(q)
  \/ FlushFails(q)
  \/ RaiseDenied(q)
  \/ Commit(q)

Next == \E q \in Requests : Handle(q) \/ Step(q)

Spec == Init /\ [][Next]_vars

\* Clients need not send anything; a request that arrived keeps running, since
\* its thread is scheduled and the database wakes a waiting insert.
FairSpec == Spec /\ \A q \in Requests : WF_vars(Step(q))

-----------------------------------------------------------------------------
Labels == {"idle", "sequence", "hash", "flush", "raise", "commit", "done", "failed"}

(* Types: rows and pending rows are audit records numbered from 1, and a    *)
(* request inside write_audit has a record to write.                        *)
TypeOK ==
  /\ rows \in SUBSET Row
  /\ pending \in [Requests -> SUBSET Row]
  /\ pc \in [Requests -> Labels]
  /\ kind \in [Requests -> Kinds]
  /\ todo \in [Requests -> 0..MaxAudits]
  /\ \A q \in Requests : pc[q] \in {"sequence", "hash", "flush"} => todo[q] > 0
  /\ readSeq \in [Requests -> Nat \ {0}]
  /\ readPrev \in [Requests -> Hash]
  /\ effects \in SUBSET Requests

(* The rows S form one chain from the genesis hash: sequences 1..n without  *)
(* repetition, each row linked to the one before it.                        *)
IsChain(S) ==
  /\ S # {} => \E t \in S : \A s \in S : s.sequence <= t.sequence
  /\ \A r \in S : \A n \in 1..r.sequence : \E s \in S : s.sequence = n
  /\ \A r, s \in S : r.sequence = s.sequence => r = s
  /\ \A r \in S : r.record_hash = chained_hash(r.previous_hash, PayloadOf(r))
  /\ \A r \in S : r.sequence = 1 => r.previous_hash = GENESIS_HASH
  /\ \A r, s \in S : r.sequence = s.sequence + 1 => r.previous_hash = s.record_hash

\* Only one session at a time holds uncommitted audit rows, and they follow the
\* committed ones.
OneWriter ==
  /\ \A p, q \in Requests : pending[p] # {} /\ pending[q] # {} => p = q
  /\ \A q \in Requests : \A r \in pending[q], s \in rows : s.sequence < r.sequence

\* A sequence that was read may be out of date but is never ahead of the table;
\* while it is not out of date, neither is the hash read after it.
ReadsFresh ==
  \A q \in Requests :
    /\ pc[q] \in {"hash", "flush"} => readSeq[q] <= next_sequence(Visible(q))
    /\ pc[q] = "flush" /\ readSeq[q] = next_sequence(Visible(q))
         => readPrev[q] = latest_hash(Visible(q))

(* The inductive invariant: what every interleaving of write_audit calls    *)
(* keeps true, and the reason the chain never forks although sequence and   *)
(* hash are read in two statements: the unique constraint rejects the row   *)
(* exactly when one of the two reads is out of date.                        *)
ChainInv ==
  /\ IsChain(rows)
  /\ \A q \in Requests : IsChain(Visible(q))
  /\ OneWriter
  /\ ReadsFresh

(* The committed log always passes verify_audit_chain: no interleaving of   *)
(* requests forks the chain or leaves a gap in it.                          *)
ChainVerifies == verify_audit_chain

(* Rows of audit_logs are never changed or removed, and new ones come after *)
(* all the old ones ("Append-only", models/audit.py).                       *)
AppendOnly ==
  [][/\ rows \subseteq rows'
     /\ \A r \in rows' \ rows, s \in rows : s.sequence < r.sequence]_vars

(* The change of a mutate handler and its audit record stand or fall        *)
(* together: in force exactly when the record is in the log.                *)
ChangeIffRecord ==
  \A q \in Requests :
    kind[q] = "mutate" => (q \in effects <=> \E r \in rows : r.request_id = q)

(* No request waits for ever on the unique keys another one holds: every    *)
(* request that arrived commits or fails.                                   *)
RequestsFinish ==
  \A q \in Requests : pc[q] # "idle" ~> pc[q] \in {"done", "failed"}

\* The rows, read in the order of their sequence.
LogView == [n \in 1..Cardinality(rows) |->
             (CHOOSE r \in rows : r.sequence = n).request_id]

Abstract == INSTANCE AuditLog WITH log <- LogView

(* The audit table implements AuditLog: an append-only log in which each    *)
(* request's records appear at once and stand together.                     *)
ImplementsAuditLog == Abstract!Spec
=============================================================================
