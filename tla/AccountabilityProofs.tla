------------------------ MODULE AccountabilityProofs ------------------------
(***************************************************************************)
(* Who may act, and what is recorded of it.                                *)
(*                                                                         *)
(* Part 1, AuditChain, for any set of requests and any number of audit     *)
(* records per request: the inductive invariant is TypeOK /\ ChainInv.     *)
(* Part 2, ResponseGate, for any number of requests, processes, operators, *)
(* API keys and request bodies: the inductive invariant is GateInv.        *)
(***************************************************************************)
EXTENDS AuditChain, ResponseGate, FiniteSetTheorems, SequenceTheorems, TLAPS

(* Part 1: the audit chain.                                                *)

\* A chain that has rows has a last one, which LastRow returns
\* (audit.py: ORDER BY sequence DESC LIMIT 1).
LEMMA LastRowOfChain ==
  ASSUME NEW S, IsChain(S), S # {}
  PROVE  /\ LastRow(S) \in S
         /\ \A s \in S : s.sequence <= LastRow(S).sequence
  BY DEF IsChain, LastRow

\* _next_sequence returns the first number that no row of the chain has.
LEMMA NextSequenceOfChain ==
  ASSUME NEW S \in SUBSET Row, IsChain(S)
  PROVE  /\ next_sequence(S) \in Nat \ {0}
         /\ \A s \in S : s.sequence < next_sequence(S)
         /\ \A n \in 1..(next_sequence(S) - 1) : \E s \in S : s.sequence = n
<1>1. CASE S = {}
  BY <1>1 DEF next_sequence
<1>2. CASE S # {}
  <2>1. /\ LastRow(S) \in S
        /\ \A s \in S : s.sequence <= LastRow(S).sequence
    BY <1>2, LastRowOfChain
  <2>2. next_sequence(S) = LastRow(S).sequence + 1
    BY <1>2 DEF next_sequence
  <2>3. \A s \in S : s.sequence \in Nat \ {0}
    BY DEF Row
  <2>4. \A n \in 1..LastRow(S).sequence : \E s \in S : s.sequence = n
    BY <2>1 DEF IsChain
  <2>5. QED
    BY <2>1, <2>2, <2>3, <2>4
<1>3. QED
  BY <1>1, <1>2

\* _latest_hash returns a hash, and that of the row numbered one less than
\* _next_sequence when there is one.
LEMMA LatestHashOfChain ==
  ASSUME NEW S \in SUBSET Row, IsChain(S)
  PROVE  /\ latest_hash(S) \in Hash
         /\ next_sequence(S) = 1 => latest_hash(S) = GENESIS_HASH
         /\ \A s \in S : next_sequence(S) = s.sequence + 1 => latest_hash(S) = s.record_hash
<1>1. CASE S = {}
  BY <1>1 DEF next_sequence, latest_hash, GENESIS_HASH, Hash
<1>2. CASE S # {}
  <2>1. /\ LastRow(S) \in S
        /\ \A s \in S : s.sequence <= LastRow(S).sequence
    BY <1>2, LastRowOfChain
  <2>2. /\ next_sequence(S) = LastRow(S).sequence + 1
        /\ latest_hash(S) = LastRow(S).record_hash
    BY <1>2 DEF next_sequence, latest_hash
  <2>3. \A s \in S : s.sequence \in Nat \ {0} /\ s.record_hash \in Hash
    BY DEF Row
  <2>4. ASSUME NEW s \in S, next_sequence(S) = s.sequence + 1
        PROVE  latest_hash(S) = s.record_hash
    <3>1. s.sequence = LastRow(S).sequence
      BY <2>1, <2>2, <2>3, <2>4
    <3>2. s = LastRow(S)
      BY <2>1, <3>1 DEF IsChain
    <3>3. QED
      BY <2>2, <3>2
  <2>5. next_sequence(S) # 1
    BY <2>1, <2>2, <2>3
  <2>6. QED
    BY <2>1, <2>2, <2>3, <2>4, <2>5
<1>3. QED
  BY <1>1, <1>2

\* The record write_audit builds is a row of the table.
LEMMA MkRowType ==
  ASSUME NEW q \in Requests, NEW n \in Nat \ {0}, NEW h \in Hash
  PROVE  /\ MkRow(q, n, h) \in Row
         /\ MkRow(q, n, h).sequence = n
         /\ MkRow(q, n, h).previous_hash = h
         /\ MkRow(q, n, h).record_hash = chained_hash(h, PayloadOf(MkRow(q, n, h)))
<1> DEFINE payload == [sequence |-> n, request_id |-> q]
<1>1. payload \in Payload
  BY DEF Payload
<1>2. chained_hash(h, payload) \in Hash
  BY <1>1 DEF chained_hash, Hash
<1>3. QED
  BY <1>2 DEF MkRow, Row, PayloadOf

\* Inserting a record built from up-to-date reads extends the chain.
LEMMA ExtendChain ==
  ASSUME NEW S \in SUBSET Row, IsChain(S), NEW q \in Requests
  PROVE  IsChain(S \cup {MkRow(q, next_sequence(S), latest_hash(S))})
<1> DEFINE n == next_sequence(S)
           r == MkRow(q, n, latest_hash(S))
           T == S \cup {r}
<1>1. /\ n \in Nat \ {0}
      /\ \A s \in S : s.sequence < n
      /\ \A m \in 1..(n - 1) : \E s \in S : s.sequence = m
  BY NextSequenceOfChain
<1>2. /\ latest_hash(S) \in Hash
      /\ n = 1 => latest_hash(S) = GENESIS_HASH
      /\ \A s \in S : n = s.sequence + 1 => latest_hash(S) = s.record_hash
  BY LatestHashOfChain
<1>3. /\ r.sequence = n
      /\ r.previous_hash = latest_hash(S)
      /\ r.record_hash = chained_hash(r.previous_hash, PayloadOf(r))
  BY <1>1, <1>2, MkRowType
<1>4. \A s \in S : s.sequence \in Nat \ {0}
  BY DEF Row
<1> HIDE DEF n, r
<1>5. \E t \in T : \A s \in T : s.sequence <= t.sequence
  <2>1. \A s \in T : s.sequence <= r.sequence
    BY <1>1, <1>3, <1>4
  <2>2. QED
    BY <2>1
<1>6. ASSUME NEW t \in T, NEW m \in 1..t.sequence
      PROVE  \E s \in T : s.sequence = m
  <2>1. CASE t \in S
    BY <2>1, <1>6 DEF IsChain
  <2>2. CASE t = r /\ m = n
    BY <2>2, <1>3
  <2>3. CASE t = r /\ m # n
    <3>1. m \in 1..(n - 1)
      BY <2>3, <1>1, <1>3
    <3>2. QED
      BY <3>1, <1>1
  <2>4. QED
    BY <2>1, <2>2, <2>3
<1>7. \A t, s \in T : t.sequence = s.sequence => t = s
  BY <1>1, <1>3, <1>4 DEF IsChain
<1>8. \A t \in T : t.record_hash = chained_hash(t.previous_hash, PayloadOf(t))
  BY <1>3 DEF IsChain
<1>9. \A t \in T : t.sequence = 1 => t.previous_hash = GENESIS_HASH
  BY <1>2, <1>3 DEF IsChain
<1>10. \A t, s \in T : t.sequence = s.sequence + 1 => t.previous_hash = s.record_hash
  BY <1>1, <1>2, <1>3, <1>4 DEF IsChain
<1>11. IsChain(T)
  BY <1>5, <1>6, <1>7, <1>8, <1>9, <1>10 DEF IsChain
<1>12. QED
  BY <1>11 DEF n, r
-----------------------------------------------------------------------------
\* The initial table is empty and every session is closed (core/db.py).
LEMMA InitInv == Init => TypeOK /\ ChainInv
<1> SUFFICES ASSUME Init PROVE TypeOK /\ ChainInv
  OBVIOUS
<1>1. GENESIS_HASH \in Hash
  BY DEF GENESIS_HASH, Hash
<1>2. TypeOK
  BY <1>1, AuditAssumption DEF Init, TypeOK, Labels, Kinds
<1>3. IsChain({})
  BY DEF IsChain
<1>4. ChainInv
  BY <1>3 DEF Init, ChainInv, Visible, OneWriter, ReadsFresh
<1>5. QED
  BY <1>2, <1>4

\* Reading the sequence (audit.py, _next_sequence) keeps the invariant.
LEMMA ReadSequenceInv ==
  ASSUME TypeOK, ChainInv, NEW q \in Requests, ReadSequence(q)
  PROVE  TypeOK' /\ ChainInv'
<1> USE DEF ReadSequence
<1>1. Visible(q) \in SUBSET Row /\ IsChain(Visible(q))
  BY DEF TypeOK, ChainInv, Visible
<1>2. next_sequence(Visible(q)) \in Nat \ {0}
  BY <1>1, NextSequenceOfChain
<1>3. TypeOK'
  BY <1>2 DEF TypeOK, Labels
<1>4. \A p \in Requests : Visible(p)' = Visible(p)
  BY DEF Visible
<1>5. ReadsFresh'
  <2> SUFFICES ASSUME NEW p \in Requests
               PROVE  /\ pc'[p] \in {"hash", "flush"} => readSeq'[p] <= next_sequence(Visible(p))
                      /\ pc'[p] = "flush" /\ readSeq'[p] = next_sequence(Visible(p))
                           => readPrev'[p] = latest_hash(Visible(p))
    BY <1>4 DEF ReadsFresh
  <2>1. CASE p = q
    BY <2>1, <1>2 DEF TypeOK
  <2>2. CASE p # q
    BY <2>2 DEF TypeOK, ChainInv, ReadsFresh
  <2>3. QED
    BY <2>1, <2>2
<1>6. OneWriter'
  BY DEF ChainInv, OneWriter
<1>7. IsChain(rows)' /\ \A p \in Requests : IsChain(Visible(p))'
  BY <1>4 DEF ChainInv, IsChain
<1>8. QED
  BY <1>3, <1>5, <1>6, <1>7 DEF ChainInv

\* Reading the latest hash (audit.py, _latest_hash) keeps the invariant: if the
\* sequence read before is still the next one, the hash read is its predecessor's.
LEMMA ReadHashInv ==
  ASSUME TypeOK, ChainInv, NEW q \in Requests, ReadHash(q)
  PROVE  TypeOK' /\ ChainInv'
<1> USE DEF ReadHash
<1>1. Visible(q) \in SUBSET Row /\ IsChain(Visible(q))
  BY DEF TypeOK, ChainInv, Visible
<1>2. latest_hash(Visible(q)) \in Hash
  BY <1>1, LatestHashOfChain
<1>3. TypeOK'
  BY <1>2 DEF TypeOK, Labels
<1>4. \A p \in Requests : Visible(p)' = Visible(p)
  BY DEF Visible
<1>5. ReadsFresh'
  <2> SUFFICES ASSUME NEW p \in Requests
               PROVE  /\ pc'[p] \in {"hash", "flush"} => readSeq'[p] <= next_sequence(Visible(p))
                      /\ pc'[p] = "flush" /\ readSeq'[p] = next_sequence(Visible(p))
                           => readPrev'[p] = latest_hash(Visible(p))
    BY <1>4 DEF ReadsFresh
  <2>1. CASE p = q
    BY <2>1 DEF TypeOK, ChainInv, ReadsFresh
  <2>2. CASE p # q
    BY <2>2 DEF TypeOK, ChainInv, ReadsFresh
  <2>3. QED
    BY <2>1, <2>2
<1>6. OneWriter'
  BY DEF ChainInv, OneWriter
<1>7. IsChain(rows)' /\ \A p \in Requests : IsChain(Visible(p))'
  BY <1>4 DEF ChainInv, IsChain
<1>8. QED
  BY <1>3, <1>5, <1>6, <1>7 DEF ChainInv

\* An insert that neither waits nor fails was built from up-to-date reads
\* (audit.py, db.flush; models/audit.py, the unique constraint on sequence).
LEMMA FlushIsFresh ==
  ASSUME TypeOK, ChainInv, NEW q \in Requests, pc[q] = "flush", ~IntegrityError(q)
  PROVE  /\ readSeq[q] = next_sequence(Visible(q))
         /\ readPrev[q] = latest_hash(Visible(q))
         /\ NewRow(q) \in Row
         /\ NewRow(q).sequence = readSeq[q]
<1>1. Visible(q) \in SUBSET Row /\ IsChain(Visible(q))
  BY DEF TypeOK, ChainInv, Visible
<1>2. /\ readSeq[q] \in Nat \ {0}
      /\ readPrev[q] \in Hash
  BY DEF TypeOK
<1>3. NewRow(q) \in Row /\ NewRow(q).sequence = readSeq[q]
  BY <1>2, MkRowType DEF NewRow
<1>4. \A s \in Visible(q) : s.sequence # readSeq[q]
  BY <1>3 DEF IntegrityError, Clash
<1>5. readSeq[q] <= next_sequence(Visible(q))
  BY DEF ChainInv, ReadsFresh
<1>6. readSeq[q] = next_sequence(Visible(q))
  <2>1. next_sequence(Visible(q)) \in Nat
    BY <1>1, NextSequenceOfChain
  <2>2. readSeq[q] \notin 1..(next_sequence(Visible(q)) - 1)
    BY <1>1, <1>4, NextSequenceOfChain
  <2>3. QED
    BY <1>2, <1>5, <2>1, <2>2
<1>7. readPrev[q] = latest_hash(Visible(q))
  BY <1>6 DEF ChainInv, ReadsFresh
<1>8. QED
  BY <1>3, <1>6, <1>7

\* Uncommitted rows are numbered after everything committed.
LEMMA PendingFollows ==
  ASSUME TypeOK, ChainInv, NEW p \in Requests, NEW r \in pending[p]
  PROVE  next_sequence(rows) <= r.sequence
<1>1. /\ next_sequence(rows) \in Nat \ {0}
      /\ \A m \in 1..(next_sequence(rows) - 1) : \E s \in rows : s.sequence = m
  BY NextSequenceOfChain DEF TypeOK, ChainInv
<1>2. r.sequence \in Nat \ {0} /\ \A s \in rows : s.sequence < r.sequence
  BY DEF TypeOK, ChainInv, OneWriter, Row
<1>3. r.sequence \notin 1..(next_sequence(rows) - 1)
  BY <1>1, <1>2 DEF TypeOK, Row
<1>4. QED
  BY <1>1, <1>2, <1>3

\* When an insert goes through, no other session holds uncommitted rows: the
\* lowest of them would have the very sequence being inserted.
LEMMA FlushIsAlone ==
  ASSUME TypeOK, ChainInv, NEW q \in Requests, pc[q] = "flush",
         ~IntegrityError(q), ~Blocked(q), NEW p \in Requests, p # q
  PROVE  pending[p] = {}
<1> SUFFICES ASSUME pending[p] # {} PROVE FALSE
  OBVIOUS
<1>1. pending[q] = {}
  BY DEF ChainInv, OneWriter
<1>2. Visible(q) = rows
  BY <1>1 DEF Visible
<1>3. rows \in SUBSET Row /\ IsChain(rows)
  BY DEF TypeOK, ChainInv
<1> DEFINE n == next_sequence(rows)
<1>4. readSeq[q] = n /\ NewRow(q).sequence = n
  BY <1>2, FlushIsFresh
<1>5. /\ n \in Nat \ {0}
      /\ \A s \in rows : s.sequence < n
      /\ \A m \in 1..(n - 1) : \E s \in rows : s.sequence = m
  BY <1>3, NextSequenceOfChain
<1> HIDE DEF n
<1>6. PICK r \in pending[p] : TRUE
  OBVIOUS
<1>7. r.sequence \in Nat \ {0}
  BY <1>6 DEF TypeOK, Row
<1>8. n <= r.sequence
  BY <1>6, PendingFollows DEF n
<1>9. \E s \in Visible(p) : s.sequence = n
  <2>1. r \in Visible(p)
    BY <1>6 DEF Visible
  <2>2. n \in 1..r.sequence
    BY <1>5, <1>7, <1>8
  <2>3. QED
    BY <2>1, <2>2 DEF ChainInv, IsChain
<1>10. \E s \in pending[p] : s.sequence = n
  BY <1>5, <1>9 DEF Visible
<1>11. Blocked(q)
  BY <1>4, <1>10 DEF Blocked, Clash
<1>12. QED
  BY <1>11

\* An insert (audit.py, db.add and db.flush) keeps the invariant.
LEMMA FlushInv ==
  ASSUME TypeOK, ChainInv, NEW q \in Requests, Flush(q)
  PROVE  TypeOK' /\ ChainInv'
<1> USE DEF Flush
<1>1. /\ readSeq[q] = next_sequence(Visible(q))
      /\ readPrev[q] = latest_hash(Visible(q))
      /\ NewRow(q) \in Row
      /\ NewRow(q).sequence = readSeq[q]
  BY FlushIsFresh
<1>2. \A p \in Requests \ {q} : pending[p] = {}
  BY FlushIsAlone
<1>3. Visible(q) \in SUBSET Row /\ IsChain(Visible(q))
  BY DEF TypeOK, ChainInv, Visible
<1>4. /\ Visible(q)' = Visible(q) \cup {NewRow(q)}
      /\ \A p \in Requests \ {q} : Visible(p)' = Visible(p)
  BY DEF TypeOK, Visible
<1>5. pc'[q] \in {"sequence", "raise", "commit"}
  BY DEF TypeOK, AfterAudit
<1>6. TypeOK'
  <2>1. todo[q] \in 1..MaxAudits
    BY DEF TypeOK
  <2>2. todo' \in [Requests -> 0..MaxAudits]
    BY <2>1, AuditAssumption DEF TypeOK
  <2>3. pc' \in [Requests -> Labels]
    BY <1>5 DEF TypeOK, Labels, AfterAudit
  <2>4. \A p \in Requests : pc'[p] \in {"sequence", "hash", "flush"} => todo'[p] > 0
    BY DEF TypeOK, AfterAudit
  <2>5. pending' \in [Requests -> SUBSET Row]
    BY <1>1 DEF TypeOK
  <2>6. QED
    BY <2>2, <2>3, <2>4, <2>5 DEF TypeOK
<1>7. IsChain(Visible(q)')
  BY <1>1, <1>3, <1>4, ExtendChain DEF NewRow
<1>8. \A p \in Requests : IsChain(Visible(p)')
  BY <1>4, <1>7 DEF ChainInv
<1>9. OneWriter'
  <2>1. \A p \in Requests \ {q} : pending'[p] = {}
    BY <1>2 DEF TypeOK
  <2>2. \A s \in rows : s.sequence < NewRow(q).sequence
    BY <1>1, <1>3, NextSequenceOfChain DEF Visible
  <2>3. pending'[q] = pending[q] \cup {NewRow(q)}
    BY DEF TypeOK
  <2>4. QED
    BY <2>1, <2>2, <2>3 DEF ChainInv, OneWriter
<1>10. ReadsFresh'
  <2> SUFFICES ASSUME NEW p \in Requests, pc'[p] \in {"hash", "flush"}
               PROVE  /\ readSeq'[p] <= next_sequence(Visible(p)')
                      /\ pc'[p] = "flush" /\ readSeq'[p] = next_sequence(Visible(p)')
                           => readPrev'[p] = latest_hash(Visible(p)')
    BY DEF ReadsFresh
  <2>1. p # q
    BY <1>5
  <2>2. QED
    BY <1>4, <2>1 DEF TypeOK, ChainInv, ReadsFresh
<1>11. IsChain(rows)'
  BY DEF ChainInv, IsChain
<1>12. QED
  BY <1>6, <1>8, <1>9, <1>10, <1>11 DEF ChainInv

\* A rollback (core/db.py, get_db) keeps the invariant: the committed rows are a
\* chain by themselves.
LEMMA RollbackInv ==
  ASSUME TypeOK, ChainInv, NEW q \in Requests, Rollback(q)
  PROVE  TypeOK' /\ ChainInv'
<1> USE DEF Rollback
<1>1. TypeOK'
  BY DEF TypeOK, Labels
<1>2. /\ Visible(q)' = rows
      /\ \A p \in Requests \ {q} : Visible(p)' = Visible(p)
  BY DEF TypeOK, Visible
<1>3. \A p \in Requests : IsChain(Visible(p)')
  BY <1>2 DEF ChainInv
<1>4. OneWriter'
  BY DEF TypeOK, ChainInv, OneWriter
<1>5. ReadsFresh'
  <2> SUFFICES ASSUME NEW p \in Requests, pc'[p] \in {"hash", "flush"}
               PROVE  /\ readSeq'[p] <= next_sequence(Visible(p)')
                      /\ pc'[p] = "flush" /\ readSeq'[p] = next_sequence(Visible(p)')
                           => readPrev'[p] = latest_hash(Visible(p)')
    BY DEF ReadsFresh
  <2>1. p # q
    BY DEF TypeOK
  <2>2. QED
    BY <1>2, <2>1 DEF TypeOK, ChainInv, ReadsFresh
<1>6. IsChain(rows)'
  BY DEF ChainInv, IsChain
<1>7. QED
  BY <1>1, <1>3, <1>4, <1>5, <1>6 DEF ChainInv

\* A commit (core/db.py, get_db) keeps the invariant: what others read before it
\* is now out of date, so their inserts will be rejected.
LEMMA CommitInv ==
  ASSUME TypeOK, ChainInv, NEW q \in Requests, Commit(q)
  PROVE  TypeOK' /\ ChainInv'
<1> USE DEF Commit
<1>1. TypeOK'
  BY DEF TypeOK, Labels
<1>2. /\ rows' = Visible(q)
      /\ Visible(q)' = Visible(q)
      /\ \A p \in Requests \ {q} : Visible(p)' = Visible(q) \cup pending[p]
  BY DEF TypeOK, Visible
<1>3. IsChain(rows')
  BY <1>2 DEF ChainInv
<1>4. CASE pending[q] = {}
  <2>1. rows' = rows /\ \A p \in Requests : Visible(p)' = Visible(p)
    BY <1>2, <1>4 DEF Visible
  <2>2. OneWriter'
    BY <2>1 DEF TypeOK, ChainInv, OneWriter
  <2>3. ReadsFresh'
    BY <2>1 DEF TypeOK, ChainInv, ReadsFresh
  <2>4. QED
    BY <1>1, <1>3, <2>1, <2>2, <2>3 DEF ChainInv
<1>5. CASE pending[q] # {}
  <2>1. \A p \in Requests : pending'[p] = {}
    BY <1>5 DEF TypeOK, ChainInv, OneWriter
  <2>2. \A p \in Requests : Visible(p)' = Visible(q)
    BY <1>2, <2>1 DEF Visible
  <2>3. OneWriter'
    BY <2>1 DEF OneWriter
  <2>4. next_sequence(rows) < next_sequence(Visible(q))
    <3>1. PICK r \in pending[q] : TRUE
      BY <1>5
    <3>2. next_sequence(rows) <= r.sequence
      BY <3>1, PendingFollows
    <3>3. r.sequence < next_sequence(Visible(q))
      BY <3>1, NextSequenceOfChain DEF TypeOK, ChainInv, Visible
    <3>4. /\ next_sequence(rows) \in Nat
          /\ next_sequence(Visible(q)) \in Nat
          /\ r.sequence \in Nat
      BY <3>1, NextSequenceOfChain DEF TypeOK, ChainInv, Visible, Row
    <3>5. QED
      BY <3>2, <3>3, <3>4
  <2>5. ReadsFresh'
    <3> SUFFICES ASSUME NEW p \in Requests, pc'[p] \in {"hash", "flush"}
                 PROVE  readSeq[p] < next_sequence(Visible(q))
      <4>1. /\ next_sequence(Visible(q)) \in Nat
            /\ \A p \in Requests : readSeq[p] \in Nat /\ readSeq'[p] = readSeq[p]
        BY NextSequenceOfChain DEF TypeOK, ChainInv, Visible
      <4>2. QED
        BY <2>2, <4>1 DEF ReadsFresh
    <3>1. p # q
      BY DEF TypeOK
    <3>2. Visible(p) = rows
      BY <1>5, <3>1 DEF ChainInv, OneWriter, Visible
    <3>3. readSeq[p] <= next_sequence(rows)
      BY <3>1, <3>2 DEF TypeOK, ChainInv, ReadsFresh
    <3>4. /\ readSeq[p] \in Nat
          /\ next_sequence(rows) \in Nat
          /\ next_sequence(Visible(q)) \in Nat
      BY NextSequenceOfChain DEF TypeOK, ChainInv, Visible
    <3>5. QED
      BY <2>4, <3>3, <3>4
  <2>6. \A p \in Requests : IsChain(Visible(p)')
    BY <2>2 DEF ChainInv
  <2>7. QED
    BY <1>1, <1>3, <2>3, <2>5, <2>6 DEF ChainInv
<1>6. QED
  BY <1>4, <1>5

\* The handler's work before its first write_audit keeps the invariant.
LEMMA HandleInv ==
  ASSUME TypeOK, ChainInv, NEW q \in Requests, Handle(q)
  PROVE  TypeOK' /\ ChainInv'
<1>1. PICK k \in Kinds : \E n \in AuditCalls(k) :
        /\ kind' = [kind EXCEPT ![q] = k]
        /\ todo' = [todo EXCEPT ![q] = n]
        /\ pc' = [pc EXCEPT ![q] = AfterAudit(k, n)]
        /\ effects' = IF k = "memory" THEN effects \cup {q} ELSE effects
  BY DEF Handle
<1>2. PICK n \in AuditCalls(k) :
        /\ kind' = [kind EXCEPT ![q] = k]
        /\ todo' = [todo EXCEPT ![q] = n]
        /\ pc' = [pc EXCEPT ![q] = AfterAudit(k, n)]
        /\ effects' = IF k = "memory" THEN effects \cup {q} ELSE effects
  BY <1>1
<1>3. UNCHANGED <<rows, pending, readSeq, readPrev>>
  BY DEF Handle
<1>4. n \in 0..MaxAudits
  BY AuditAssumption DEF AuditCalls, Kinds
<1>5. AfterAudit(k, n) \in {"sequence", "raise", "commit"} /\ (AfterAudit(k, n) = "sequence" => n > 0)
  BY DEF AfterAudit
<1>6. TypeOK'
  BY <1>2, <1>3, <1>4, <1>5 DEF TypeOK, Labels
<1>7. \A p \in Requests : Visible(p)' = Visible(p)
  BY <1>3 DEF Visible
<1>8. OneWriter'
  BY <1>3 DEF ChainInv, OneWriter
<1>9. ReadsFresh'
  BY <1>2, <1>3, <1>5, <1>7 DEF TypeOK, ChainInv, ReadsFresh
<1>10. IsChain(rows)' /\ \A p \in Requests : IsChain(Visible(p)')
  BY <1>3, <1>7 DEF ChainInv, IsChain
<1>11. QED
  BY <1>6, <1>8, <1>9, <1>10 DEF ChainInv

\* Every step of every request keeps the invariant.
LEMMA NextInv == TypeOK /\ ChainInv /\ [Next]_vars => TypeOK' /\ ChainInv'
<1> SUFFICES ASSUME TypeOK, ChainInv, [Next]_vars
             PROVE  TypeOK' /\ ChainInv'
  OBVIOUS
<1>1. CASE Next
  <2>1. PICK q \in Requests : Handle(q) \/ Step(q)
    BY <1>1 DEF Next
  <2>2. CASE Handle(q)
    BY <2>2, HandleInv
  <2>3. CASE ReadSequence(q)
    BY <2>3, ReadSequenceInv
  <2>4. CASE ReadHash(q)
    BY <2>4, ReadHashInv
  <2>5. CASE Flush(q)
    BY <2>5, FlushInv
  <2>6. CASE FlushFails(q) \/ RaiseDenied(q)
    BY <2>6, RollbackInv DEF FlushFails, RaiseDenied
  <2>7. CASE Commit(q)
    BY <2>7, CommitInv
  <2>8. QED
    BY <2>1, <2>2, <2>3, <2>4, <2>5, <2>6, <2>7 DEF Step
<1>2. CASE UNCHANGED vars
  <2>1. TypeOK'
    BY <1>2 DEF vars, TypeOK
  <2>2. \A p \in Requests : Visible(p)' = Visible(p)
    BY <1>2 DEF vars, Visible
  <2>3. ChainInv'
    BY <1>2, <2>2 DEF vars, ChainInv, OneWriter, ReadsFresh, IsChain
  <2>4. QED
    BY <2>1, <2>3
<1>3. QED
  BY <1>1, <1>2

-----------------------------------------------------------------------------
(* Type correctness of the audit log model, for any set of requests.        *)
THEOREM TypeCorrect == Spec => []TypeOK
<1>1. Spec => [](TypeOK /\ ChainInv)
  BY InitInv, NextInv, PTL DEF Spec
<1>2. QED
  BY <1>1, PTL

(* However the write_audit calls of any number of requests interleave, the  *)
(* rows visible to each session form one chain, one session at a time holds *)
(* uncommitted audit rows, and reads are fresh or their insert is rejected. *)
THEOREM ChainInvariant == Spec => []ChainInv
<1>1. Spec => [](TypeOK /\ ChainInv)
  BY InitInv, NextInv, PTL DEF Spec
<1>2. QED
  BY <1>1, PTL

(* verify_audit_chain succeeds in every reachable state.                    *)
THEOREM ChainAlwaysVerifies == Spec => []ChainVerifies
<1>1. TypeOK /\ ChainInv => ChainVerifies
  <2> SUFFICES ASSUME TypeOK, ChainInv, NEW r \in rows
               PROVE  /\ r.previous_hash = latest_hash({s \in rows \ {r} : s.sequence <= r.sequence})
                      /\ r.record_hash = chained_hash(r.previous_hash, PayloadOf(r))
    BY DEF ChainVerifies, verify_audit_chain
  <2> DEFINE B == {s \in rows \ {r} : s.sequence <= r.sequence}
  <2>1. IsChain(rows) /\ \A s \in rows : s.sequence \in Nat \ {0}
    BY DEF ChainInv, TypeOK, Row
  <2>2. \A s \in B : s.sequence < r.sequence
    BY <2>1 DEF IsChain
  <2>3. CASE r.sequence = 1
    <3>1. B = {}
      BY <2>1, <2>2, <2>3
    <3>2. QED
      BY <2>1, <2>3, <3>1 DEF IsChain, latest_hash
  <2>4. CASE r.sequence # 1
    <3>1. r.sequence - 1 \in 1..r.sequence
      BY <2>1, <2>4
    <3>2. PICK s \in rows : s.sequence = r.sequence - 1
      BY <2>1, <3>1 DEF IsChain
    <3>3. s \in B /\ \A t \in B : t.sequence <= s.sequence
      BY <2>1, <2>2, <3>2
    <3>4. LastRow(B) \in B /\ \A t \in B : t.sequence <= LastRow(B).sequence
      BY <3>3 DEF LastRow
    <3>5. LastRow(B).sequence = s.sequence
      BY <2>1, <3>3, <3>4
    <3>6. LastRow(B) = s
      BY <2>1, <3>2, <3>4, <3>5 DEF IsChain
    <3>7. r.previous_hash = s.record_hash
      BY <2>1, <3>2 DEF IsChain
    <3>8. QED
      BY <2>1, <3>3, <3>6, <3>7 DEF IsChain, latest_hash
  <2>5. QED
    BY <2>3, <2>4
<1>2. QED
  BY <1>1, TypeCorrect, ChainInvariant, PTL

(* Committed audit rows are never changed or removed, and a commit only     *)
(* adds rows numbered after all of them.                                    *)
THEOREM LogIsAppendOnly == Spec => AppendOnly
<1> DEFINE A == /\ rows \subseteq rows'
                /\ \A r \in rows' \ rows, s \in rows : s.sequence < r.sequence
<1>1. TypeOK /\ ChainInv /\ [Next]_vars => [A]_vars
  <2> SUFFICES ASSUME TypeOK, ChainInv, NEW q \in Requests, Handle(q) \/ Step(q)
               PROVE  A
    BY DEF Next
  <2>1. CASE Commit(q)
    BY <2>1 DEF Commit, ChainInv, OneWriter
  <2>2. CASE ~Commit(q)
    BY <2>2 DEF Handle, Step, ReadSequence, ReadHash, Flush, FlushFails, RaiseDenied, Rollback
  <2>3. QED
    BY <2>1, <2>2
<1>2. QED
  BY <1>1, TypeCorrect, ChainInvariant, PTL DEF Spec, AppendOnly

-----------------------------------------------------------------------------
(* Whose records they are                                                   *)

\* A session's uncommitted rows are its own, committed rows belong to requests
\* that are done, and a mutate request writes its one record before it commits.
RecordsInv ==
  /\ \A r \in rows : pc[r.request_id] = "done"
  /\ \A q \in Requests :
       /\ \A r \in pending[q] : r.request_id = q
       /\ pc[q] \in {"idle", "done", "failed"} => pending[q] = {}
       /\ IsFiniteSet(pending[q]) /\ Cardinality(pending[q]) + todo[q] <= MaxAudits
       /\ pc[q] = "idle" => q \notin effects
       /\ kind[q] = "mutate" =>
            /\ q \in effects <=> pc[q] = "done"
            /\ pc[q] \in {"sequence", "hash", "flush"} => todo[q] = 1
            /\ pc[q] = "commit" => pending[q] # {}
            /\ pc[q] = "done" => \E r \in rows : r.request_id = q

\* What RecordsInv says of one request, of its columns alone.
RecordsOf(q, p, pnd, k, td, eff, rs) ==
  /\ \A r \in pnd : r.request_id = q
  /\ p \in {"idle", "done", "failed"} => pnd = {}
  /\ IsFiniteSet(pnd) /\ Cardinality(pnd) + td <= MaxAudits
  /\ p = "idle" => q \notin eff
  /\ k = "mutate" =>
       /\ q \in eff <=> p = "done"
       /\ p \in {"sequence", "hash", "flush"} => td = 1
       /\ p = "commit" => pnd # {}
       /\ p = "done" => \E r \in rs : r.request_id = q

LEMMA RecordsSplit ==
  /\ RecordsInv <=> /\ \A r \in rows : pc[r.request_id] = "done"
                    /\ \A q \in Requests : RecordsOf(q, pc[q], pending[q], kind[q], todo[q], effects, rows)
  /\ RecordsInv' <=> /\ \A r \in rows' : pc'[r.request_id] = "done"
                     /\ \A q \in Requests : RecordsOf(q, pc'[q], pending'[q], kind'[q], todo'[q], effects', rows')
BY DEF RecordsInv, RecordsOf

\* The other requests keep what they have when effects and rows grow by q's.
LEMMA OthersKeep ==
  ASSUME NEW q \in Requests, NEW p \in Requests, p # q,
         RecordsOf(p, pc[p], pending[p], kind[p], todo[p], effects, rows),
         pc'[p] = pc[p], pending'[p] = pending[p], kind'[p] = kind[p], todo'[p] = todo[p],
         effects' \in {effects, effects \cup {q}}, rows \subseteq rows'
  PROVE  RecordsOf(p, pc'[p], pending'[p], kind'[p], todo'[p], effects', rows')
BY DEF RecordsOf

LEMMA RecordsStep ==
  ASSUME TypeOK, RecordsInv, [Next]_vars
  PROVE  RecordsInv'
<1> USE RecordsSplit
<1>1. CASE UNCHANGED vars
  BY <1>1 DEF vars
<1>2. ASSUME NEW q \in Requests, Handle(q) \/ Step(q)
      PROVE  /\ \A p \in Requests : p # q => /\ pc'[p] = pc[p] /\ pending'[p] = pending[p]
                                             /\ kind'[p] = kind[p] /\ todo'[p] = todo[p]
             /\ effects' \in {effects, effects \cup {q}} /\ rows \subseteq rows'
  <2>1. CASE Handle(q)
    BY <2>1 DEF Handle, TypeOK
  <2>2. CASE ReadSequence(q) \/ ReadHash(q)
    BY <2>2 DEF ReadSequence, ReadHash, TypeOK
  <2>3. CASE Flush(q)
    BY <2>3 DEF Flush, TypeOK
  <2>4. CASE FlushFails(q) \/ RaiseDenied(q)
    BY <2>4 DEF FlushFails, RaiseDenied, Rollback, TypeOK
  <2>5. CASE Commit(q)
    BY <2>5 DEF Commit, TypeOK
  <2>6. QED
    BY <1>2, <2>1, <2>2, <2>3, <2>4, <2>5 DEF Step
<1>3. ASSUME NEW q \in Requests, Handle(q) \/ Step(q),
             RecordsOf(q, pc'[q], pending'[q], kind'[q], todo'[q], effects', rows'),
             \A r \in rows' : pc'[r.request_id] = "done"
      PROVE  RecordsInv'
  <2>1. ASSUME NEW p \in Requests, p # q
        PROVE  RecordsOf(p, pc'[p], pending'[p], kind'[p], todo'[p], effects', rows')
    BY <1>2, <1>3, <2>1, OthersKeep
  <2>2. QED
    BY <1>3, <2>1
<1>4. ASSUME NEW q \in Requests
      PROVE  /\ RecordsOf(q, pc[q], pending[q], kind[q], todo[q], effects, rows)
             /\ todo[q] \in 0..MaxAudits /\ \A r \in rows : r.request_id = q => pc[q] = "done"
  BY DEF TypeOK
<1>5. ASSUME NEW q \in Requests, Handle(q) PROVE RecordsInv'
  <2>0. PICK k \in Kinds : \E n \in AuditCalls(k) :
          /\ kind' = [kind EXCEPT ![q] = k] /\ todo' = [todo EXCEPT ![q] = n] /\ pc' = [pc EXCEPT ![q] = AfterAudit(k, n)]
          /\ effects' = IF k = "memory" THEN effects \cup {q} ELSE effects
    BY <1>5 DEF Handle
  <2>1. PICK n \in AuditCalls(k) :
          /\ kind'[q] = k /\ todo'[q] = n /\ pc'[q] = AfterAudit(k, n)
          /\ effects' = IF k = "memory" THEN effects \cup {q} ELSE effects
    BY <2>0 DEF TypeOK
  <2>2. pc[q] = "idle" /\ pending[q] = {} /\ q \notin effects /\ rows' = rows /\ pending'[q] = {}
    BY <1>4, <1>5 DEF Handle, RecordsOf
  <2>3. n \in 0..MaxAudits /\ (k = "mutate" => n = 1) /\ (n = 1 => n > 0)
    BY AuditAssumption DEF AuditCalls
  <2>4. AfterAudit(k, n) \in {"sequence", "raise", "commit"} /\ (k = "mutate" => AfterAudit(k, n) = "sequence")
    BY <2>3 DEF AfterAudit
  <2>5. IsFiniteSet({}) /\ Cardinality({}) = 0 /\ 0 + n <= MaxAudits
    BY <2>3, FS_EmptySet, AuditAssumption
  <2>6. RecordsOf(q, pc'[q], pending'[q], kind'[q], todo'[q], effects', rows')
    BY <2>1, <2>2, <2>3, <2>4, <2>5 DEF RecordsOf
  <2>7. \A r \in rows' : pc'[r.request_id] = "done"
    <3>1. \A r \in rows : r.request_id \in Requests /\ r.request_id # q
      BY <1>4, <2>2 DEF TypeOK, Row
    <3>2. QED
      BY <1>2, <1>5, <2>2, <3>1
  <2>8. QED
    BY <1>3, <1>5, <2>6, <2>7
<1>6. ASSUME NEW q \in Requests, ReadSequence(q) \/ ReadHash(q) PROVE RecordsInv'
  <2>1. /\ pc[q] \in {"sequence", "hash"} /\ pc'[q] \in {"hash", "flush"} /\ pending'[q] = pending[q]
        /\ kind'[q] = kind[q] /\ todo'[q] = todo[q] /\ effects' = effects /\ rows' = rows
    BY <1>6 DEF ReadSequence, ReadHash, TypeOK
  <2>2. RecordsOf(q, pc'[q], pending'[q], kind'[q], todo'[q], effects', rows')
    BY <1>4, <2>1 DEF RecordsOf
  <2>3. \A r \in rows : r.request_id \in Requests /\ r.request_id # q
    BY <1>4, <2>1 DEF TypeOK, Row
  <2>4. \A r \in rows' : pc'[r.request_id] = "done"
    BY <1>2, <1>6, <2>1, <2>3 DEF Step
  <2>5. QED
    BY <1>3, <1>6, <2>2, <2>4 DEF Step
<1>7. ASSUME NEW q \in Requests, Flush(q) PROVE RecordsInv'
  <2> PICK new, n : new = NewRow(q) /\ n = todo[q]
    OBVIOUS
  <2>1. /\ pc[q] = "flush" /\ pc'[q] = AfterAudit(kind[q], n - 1) /\ pending'[q] = pending[q] \cup {new}
        /\ kind'[q] = kind[q] /\ todo'[q] = n - 1 /\ effects' = effects /\ rows' = rows
    BY <1>7 DEF Flush, TypeOK
  <2>2. new.request_id = q
    BY DEF NewRow, MkRow
  <2>3. /\ IsFiniteSet(pending[q]) /\ Cardinality(pending[q]) + n <= MaxAudits /\ n \in Nat /\ n > 0
        /\ \A r \in pending[q] : r.request_id = q
    BY <1>4, <2>1 DEF RecordsOf, TypeOK
  <2>4. IsFiniteSet(pending[q] \cup {new}) /\ Cardinality(pending[q] \cup {new}) + (n - 1) <= MaxAudits
    <3>1. Cardinality(pending[q]) \in Nat
      BY <2>3, FS_CardinalityType
    <3>2. /\ IsFiniteSet(pending[q] \cup {new})
          /\ Cardinality(pending[q] \cup {new}) = IF new \in pending[q] THEN Cardinality(pending[q]) ELSE Cardinality(pending[q]) + 1
      BY <2>3, FS_AddElement
    <3>3. QED
      BY <2>3, <3>1, <3>2, AuditAssumption
  <2>5. /\ AfterAudit(kind[q], n - 1) \in {"sequence", "raise", "commit"}
        /\ kind[q] = "mutate" => AfterAudit(kind[q], n - 1) = "commit" /\ q \notin effects
    BY <1>4, <2>1 DEF AfterAudit, RecordsOf
  <2>6. RecordsOf(q, pc'[q], pending'[q], kind'[q], todo'[q], effects', rows')
    BY <2>1, <2>2, <2>3, <2>4, <2>5 DEF RecordsOf
  <2>7. \A r \in rows : r.request_id \in Requests /\ r.request_id # q
    BY <1>4, <2>1 DEF TypeOK, Row
  <2>8. \A r \in rows' : pc'[r.request_id] = "done"
    BY <1>2, <1>7, <2>1, <2>7 DEF Step
  <2>9. QED
    BY <1>3, <1>7, <2>6, <2>8 DEF Step
<1>8. ASSUME NEW q \in Requests, FlushFails(q) \/ RaiseDenied(q) PROVE RecordsInv'
  <2>1. /\ pc[q] \in {"flush", "raise"} /\ pc'[q] = "failed" /\ pending'[q] = {}
        /\ kind'[q] = kind[q] /\ todo'[q] = todo[q] /\ effects' = effects /\ rows' = rows
    BY <1>8 DEF FlushFails, RaiseDenied, Rollback, TypeOK
  <2>2. IsFiniteSet({}) /\ Cardinality({}) = 0 /\ 0 + todo[q] <= MaxAudits
    BY <1>4, FS_EmptySet, AuditAssumption
  <2>3. RecordsOf(q, pc'[q], pending'[q], kind'[q], todo'[q], effects', rows')
    BY <1>4, <2>1, <2>2 DEF RecordsOf
  <2>4. \A r \in rows : r.request_id \in Requests /\ r.request_id # q
    BY <1>4, <2>1 DEF TypeOK, Row
  <2>5. \A r \in rows' : pc'[r.request_id] = "done"
    BY <1>2, <1>8, <2>1, <2>4 DEF Step
  <2>6. QED
    BY <1>3, <1>8, <2>3, <2>5 DEF Step
<1>9. ASSUME NEW q \in Requests, Commit(q) PROVE RecordsInv'
  <2>1. /\ pc[q] = "commit" /\ pc'[q] = "done" /\ pending'[q] = {} /\ kind'[q] = kind[q] /\ todo'[q] = todo[q]
        /\ effects' = (IF kind[q] \in {"mutate", "unaudited"} THEN effects \cup {q} ELSE effects) /\ rows' = rows \cup pending[q]
    BY <1>9 DEF Commit, TypeOK
  <2>2. IsFiniteSet({}) /\ Cardinality({}) = 0 /\ 0 + todo[q] <= MaxAudits
    BY <1>4, FS_EmptySet, AuditAssumption
  <2>3. (\A r \in pending[q] : r.request_id = q) /\ (kind[q] = "mutate" => pending[q] # {})
    BY <1>4, <2>1 DEF RecordsOf
  <2>4. RecordsOf(q, pc'[q], pending'[q], kind'[q], todo'[q], effects', rows')
    BY <2>1, <2>2, <2>3 DEF RecordsOf
  <2>5. \A r \in rows : r.request_id \in Requests /\ r.request_id # q
    BY <1>4, <2>1 DEF TypeOK, Row
  <2>6. \A r \in rows' : pc'[r.request_id] = "done"
    BY <1>2, <1>9, <2>1, <2>3, <2>5 DEF Step
  <2>7. QED
    BY <1>3, <1>9, <2>4, <2>6 DEF Step
<1>10. QED
  BY <1>1, <1>5, <1>6, <1>7, <1>8, <1>9 DEF Next, Step

LEMMA RecordsInit == Init => RecordsInv
<1>1. IsFiniteSet({}) /\ Cardinality({}) = 0 /\ 0 + 0 <= MaxAudits
  BY FS_EmptySet, AuditAssumption
<1>2. QED
  BY <1>1 DEF Init, RecordsInv

LEMMA AuditInvariant == Spec => [](TypeOK /\ ChainInv /\ RecordsInv)
<1>1. Init => TypeOK /\ ChainInv /\ RecordsInv
  BY InitInv, RecordsInit
<1>2. TypeOK /\ ChainInv /\ RecordsInv /\ [Next]_vars => (TypeOK /\ ChainInv /\ RecordsInv)'
  BY NextInv, RecordsStep
<1>3. QED
  BY <1>1, <1>2, PTL DEF Spec

(* The change of a mutate handler is in force exactly when its audit record *)
(* is in the log, wherever requests fail or overlap (get_db, write_audit).  *)
THEOREM ChangesRecorded == Spec => []ChangeIffRecord
<1>1. TypeOK /\ RecordsInv => ChangeIffRecord
  BY DEF TypeOK, RecordsInv, ChangeIffRecord
<1>2. QED
  BY <1>1, AuditInvariant, PTL

-----------------------------------------------------------------------------
(* The table implements AuditLog                                            *)

\* A chain has as many rows as the highest sequence says, and one for each
\* number below the next one.
LEMMA SizeOfChain ==
  ASSUME NEW S \in SUBSET Row, IsChain(S)
  PROVE  IsFiniteSet(S) /\ Cardinality(S) \in Nat /\ next_sequence(S) = Cardinality(S) + 1
<1> PICK n : n = next_sequence(S) - 1
  OBVIOUS
<1>1. /\ n \in Nat /\ next_sequence(S) = n + 1
      /\ \A s \in S : s.sequence \in 1..n
      /\ \A m \in 1..n : \E s \in S : s.sequence = m
  <2>1. /\ next_sequence(S) \in Nat \ {0}
        /\ \A s \in S : s.sequence < next_sequence(S)
        /\ \A m \in 1..(next_sequence(S) - 1) : \E s \in S : s.sequence = m
    BY NextSequenceOfChain
  <2>2. \A s \in S : s.sequence \in Nat \ {0}
    BY DEF Row
  <2>3. QED
    BY <2>1, <2>2
<1>2. PICK f : f = [s \in S |-> s.sequence]
  OBVIOUS
<1>3. f \in [S -> 1..n] /\ DOMAIN f = S /\ \A s \in S : f[s] = s.sequence
  BY <1>1, <1>2
<1>4. \A r, s \in S : f[r] = f[s] => r = s
  BY <1>3 DEF IsChain
<1>5. f \in Injection(S, 1..n)
  BY <1>3, <1>4 DEF Injection, IsInjective
<1>6. f \in Surjection(S, 1..n)
  BY <1>1, <1>3 DEF Surjection
<1>7. IsFiniteSet(1..n) /\ Cardinality(1..n) = n
  BY <1>1, FS_Interval
<1>8. IsFiniteSet(S) /\ Cardinality(S) = n
  BY <1>5, <1>6, <1>7, FS_Injection
<1>9. QED
  BY <1>1, <1>8

RowAt(S, n) == CHOOSE r \in S : r.sequence = n

LEMMA RowAtOfChain ==
  ASSUME NEW S, IsChain(S), NEW r \in S
  PROVE  RowAt(S, r.sequence) = r
BY DEF RowAt, IsChain

\* The log, as a list of requests.
LogOf(S) == [n \in 1..Cardinality(S) |-> RowAt(S, n).request_id]

LEMMA LogOfChain ==
  ASSUME NEW S \in SUBSET Row, IsChain(S)
  PROVE  /\ Cardinality(S) \in Nat
         /\ \A n \in 1..Cardinality(S) : RowAt(S, n) \in S /\ RowAt(S, n).sequence = n
         /\ LogOf(S) \in Seq(Requests) /\ Len(LogOf(S)) = Cardinality(S) /\ DOMAIN LogOf(S) = 1..Cardinality(S)
         /\ \A n \in 1..Cardinality(S) : LogOf(S)[n] = RowAt(S, n).request_id
<1>1. Cardinality(S) \in Nat /\ next_sequence(S) = Cardinality(S) + 1
  BY SizeOfChain
<1>2. PICK c : c = Cardinality(S)
  OBVIOUS
<1>3. \A n \in 1..c : \E r \in S : r.sequence = n
  <2>1. c \in Nat /\ next_sequence(S) - 1 = c
    BY <1>1, <1>2
  <2>2. QED
    BY <2>1, NextSequenceOfChain
<1>4. \A n \in 1..c : RowAt(S, n) \in S /\ RowAt(S, n).sequence = n
  BY <1>3 DEF RowAt
<1>5. PICK v : v = [n \in 1..c |-> RowAt(S, n).request_id]
  OBVIOUS
<1>6. \A n \in 1..c : RowAt(S, n).request_id \in Requests
  BY <1>4 DEF Row
<1>7. v \in [1..c -> Requests] /\ DOMAIN v = 1..c /\ c \in Nat
  BY <1>1, <1>2, <1>5, <1>6
<1>8. v \in Seq(Requests) /\ Len(v) = c
  BY <1>7
<1>9. LogOf(S) = v
  BY <1>2, <1>5 DEF LogOf
<1>10. QED
  BY <1>1, <1>2, <1>4, <1>5, <1>7, <1>8, <1>9

\* A commit with uncommitted rows appends them all, and they are the request's.
LEMMA CommitAppends ==
  ASSUME TypeOK, ChainInv, RecordsInv, TypeOK', ChainInv', NEW q \in Requests, Commit(q), pending[q] # {}
  PROVE  \E n \in 1..MaxAudits : Abstract!AppendBatch(q, n)
<1> PICK P, m, n, c : P = pending[q] /\ m = Cardinality(rows) /\ n = Cardinality(P) /\ c = Cardinality(rows')
  OBVIOUS
<1>1. rows' = rows \cup P /\ pc[q] = "commit" /\ P # {}
  BY DEF Commit
<1>2. /\ IsFiniteSet(P) /\ (\A r \in P : r.request_id = q) /\ n + todo[q] <= MaxAudits /\ todo[q] \in Nat
      /\ \A r \in rows : r.request_id # q
  BY <1>1 DEF RecordsInv, TypeOK
<1>3. n \in 1..MaxAudits
  <2>1. n \in Nat /\ n # 0
    BY <1>1, <1>2, FS_CardinalityType, FS_EmptySet
  <2>2. QED
    BY <1>2, <2>1, AuditAssumption
<1>4. m \in Nat /\ c = m + n
  <2>1. IsFiniteSet(rows) /\ m \in Nat
    BY SizeOfChain DEF TypeOK, ChainInv
  <2>2. rows \cap P = {}
    BY <1>2
  <2>3. Cardinality(rows \cup P) = m + n - Cardinality(rows \cap P)
    BY <1>2, <2>1, FS_Union
  <2>4. Cardinality(rows \cap P) = 0
    BY <2>2, FS_EmptySet
  <2>5. QED
    BY <1>1, <1>3, <2>1, <2>3, <2>4
<1>5. PICK b : b = [i \in 1..n |-> q]
  OBVIOUS
<1>6. b \in Seq(Requests) /\ Len(b) = n /\ \A i \in 1..n : b[i] = q
  <2>1. b \in [1..n -> Requests] /\ DOMAIN b = 1..n /\ n \in Nat
    BY <1>3, <1>5
  <2>2. QED
    BY <1>5, <2>1
<1>7. /\ IsChain(rows) /\ Len(LogView) = m /\ LogView \in Seq(Requests) /\ DOMAIN LogView = 1..m
      /\ \A i \in 1..m : RowAt(rows, i) \in rows /\ RowAt(rows, i).sequence = i /\ LogView[i] = RowAt(rows, i).request_id
  <2>1. LogView = LogOf(rows)
    BY DEF LogView, LogOf, RowAt
  <2>2. rows \in SUBSET Row /\ IsChain(rows)
    BY DEF TypeOK, ChainInv
  <2>3. QED
    BY <2>1, <2>2, LogOfChain
<1>8. /\ IsChain(rows') /\ Len(LogView') = c /\ LogView' \in Seq(Requests)
      /\ \A i \in 1..c : RowAt(rows', i) \in rows' /\ RowAt(rows', i).sequence = i /\ LogView'[i] = RowAt(rows', i).request_id
  <2>1. LogView' = LogOf(rows')
    BY DEF LogView, LogOf, RowAt
  <2>2. rows' \in SUBSET Row /\ IsChain(rows')
    BY DEF TypeOK, ChainInv, IsChain
  <2>3. QED
    BY <2>1, <2>2, LogOfChain
<1>9. ASSUME NEW i \in 1..c, i <= m PROVE LogView'[i] = LogView[i]
  <2>1. i \in 1..m
    BY <1>4, <1>9
  <2>2. RowAt(rows, i) \in rows' /\ RowAt(rows, i).sequence = i
    BY <1>1, <1>7, <2>1
  <2>3. RowAt(rows', i) = RowAt(rows, i)
    BY <1>8, <2>2, RowAtOfChain
  <2>4. QED
    BY <1>7, <1>8, <2>1, <2>3
<1>10. ASSUME NEW i \in 1..c, ~(i <= m) PROVE LogView'[i] = q
  <2>1. PICK r \in rows' : r = RowAt(rows', i) /\ r.sequence = i
    BY <1>8
  <2>2. r \notin rows
    <3>1. next_sequence(rows) = m + 1 /\ \A s \in rows : s.sequence < next_sequence(rows)
      BY SizeOfChain, NextSequenceOfChain DEF TypeOK, ChainInv
    <3>2. QED
      BY <1>4, <1>10, <2>1, <3>1
  <2>3. QED
    BY <1>1, <1>2, <1>8, <2>1, <2>2
<1>11. LogView' = LogView \o b
  <2>1. /\ LogView \o b \in Seq(Requests) /\ Len(LogView \o b) = c
        /\ \A i \in 1..c : (LogView \o b)[i] = IF i <= m THEN LogView[i] ELSE b[i - m]
    <3>1. PICK a : a = LogView
      OBVIOUS
    <3>2. a \in Seq(Requests) /\ Len(a) = m
      BY <1>7, <3>1
    <3>3. /\ a \o b \in Seq(Requests) /\ Len(a \o b) = Len(a) + Len(b)
          /\ \A i \in 1..(Len(a) + Len(b)) : (a \o b)[i] = IF i <= Len(a) THEN a[i] ELSE b[i - Len(a)]
      BY <1>6, <3>2, ConcatProperties
    <3>4. QED
      BY <1>4, <1>6, <3>1, <3>2, <3>3
  <2>2. ASSUME NEW i \in 1..c PROVE LogView'[i] = (LogView \o b)[i]
    <3>1. CASE i <= m
      BY <1>9, <2>1, <3>1
    <3>2. CASE ~(i <= m)
      <4>1. i - m \in 1..n
        BY <1>3, <1>4, <3>2
      <4>2. QED
        BY <1>6, <1>10, <2>1, <3>2, <4>1
    <3>3. QED
      BY <3>1, <3>2
  <2>3. QED
    BY <1>8, <2>1, <2>2, SeqEqual
<1>12. q \notin Abstract!Entries
  BY <1>2, <1>7 DEF Abstract!Entries
<1>13. Abstract!AppendBatch(q, n)
  BY <1>5, <1>11, <1>12 DEF Abstract!AppendBatch
<1>14. QED
  BY <1>3, <1>13

(* The audit table implements AuditLog: to its readers the records of a     *)
(* request appear in one step, at the end of the log and only once, however *)
(* write_audit and the commits of get_db interleave.                        *)
THEOREM AuditImplementsLog == Spec => ImplementsAuditLog
<1>1. Init => Abstract!Init
  <2>1. Init => LogView = <<>>
    BY FS_EmptySet DEF Init, LogView
  <2>2. QED
    BY <2>1 DEF Abstract!Init
<1>2. TypeOK /\ ChainInv /\ RecordsInv /\ (TypeOK /\ ChainInv /\ RecordsInv)' /\ [Next]_vars => [Abstract!Next]_LogView
  <2> SUFFICES ASSUME TypeOK, ChainInv, RecordsInv, TypeOK', ChainInv', [Next]_vars PROVE [Abstract!Next]_LogView
    OBVIOUS
  <2>1. ASSUME rows' = rows PROVE LogView' = LogView
    BY <2>1 DEF LogView
  <2>2. ASSUME NEW q \in Requests, Commit(q) PROVE [Abstract!Next]_LogView
    <3>1. CASE pending[q] = {}
      BY <2>1, <2>2, <3>1 DEF Commit
    <3>2. CASE pending[q] # {}
      BY <2>2, <3>2, CommitAppends DEF Abstract!Next
    <3>3. QED
      BY <3>1, <3>2
  <2>3. ASSUME NEW q \in Requests, Handle(q) \/ Step(q), ~Commit(q) PROVE rows' = rows
    BY <2>3 DEF Handle, Step, ReadSequence, ReadHash, Flush, FlushFails, RaiseDenied, Rollback
  <2>4. CASE UNCHANGED vars
    BY <2>1, <2>4 DEF vars
  <2>5. QED
    BY <2>1, <2>2, <2>3, <2>4 DEF Next, Step
<1>3. QED
  BY <1>1, <1>2, AuditInvariant, PTL DEF Spec, ImplementsAuditLog, Abstract!Spec

-----------------------------------------------------------------------------
(* Part 2: access, starts of processes and the execution broker.           *)

---------------------------------------------------------------------------
(* The role catalogue.                                                     *)

(* What the proofs need of the role catalogue: the role of API keys may    *)
(* not call the broker, and the only role with admin:platform may call it  *)
(* and has every tier (permissions.py).                                    *)
LEMMA Catalogue ==
    /\ {"detection_engineer", "platform_super_admin"} \subseteq Roles
    /\ permissions_for_roles({"detection_engineer"}) = DETECTION_ENGINEER_PERMS
    /\ "broker:execute" \notin DETECTION_ENGINEER_PERMS
    /\ \A r \in Roles : "admin:platform" \in ROLE_CATALOG[r] => r = "platform_super_admin"
    /\ ADMIN_PERMS \subseteq ROLE_CATALOG["platform_super_admin"]
<1>1. /\ "detection_engineer" \in Roles /\ "platform_super_admin" \in Roles
      /\ ROLE_CATALOG["detection_engineer"] = DETECTION_ENGINEER_PERMS
      /\ ROLE_CATALOG["platform_super_admin"] = ADMIN_PERMS \cup {"admin:platform"}
  BY DEF Roles, ROLE_CATALOG
<1>2. permissions_for_roles({"detection_engineer"}) = DETECTION_ENGINEER_PERMS
  BY <1>1 DEF permissions_for_roles
<1>3. "broker:execute" \notin DETECTION_ENGINEER_PERMS
  BY DEF DETECTION_ENGINEER_PERMS, ANALYST_PERMS
<1>4. "admin:platform" \notin ADMIN_PERMS \cup RESPONDER_PERMS \cup HUNTER_PERMS
                                \cup ANALYST_PERMS \cup DETECTION_ENGINEER_PERMS
  BY DEF ADMIN_PERMS, RESPONDER_PERMS, HUNTER_PERMS, ANALYST_PERMS, DETECTION_ENGINEER_PERMS
<1>5. ASSUME NEW r \in Roles, "admin:platform" \in ROLE_CATALOG[r]
      PROVE  r = "platform_super_admin"
  BY <1>4, <1>5 DEF Roles, ROLE_CATALOG
<1> QED
  BY <1>1, <1>2, <1>3, <1>5

---------------------------------------------------------------------------
(* The inductive invariant.                                                *)

(* What a request has been given rests on what it saw (actor_from_bearer,  *)
(* actor_from_api_key).                                                    *)
Authenticated(a, s) ==
    IF a.by = "api_key" THEN a.who \in s.keys /\ ~a.admin
    ELSE a.who \in s.active \cap s.bearers /\ (a.admin => a.who \in s.admins)

Held(s, who, t) == {r \in Roles : <<who, t, r>> \in s.grants}
HeldPermissions(s, who, t) == UNION {ROLE_CATALOG[r] : r \in Held(s, who, t)}

Bound(a, s) ==
    \A t \in a.tenant_ids :
        IF a.by = "api_key" THEN t = KeyTenant[a.who] ELSE Held(s, a.who, t) # {}

Running(a, s) ==
    IF a.by = "api_key"
    THEN a.tenants \subseteq {KeyTenant[a.who]} /\ a.perm \in DETECTION_ENGINEER_PERMS \cup {"none"}
    ELSE \/ a.admin
         \/ \A t \in a.tenants :
              /\ \E r \in Held(s, a.who, t) : a.perm \in ROLE_CATALOG[r] \cup {"none"}
              /\ a.permissions \subseteq HeldPermissions(s, a.who, t)

Authority(a, s) ==
    \/ a.who \in s.admins
    \/ \A t \in a.tenants :
         /\ "broker:execute" \in HeldPermissions(s, a.who, t)
         /\ a.request.permissions \subseteq HeldPermissions(s, a.who, t)

Submitted(a) == a.request.dry_run \in BOOLEAN /\ a.answer \in submit(a.request, a.opa)

CallOK(a, s) ==
    /\ a.pc \in {"idle", "tenants", "bind", "run", "answered"}
    /\ a.pc \in {"tenants", "bind", "run"} => Authenticated(a, s)
    /\ a.pc = "tenants" => a.by = "user"
    /\ a.pc = "bind" => Bound(a, s)
    /\ a.pc = "run" => Running(a, s)
    /\ a.pc = "answered" => Authority(a, s) /\ Submitted(a)

(* s has seen what holds now, but for the tokens, which expire.            *)
Covers(s) ==
    Active \subseteq s.active /\ Admins \subseteq s.admins /\ memberships \subseteq s.grants /\ keys \subseteq s.keys

CallInv ==
    /\ DOMAIN call = Calls /\ DOMAIN saw = Calls
    /\ \A c \in Calls : CallOK(call[c], saw[c]) /\ Covers(saw[c])

Starting == {"seed", "align", "create"}
StartRecord == [pc : Starting, operator : Operators, empty : BOOLEAN, raced : BOOLEAN]

(* What a start that has not committed knows is true until another one     *)
(* commits.                                                                *)
StartOK(s) ==
    /\ s.pc \in {"down", "up", "failed"} \cup Starting
    /\ s.pc = "failed" => s.raced
    /\ s.pc \in Starting =>
          /\ s \in StartRecord
          /\ ~s.empty => tenants # {}
          /\ s.empty /\ ~s.raced => tenants = {}
          /\ s.pc = "create" => ~s.empty /\ (~s.raced => ~Has(s.operator))

StartInv ==
    /\ DOMAIN process = Processes
    /\ \A p \in Processes : StartOK(process[p])
    /\ seeds \in {0, 1}
    /\ tenants = {} => seeds = 0 /\ \A e \in Emails : ~Has(e)

UserRow == [status : {"none", "active", "disabled"}, admin : BOOLEAN]
RowTypes ==
    /\ users \in [Emails -> UserRow]
    /\ memberships \subseteq Emails \X Tenants \X Roles
    /\ tenants \subseteq Tenants
    /\ keys \subseteq Keys
    /\ now \in 0 .. MaxTime
    /\ \A token \in tokens : token.sub \in Emails /\ token.exp \in 0 .. MaxTime + TokenLife

GateInv == RowTypes /\ CallInv /\ StartInv

---------------------------------------------------------------------------
(* Requests: what one step of a request does to CallInv.                   *)

Within(s, u) ==
    /\ s.active \subseteq u.active /\ s.admins \subseteq u.admins /\ s.grants \subseteq u.grants
    /\ s.keys \subseteq u.keys /\ s.bearers \subseteq u.bearers

(* Seeing more never takes a request's authority away.                     *)
LEMMA SeeingMore ==
    ASSUME NEW a, NEW s, NEW u, CallOK(a, s), Within(s, u)
    PROVE  CallOK(a, u)
<1>1. \A t : Held(s, a.who, t) \subseteq Held(u, a.who, t)
  BY DEF Held, Within
<1>2. \A t : HeldPermissions(s, a.who, t) \subseteq HeldPermissions(u, a.who, t)
  BY <1>1 DEF HeldPermissions
<1>3. Authenticated(a, s) => Authenticated(a, u)
  BY DEF Authenticated, Within
<1>4. Bound(a, s) => Bound(a, u)
  BY <1>1 DEF Bound
<1>5. Running(a, s) => Running(a, u)
  BY <1>1, <1>2 DEF Running
<1>6. Authority(a, s) => Authority(a, u)
  BY <1>2 DEF Authority, Within
<1> QED
  BY <1>3, <1>4, <1>5, <1>6 DEF CallOK

(* A request that is not there needs no authority.                         *)
LEMMA IdleOK == \A s : CallOK(Idle, s)
  BY DEF CallOK, Idle

(* The step of one request that edits nothing.                             *)
LEMMA OneCall ==
    ASSUME CallInv, UNCHANGED <<accounts, saw>>, NEW c \in Calls, NEW v,
           CallOK(v, saw[c]), call' = [call EXCEPT ![c] = v]
    PROVE  CallInv'
<1>1. DOMAIN call' = Calls /\ DOMAIN saw' = Calls
  BY DEF CallInv
<1>2. ASSUME NEW d \in Calls
      PROVE  CallOK(call'[d], saw[d])
  <2>1. CASE d = c
    <3>1. call'[d] = v
      BY <2>1 DEF CallInv
    <3> QED
      BY <3>1, <2>1
  <2>2. CASE d # c
    <3>1. call'[d] = call[d]
      BY <2>2 DEF CallInv
    <3> QED
      BY <3>1 DEF CallInv
  <2> QED
    BY <2>1, <2>2
<1>3. \A d \in Calls : Covers(saw[d])'
  BY DEF CallInv, Covers, Active, Admins, accounts
<1>4. \A d \in Calls : CallOK(call[d], saw[d])'
  BY <1>2
<1> QED
  BY <1>1, <1>3, <1>4 DEF CallInv

(* The first step of a request, which starts its history.                  *)
LEMMA FirstStep ==
    ASSUME CallInv, UNCHANGED accounts, NEW c \in Calls, NEW v, saw' = [saw EXCEPT ![c] = Now],
           CallOK(v, Now), call' = [call EXCEPT ![c] = v]
    PROVE  CallInv'
<1>1. DOMAIN call' = Calls /\ DOMAIN saw' = Calls
  BY DEF CallInv
<1>2. Covers(Now)
  BY DEF Covers, Now
<1>3. ASSUME NEW d \in Calls
      PROVE  CallOK(call'[d], saw'[d]) /\ Covers(saw'[d])
  <2>1. CASE d = c
    <3>1. call'[d] = v /\ saw'[d] = Now
      BY <2>1 DEF CallInv
    <3> QED
      BY <3>1, <1>2
  <2>2. CASE d # c
    <3>1. call'[d] = call[d] /\ saw'[d] = saw[d]
      BY <2>2 DEF CallInv
    <3> QED
      BY <3>1 DEF CallInv
  <2> QED
    BY <2>1, <2>2
<1>4. \A d \in Calls : CallOK(call[d], saw[d])'
  BY <1>3
<1>5. \A d \in Calls : Covers(saw[d])'
  BY <1>3 DEF Covers, Active, Admins, accounts
<1> QED
  BY <1>1, <1>4, <1>5 DEF CallInv

(* A commit or an edit, which every request then has seen.                 *)
LEMMA EverySees ==
    ASSUME CallInv, UNCHANGED call, saw' = Remembered
    PROVE  CallInv'
<1>1. DOMAIN call' = Calls /\ DOMAIN saw' = Calls
  BY DEF CallInv, Remembered
<1>2. ASSUME NEW d \in Calls
      PROVE  CallOK(call[d], saw[d])' /\ Covers(saw[d])'
  <2>1. /\ saw'[d].active = saw[d].active \cup Now'.active
        /\ saw'[d].admins = saw[d].admins \cup Now'.admins
        /\ saw'[d].grants = saw[d].grants \cup Now'.grants
        /\ saw'[d].keys = saw[d].keys \cup Now'.keys
        /\ saw'[d].bearers = saw[d].bearers \cup Now'.bearers
    BY DEF Remembered
  <2>2. Within(saw[d], saw'[d])
    BY <2>1 DEF Within
  <2>3. CallOK(call[d], saw'[d])
    BY <2>2, SeeingMore DEF CallInv
  <2>4. /\ Now'.active = Active' /\ Now'.admins = Admins'
        /\ Now'.grants = memberships' /\ Now'.keys = keys'
    BY DEF Now
  <2>5. Covers(saw[d])'
    BY <2>1, <2>4 DEF Covers
  <2> QED
    BY <2>3, <2>5
<1> QED
  BY <1>1, <1>2 DEF CallInv

(* actor_from_api_key: an active key, and its own tenant.                  *)
LEMMA AuthenticateKeyCalls ==
    ASSUME CallInv, NEW c \in Calls, NEW k, NEW h, NEW perm, AuthenticateKey(c, k, h, perm)
    PROVE  CallInv'
<1>0. UNCHANGED accounts /\ saw' = [saw EXCEPT ![c] = Now]
  BY DEF AuthenticateKey
<1>1. CASE k \in keys
  <2> DEFINE v == [pc |-> "bind", by |-> "api_key", who |-> k, admin |-> FALSE,
                   tenant_ids |-> {KeyTenant[k]}, header |-> h, perm |-> perm]
  <2>1. call' = [call EXCEPT ![c] = v]
    BY <1>1 DEF AuthenticateKey
  <2>2. CallOK(v, Now)
    BY <1>1 DEF CallOK, Authenticated, Bound, Now
  <2> QED
    BY <1>0, <2>1, <2>2, FirstStep
<1>2. CASE k \notin keys
  BY <1>0, <1>2, IdleOK, FirstStep DEF AuthenticateKey, Refused
<1> QED
  BY <1>1, <1>2

(* actor_from_bearer, its first read: the user is active, its token valid. *)
LEMMA AuthenticateBearerCalls ==
    ASSUME RowTypes, CallInv, NEW c \in Calls, NEW token \in tokens, NEW h, NEW perm,
           AuthenticateBearer(c, token, h, perm)
    PROVE  CallInv'
<1>0. UNCHANGED accounts /\ saw' = [saw EXCEPT ![c] = Now]
  BY DEF AuthenticateBearer
<1>1. CASE Valid(token) /\ token.sub \in Active
  <2> DEFINE v == [pc |-> "tenants", by |-> "user", who |-> token.sub,
                   admin |-> users[token.sub].admin, header |-> h, perm |-> perm]
  <2>1. call' = [call EXCEPT ![c] = v]
    BY <1>1 DEF AuthenticateBearer
  <2>2. token.sub \in Now.bearers /\ token.sub \in Now.active
    BY <1>1 DEF Now, Valid
  <2>3. users[token.sub].admin => token.sub \in Now.admins
    BY <1>1 DEF Now, Active, Admins
  <2>4. CallOK(v, Now)
    BY <2>2, <2>3 DEF CallOK, Authenticated
  <2> QED
    BY <1>0, <2>1, <2>4, FirstStep
<1>2. CASE ~(Valid(token) /\ token.sub \in Active)
  BY <1>0, <1>2, IdleOK, FirstStep DEF AuthenticateBearer, Refused
<1> QED
  BY <1>1, <1>2

(* actor_from_bearer, its second read: every tenant comes with a role.     *)
LEMMA ReadMembershipsCalls ==
    ASSUME RowTypes, CallInv, NEW c \in Calls, ReadMemberships(c)
    PROVE  CallInv'
<1> DEFINE a == call[c]
           v == [pc |-> "bind", by |-> "user", who |-> a.who, admin |-> a.admin,
                 tenant_ids |-> TenantsOf(a.who), header |-> a.header, perm |-> a.perm]
<1>1. UNCHANGED <<accounts, saw>> /\ call' = [call EXCEPT ![c] = v] /\ a.pc = "tenants"
  BY DEF ReadMemberships
<1>2. CallOK(a, saw[c]) /\ Covers(saw[c])
  BY DEF CallInv
<1>3. Authenticated(a, saw[c]) /\ a.by = "user"
  BY <1>1, <1>2 DEF CallOK
<1>4. ASSUME NEW t \in TenantsOf(a.who)
      PROVE  Held(saw[c], a.who, t) # {}
  <2>1. PICK m \in memberships : m[1] = a.who /\ m[2] = t
    BY <1>4 DEF TenantsOf
  <2>2. m[3] \in Roles /\ m = <<a.who, t, m[3]>>
    BY <2>1 DEF RowTypes
  <2>3. m[3] \in Held(saw[c], a.who, t)
    BY <2>2, <1>2 DEF Covers, Held
  <2> QED
    BY <2>3
<1>5. Authenticated(v, saw[c])
  BY <1>3 DEF Authenticated
<1>6. Bound(v, saw[c])
  BY <1>4 DEF Bound
<1>7. CallOK(v, saw[c])
  BY <1>5, <1>6 DEF CallOK
<1> QED
  BY <1>1, <1>7, OneCall

(* bind_tenant takes a caller's roles from memberships the request has     *)
(* seen.                                                                   *)
LEMMA BindTenantCalls ==
    ASSUME RowTypes, CallInv, NEW c \in Calls, BindTenant(c)
    PROVE  CallInv'
<1> DEFINE a == call[c]
           perms(t) == permissions_for_roles(RoleKeys(a, t))
           May(t) == /\ t \in a.tenant_ids \/ a.admin
                     /\ RoleKeys(a, t) # {} \/ a.admin
                     /\ require_permission(a, perms(t))
           v(t) == [pc |-> "run", by |-> a.by, who |-> a.who, admin |-> a.admin,
                    perm |-> a.perm, tenants |-> {t}, permissions |-> perms(t)]
<1>1. UNCHANGED <<accounts, saw>> /\ a.pc = "bind"
  BY DEF BindTenant
<1>2. CallOK(a, saw[c]) /\ Covers(saw[c])
  BY DEF CallInv
<1>3. Authenticated(a, saw[c]) /\ Bound(a, saw[c])
  BY <1>1, <1>2 DEF CallOK
<1>4. ASSUME NEW t, May(t)
      PROVE  Running(v(t), saw[c])
  <2>1. CASE a.by = "api_key"
    <3>1. perms(t) = DETECTION_ENGINEER_PERMS
      BY <2>1, Catalogue DEF RoleKeys
    <3>2. ~a.admin
      BY <2>1, <1>3 DEF Authenticated
    <3>3. t = KeyTenant[a.who]
      BY <2>1, <1>3, <1>4, <3>2 DEF Bound
    <3>4. a.perm \in DETECTION_ENGINEER_PERMS
      BY <1>4, <3>1, <3>2 DEF require_permission
    <3> HIDE DEF perms
    <3> QED
      BY <2>1, <3>3, <3>4 DEF Running
  <2>2. CASE a.by # "api_key" /\ ~a.admin
    <3>1. RoleKeys(a, t) = {m[3] : m \in {x \in memberships : x[1] = a.who /\ x[2] = t}}
      BY <2>2 DEF RoleKeys
    <3>2. ASSUME NEW r \in RoleKeys(a, t)
          PROVE  r \in Held(saw[c], a.who, t)
      <4>1. PICK m \in memberships : m[1] = a.who /\ m[2] = t /\ m[3] = r
        BY <3>1, <3>2
      <4>2. r \in Roles /\ m = <<a.who, t, r>>
        BY <4>1 DEF RowTypes
      <4> QED
        BY <4>2, <1>2 DEF Covers, Held
    <3>3. perms(t) \subseteq HeldPermissions(saw[c], a.who, t)
      BY <3>2 DEF permissions_for_roles, HeldPermissions
    <3>4. a.perm \in perms(t)
      BY <1>4, <2>2 DEF require_permission
    <3>5. PICK r \in RoleKeys(a, t) \cap Roles : a.perm \in ROLE_CATALOG[r]
      BY <3>4 DEF permissions_for_roles
    <3>6. r \in Held(saw[c], a.who, t)
      BY <3>2
    <3> HIDE DEF perms
    <3> QED
      BY <2>2, <3>3, <3>5, <3>6 DEF Running
  <2>3. CASE a.by # "api_key" /\ a.admin
    BY <2>3 DEF Running
  <2> QED
    BY <2>1, <2>2, <2>3
<1>5. ASSUME NEW t, May(t)
      PROVE  CallOK(v(t), saw[c])
  <2>1. Authenticated(v(t), saw[c])
    BY <1>3 DEF Authenticated
  <2>2. v(t).pc = "run"
    OBVIOUS
  <2> HIDE DEF v
  <2> QED
    BY <1>4, <1>5, <2>1, <2>2 DEF CallOK
<1>6. \/ \E t : May(t) /\ call' = [call EXCEPT ![c] = v(t)]
      \/ call' = [call EXCEPT ![c] = Idle]
  BY DEF BindTenant, Refused
<1> HIDE DEF May, v
<1>7. CASE \E t : May(t) /\ call' = [call EXCEPT ![c] = v(t)]
  BY <1>1, <1>5, <1>7, OneCall
<1>8. CASE call' = [call EXCEPT ![c] = Idle]
  BY <1>1, <1>8, IdleOK, OneCall
<1> QED
  BY <1>6, <1>7, <1>8

(* GET /tenants lists what the caller may see.                             *)
LEMMA ListTenantsCalls ==
    ASSUME RowTypes, CallInv, NEW c \in Calls, ListTenants(c)
    PROVE  CallInv'
<1> DEFINE a == call[c]
           v == [pc |-> "run", by |-> a.by, who |-> a.who, admin |-> a.admin,
                 perm |-> "none", permissions |-> {},
                 tenants |-> IF a.admin THEN tenants ELSE tenants \cap a.tenant_ids]
<1>1. UNCHANGED <<accounts, saw>> /\ call' = [call EXCEPT ![c] = v] /\ a.pc = "bind"
  BY DEF ListTenants
<1>2. Authenticated(a, saw[c]) /\ Bound(a, saw[c])
  BY <1>1 DEF CallOK, CallInv
<1>3. Authenticated(v, saw[c])
  BY <1>2 DEF Authenticated
<1>7. v.pc = "run" /\ Running(v, saw[c])
  <2>1. CASE a.by = "api_key"
    BY <1>2, <2>1 DEF Running, Bound, Authenticated
  <2>2. CASE a.by # "api_key" /\ ~a.admin
    <3>1. \A t \in v.tenants : Held(saw[c], a.who, t) # {}
      BY <1>2, <2>2 DEF Bound
    <3> QED
      BY <2>2, <3>1 DEF Running
  <2>3. CASE a.by # "api_key" /\ a.admin
    BY <2>3 DEF Running
  <2> QED
    BY <2>1, <2>2, <2>3
<1> HIDE DEF v
<1>8. CallOK(v, saw[c])
  BY <1>3, <1>7 DEF CallOK
<1> QED
  BY <1>1, <1>8, OneCall

(* submit_action adds admin:platform only for platform administrators, so  *)
(* the permissions it passes on are held.                                  *)
LEMMA SubmitActionCalls ==
    ASSUME CallInv, NEW c \in Calls, SubmitAction(c)
    PROVE  CallInv'
<1> DEFINE a == call[c]
<1>1. PICK body \in Bodies, opa \in {"absent", "answers"} :
         \E answer \in submit(Request(a, body), opa) :
            call' = [call EXCEPT ![c] =
                [pc |-> "answered", who |-> a.who, tenants |-> a.tenants,
                 request |-> Request(a, body), opa |-> opa, answer |-> answer,
                 audited |-> Audited(answer)]]
  BY DEF SubmitAction
<1>2. PICK answer \in submit(Request(a, body), opa) :
            call' = [call EXCEPT ![c] =
                [pc |-> "answered", who |-> a.who, tenants |-> a.tenants,
                 request |-> Request(a, body), opa |-> opa, answer |-> answer,
                 audited |-> Audited(answer)]]
  BY <1>1
<1> DEFINE v == [pc |-> "answered", who |-> a.who, tenants |-> a.tenants,
                 request |-> Request(a, body), opa |-> opa, answer |-> answer,
                 audited |-> Audited(answer)]
<1>3. UNCHANGED <<accounts, saw>> /\ a.pc = "run" /\ a.perm = "broker:execute"
  BY DEF SubmitAction
<1>4. Authenticated(a, saw[c]) /\ Running(a, saw[c])
  BY <1>3 DEF CallInv, CallOK
<1>5. a.by # "api_key"
  BY <1>3, <1>4, Catalogue DEF Running
<1>6. Request(a, body).permissions = Permissions(a)
  BY DEF Request
<1>7. Authority(v, saw[c])
  <2>1. CASE a.admin
    BY <2>1, <1>4, <1>5 DEF Authenticated, Authority
  <2>2. CASE ~a.admin
    <3>1. Permissions(a) = a.permissions
      BY <2>2 DEF Permissions
    <3>2. ASSUME NEW t \in a.tenants
          PROVE  /\ "broker:execute" \in HeldPermissions(saw[c], a.who, t)
                 /\ a.permissions \subseteq HeldPermissions(saw[c], a.who, t)
      BY <1>3, <1>4, <1>5, <2>2 DEF Running, HeldPermissions
    <3> QED
      BY <3>1, <3>2, <1>6 DEF Authority
  <2> QED
    BY <2>1, <2>2
<1>8. Submitted(v)
  <2>1. Request(a, body).dry_run \in BOOLEAN
    BY BodiesAssumption DEF Request
  <2> QED
    BY <1>2, <2>1 DEF Submitted
<1>9. v.pc = "answered"
  OBVIOUS
<1> HIDE DEF v
<1>10. CallOK(v, saw[c])
  BY <1>7, <1>8, <1>9 DEF CallOK
<1>11. call' = [call EXCEPT ![c] = v]
  BY <1>2 DEF v
<1> QED
  BY <1>3, <1>10, <1>11, OneCall

---------------------------------------------------------------------------
(* Starts of processes.                                                    *)

(* The emails of the accounts after the operator are different.            *)
LEMMA SeedEmails ==
    ASSUME NEW operator \in Operators
    PROVE  /\ Inserted(operator) \subseteq 1 .. 7
           /\ \A i \in 1 .. 7 : SeedAccounts(operator)[i].email \in Emails
           /\ SeedAccounts(operator)[1].email = operator
           /\ \A i, j \in Inserted(operator) :
                 SeedAccounts(operator)[i].email = SeedAccounts(operator)[j].email => i = j
<1> DEFINE all == SeedAccounts(operator)
<1>1. DOMAIN all = 1 .. 7
  BY DEF SeedAccounts
<1>2. /\ all[1].email = operator /\ all[2].email = "platform@" /\ all[3].email = "owner@"
      /\ all[4].email = "analyst@" /\ all[5].email = "hunter@" /\ all[6].email = "detector@"
      /\ all[7].email = "auditor@"
  BY DEF SeedAccounts, Account
<1> HIDE DEF all
<1>3. \A i \in 1 .. 7 : i \in {1, 2, 3, 4, 5, 6, 7}
  OBVIOUS
<1>4. \A i, j \in (1 .. 7) \ {1} : all[i].email = all[j].email => i = j
  BY <1>2, <1>3
<1>5. \A i \in 1 .. 7 : all[i].email \in Emails
  BY <1>2, <1>3 DEF Emails
<1>6. Inserted(operator) = {i \in 1 .. 7 : i = 1 \/ all[i].email # operator}
  BY <1>1 DEF Inserted, all
<1>7. \A i, j \in Inserted(operator) : all[i].email = all[j].email => i = j
  BY <1>2, <1>4, <1>6
<1> QED
  BY <1>2, <1>5, <1>6, <1>7 DEF all

(* On an empty database the seed collides with nothing.                    *)
LEMMA NoClashWhenEmpty ==
    ASSUME StartInv, tenants = {}, NEW operator \in Operators
    PROVE  ~SeedClash(operator)
<1>1. \A i \in Inserted(operator) : ~Has(SeedAccounts(operator)[i].email)
  BY SeedEmails DEF StartInv
<1> QED
  BY <1>1, SeedEmails DEF SeedClash

(* A step that leaves users, tenants and seeds alone, and changes one      *)
(* process.                                                                *)
LEMMA OneProcess ==
    ASSUME StartInv, UNCHANGED <<users, tenants, seeds>>, NEW p \in Processes, NEW v,
           StartOK(v), process' = [process EXCEPT ![p] = v]
    PROVE  StartInv'
<1>1. DOMAIN process' = Processes
  BY DEF StartInv
<1>2. \A q \in Processes : StartOK(process'[q])
  BY DEF StartInv
<1>3. \A q \in Processes : StartOK(process[q])'
  BY <1>2 DEF StartOK, Has
<1> QED
  BY <1>1, <1>3 DEF StartInv, Has

(* seed_if_empty looks for a tenant: what it finds is true at that moment. *)
LEMMA StartProcessStarts ==
    ASSUME StartInv, NEW p \in Processes, NEW operator \in Operators, NEW dev \in BOOLEAN,
           StartProcess(p, operator, dev)
    PROVE  StartInv'
<1> DEFINE e == tenants = {}
           v == [pc |-> "seed", operator |-> operator, empty |-> e, raced |-> FALSE]
<1>1. UNCHANGED <<users, tenants, seeds>>
  BY DEF StartProcess, accounts
<1>2. CASE dev
  <2>1. process' = [process EXCEPT ![p] = v]
    BY <1>2 DEF StartProcess
  <2>2. e \in BOOLEAN
    OBVIOUS
  <2>3. StartOK(v)
    BY <2>2 DEF StartOK, Starting, StartRecord
  <2> QED
    BY <1>1, <2>1, <2>3, OneProcess
<1>3. CASE ~dev
  <2>1. process' = [process EXCEPT ![p] = [pc |-> "up"]]
    BY <1>3 DEF StartProcess
  <2>2. StartOK([pc |-> "up"])
    BY DEF StartOK, Starting
  <2> QED
    BY <1>1, <2>1, <2>2, OneProcess
<1> QED
  BY <1>2, <1>3

(* The flush of the seed fails only after another process has committed.   *)
LEMMA SeedStarts ==
    ASSUME StartInv, NEW p \in Processes, Seed(p)
    PROVE  StartInv'
<1> DEFINE s == process[p]
<1>1. UNCHANGED <<users, tenants, seeds>> /\ s.pc = "seed"
  BY DEF Seed, accounts
<1>2. StartOK(s) /\ s \in StartRecord
  BY <1>1 DEF StartInv, StartOK, Starting
<1>3. CASE s.empty /\ SeedClash(s.operator)
  <2>1. s.raced
    BY <1>1, <1>2, <1>3, NoClashWhenEmpty DEF StartOK, Starting, StartRecord
  <2>2. StartOK([pc |-> "failed", raced |-> s.raced])
    BY <2>1 DEF StartOK, Starting
  <2>3. process' = [process EXCEPT ![p] = [pc |-> "failed", raced |-> s.raced]]
    BY <1>3 DEF Seed
  <2> QED
    BY <1>1, <2>2, <2>3, OneProcess
<1>4. CASE ~(s.empty /\ SeedClash(s.operator))
  <2> DEFINE to == IF s.empty \/ Has(s.operator) THEN "align" ELSE "create"
             v == [s EXCEPT !.pc = to]
  <2>1. process' = [process EXCEPT ![p] = v]
    BY <1>4 DEF Seed
  <2>2. /\ v \in StartRecord /\ v.pc = to /\ v.operator = s.operator
        /\ v.empty = s.empty /\ v.raced = s.raced
    BY <1>2 DEF StartRecord, Starting
  <2>3. to \in {"align", "create"} /\ (to = "create" => ~s.empty /\ ~Has(s.operator))
    OBVIOUS
  <2>4. (~s.empty => tenants # {}) /\ (s.empty /\ ~s.raced => tenants = {})
    BY <1>1, <1>2 DEF StartOK, Starting
  <2> HIDE DEF v, to
  <2>5. StartOK(v)
    BY <2>2, <2>3, <2>4 DEF StartOK, Starting
  <2> QED
    BY <1>1, <2>1, <2>5, OneProcess
<1> QED
  BY <1>3, <1>4

(* A process that is down knows nothing.                                   *)
LEMMA StopProcessStarts ==
    ASSUME StartInv, NEW p \in Processes, StopProcess(p)
    PROVE  StartInv'
<1>1. UNCHANGED <<users, tenants, seeds>> /\ process' = [process EXCEPT ![p] = [pc |-> "down"]]
  BY DEF StopProcess, accounts
<1>2. StartOK([pc |-> "down"])
  BY DEF StartOK, Starting
<1> QED
  BY <1>1, <1>2, OneProcess

(* Edits disable, enable, promote: they neither create nor delete rows.    *)
LEMMA EditUsers ==
    ASSUME RowTypes, Edit
    PROVE  /\ users' \in [Emails -> UserRow]
           /\ \A e \in Emails : Has(e)' <=> Has(e)
<1>1. CASE UNCHANGED users
  BY <1>1 DEF RowTypes, Has
<1>2. ASSUME NEW e \in Edited, Has(e),
             users' = [users EXCEPT ![e].status = IF @ = "active" THEN "disabled" ELSE "active"]
      PROVE  /\ users' \in [Emails -> UserRow]
             /\ \A f \in Emails : Has(f)' <=> Has(f)
  <2>1. e \in Emails /\ users \in [Emails -> UserRow]
    BY AccessAssumption DEF RowTypes
  <2>2. PICK st \in {"active", "disabled"} : users' = [users EXCEPT ![e].status = st]
    BY <1>2, <2>1
  <2> QED
    BY <1>2, <2>1, <2>2 DEF Has, UserRow
<1>3. ASSUME NEW e \in Edited, Has(e), users' = [users EXCEPT ![e].admin = ~@]
      PROVE  /\ users' \in [Emails -> UserRow]
             /\ \A f \in Emails : Has(f)' <=> Has(f)
  <2>1. e \in Emails /\ users \in [Emails -> UserRow]
    BY AccessAssumption DEF RowTypes
  <2>2. PICK b \in BOOLEAN : users' = [users EXCEPT ![e].admin = b]
    BY <1>3, <2>1 DEF UserRow
  <2> QED
    BY <1>3, <2>1, <2>2 DEF Has, UserRow
<1>4. \/ UNCHANGED users
      \/ \E e \in Edited :
            /\ Has(e)
            /\ \/ users' = [users EXCEPT ![e].status = IF @ = "active" THEN "disabled" ELSE "active"]
               \/ users' = [users EXCEPT ![e].admin = ~@]
  BY DEF Edit
<1> QED
  BY <1>1, <1>2, <1>3, <1>4

(* Administration of the database keeps the invariant.                     *)
LEMMA EditStep ==
    ASSUME GateInv, Edit
    PROVE  GateInv'
<1>1. UNCHANGED <<tenants, process, seeds, now, tokens, call>> /\ saw' = Remembered
  BY DEF Edit
<1>2. \A p \in Processes : StartOK(process[p]) => StartOK(process[p])'
  BY <1>1, EditUsers DEF StartOK, StartRecord, Emails, GateInv
<1>3. StartInv'
  BY <1>1, <1>2, EditUsers DEF StartInv, GateInv
<1>4. CallInv'
  BY <1>1, EverySees DEF GateInv
<1>5. keys' \subseteq keys
  BY DEF Edit
<1>6. memberships' \subseteq Emails \X Tenants \X Roles
  <2>1. \/ memberships' \subseteq memberships
        \/ \E e \in Edited, t \in tenants, r \in Granted : memberships' = memberships \cup {<<e, t, r>>}
    BY DEF Edit
  <2>2. ASSUME NEW e \in Edited, NEW t \in tenants, NEW r \in Granted
        PROVE  <<e, t, r>> \in Emails \X Tenants \X Roles
    BY AccessAssumption DEF GateInv, RowTypes
  <2> QED
    BY <2>1, <2>2 DEF GateInv, RowTypes
<1>7. RowTypes'
  BY <1>1, <1>5, <1>6, EditUsers DEF GateInv, RowTypes
<1> QED
  BY <1>3, <1>4, <1>7 DEF GateInv

(* The accounts of the seed have roles of the catalogue in the two tenants. *)
LEMMA SeedRoles ==
    ASSUME NEW operator \in Operators
    PROVE  /\ OperatorRoles \subseteq Tenants \X Roles
           /\ \A i \in 1 .. 7 : SeedAccounts(operator)[i].roles \subseteq Tenants \X Roles
<1> DEFINE all == SeedAccounts(operator)
<1>1. {"platform_super_admin", "tenant_owner", "analyst", "threat_hunter", "detection_engineer",
       "auditor"} \subseteq Roles
  BY DEF Roles, ROLE_CATALOG
<1>2. /\ all[1].roles = OperatorRoles
      /\ all[2].roles = {<<PLATFORM_TENANT_ID, "platform_super_admin">>}
      /\ all[3].roles = {<<DEMO_TENANT_ID, "tenant_owner">>}
      /\ all[4].roles = {<<DEMO_TENANT_ID, "analyst">>}
      /\ all[5].roles = {<<DEMO_TENANT_ID, "threat_hunter">>}
      /\ all[6].roles = {<<DEMO_TENANT_ID, "detection_engineer">>}
      /\ all[7].roles = {<<DEMO_TENANT_ID, "auditor">>}
  BY DEF SeedAccounts, Account
<1>3. PLATFORM_TENANT_ID \in Tenants /\ DEMO_TENANT_ID \in Tenants
  BY DEF Tenants
<1>4. OperatorRoles \subseteq Tenants \X Roles
  BY <1>1, <1>3 DEF OperatorRoles
<1>5. \A i \in 1 .. 7 : i \in {1, 2, 3, 4, 5, 6, 7}
  OBVIOUS
<1> HIDE DEF all
<1>6. \A i \in 1 .. 7 : all[i].roles \subseteq Tenants \X Roles
  BY <1>1, <1>2, <1>3, <1>4, <1>5
<1> QED
  BY <1>4, <1>6 DEF all

(* The commit of a start, without the definitions it is made of.           *)
LEMMA CommitStartCases ==
    ASSUME NEW p \in Processes, CommitStart(p)
    PROVE  LET s == process[p]
           IN  /\ s.pc \in {"align", "create"} /\ UNCHANGED <<keys, tokens, now, call>>
               /\ StartClash(s) =>
                    /\ process' = [process EXCEPT ![p] = [pc |-> "failed", raced |-> s.raced]]
                    /\ UNCHANGED <<users, memberships, tenants, saw, seeds>>
               /\ ~StartClash(s) =>
                    /\ users' = Ensured(s.operator, SeededUsers(s))
                    /\ tenants' = IF s.empty THEN Tenants ELSE tenants
                    /\ memberships' = memberships \cup SeededMembers(s) \cup CreatedMembers(s)
                    /\ seeds' = IF s.empty THEN seeds + 1 ELSE seeds
                    /\ saw' = Remembered
                    /\ process' = [q \in Processes |->
                         IF q = p THEN [pc |-> "up"]
                         ELSE IF process[q].pc \in Starting
                         THEN [process[q] EXCEPT !.raced = TRUE]
                         ELSE process[q]]
  BY DEF CommitStart, Starting

(* The commit of a start tells every other start that it lost the race.    *)
LEMMA CommitStartStarts ==
    ASSUME GateInv, NEW p \in Processes, CommitStart(p)
    PROVE  StartInv'
<1> DEFINE s == process[p]
<1>1. s.pc \in {"align", "create"} /\ StartOK(s) /\ s \in StartRecord
  BY CommitStartCases DEF GateInv, StartInv, StartOK, Starting
<1>2. CASE StartClash(s)
  <2>1. s.raced
    BY <1>1, <1>2, NoClashWhenEmpty DEF GateInv, StartClash, StartOK, Starting, StartRecord
  <2>2. StartOK([pc |-> "failed", raced |-> s.raced])
    BY <2>1 DEF StartOK, Starting
  <2> QED
    BY <1>2, <2>2, CommitStartCases, OneProcess DEF GateInv
<1>3. CASE ~StartClash(s)
  <2>1. tenants' # {}
    BY <1>1, <1>3, CommitStartCases DEF StartOK, Starting, Tenants
  <2>2. seeds' \in {0, 1}
    <3>1. CASE s.empty
      <4>1. seeds = 0
        BY <3>1, <1>3 DEF StartClash, SeedClash, GateInv, StartInv
      <4> QED
        BY <3>1, <4>1, <1>3, CommitStartCases
    <3>2. CASE ~s.empty
      BY <3>2, <1>3, CommitStartCases DEF GateInv, StartInv
    <3> QED
      BY <3>1, <3>2
  <2>3. process' = [q \in Processes |->
                         IF q = p THEN [pc |-> "up"]
                         ELSE IF process[q].pc \in Starting
                         THEN [process[q] EXCEPT !.raced = TRUE]
                         ELSE process[q]]
    BY <1>3, CommitStartCases
  <2>4. ASSUME NEW q \in Processes
        PROVE  StartOK(process[q])'
    <3>1. CASE q = p
      <4>1. process'[q] = [pc |-> "up"]
        BY <2>3, <3>1
      <4> QED
        BY <4>1 DEF StartOK, Starting
    <3>2. CASE q # p /\ process[q].pc \in Starting
      <4>1. process'[q] = [process[q] EXCEPT !.raced = TRUE]
        BY <2>3, <3>2
      <4>2. StartOK(process[q]) /\ process[q] \in StartRecord
        BY <3>2 DEF GateInv, StartInv, StartOK
      <4>3. /\ process'[q] \in StartRecord /\ process'[q].raced
            /\ process'[q].pc = process[q].pc /\ process'[q].empty = process[q].empty
        BY <4>1, <4>2 DEF StartRecord
      <4>4. process[q].pc = "create" => ~process[q].empty
        BY <4>2, <3>2 DEF StartOK
      <4> QED
        BY <4>3, <4>4, <2>1, <3>2 DEF StartOK, Starting
    <3>3. CASE q # p /\ process[q].pc \notin Starting
      <4>1. process'[q] = process[q]
        BY <2>3, <3>3
      <4> QED
        BY <4>1, <3>3 DEF GateInv, StartInv, StartOK
    <3> QED
      BY <3>1, <3>2, <3>3
  <2>5. DOMAIN process' = Processes
    BY <2>3
  <2> QED
    BY <2>1, <2>2, <2>4, <2>5 DEF StartInv
<1> QED
  BY <1>2, <1>3

(* What a start writes are accounts, tenants and roles that exist.         *)
LEMMA CommitStartRows ==
    ASSUME GateInv, NEW p \in Processes, CommitStart(p)
    PROVE  RowTypes'
<1> DEFINE s == process[p]
<1>1. s \in StartRecord
  BY CommitStartCases DEF GateInv, StartInv, StartOK, Starting
<1>2. CASE StartClash(s)
  BY <1>2, CommitStartCases DEF GateInv, RowTypes
<1>3. CASE ~StartClash(s)
  <2>1. s.operator \in Operators /\ s.operator \in Emails
    BY <1>1 DEF StartRecord, Emails
  <2>2. ASSUME NEW e \in Emails
        PROVE  SeededUsers(s)[e] \in UserRow
    <3> DEFINE b == \E a \in NewAccounts(s) : a.email = e /\ a.admin
    <3>1. b \in BOOLEAN
      OBVIOUS
    <3>2. SeededUsers(s)[e] \in {[status |-> "active", admin |-> b], users[e]}
      BY DEF SeededUsers
    <3> HIDE DEF b
    <3> QED
      BY <3>1, <3>2 DEF UserRow, GateInv, RowTypes
  <2>3. SeededUsers(s) \in [Emails -> UserRow]
    <3>1. SeededUsers(s) = [e \in Emails |-> SeededUsers(s)[e]]
      BY DEF SeededUsers
    <3> QED
      BY <2>2, <3>1
  <2>4. users' \in [Emails -> UserRow]
    <3>1. users' = Ensured(s.operator, SeededUsers(s))
      BY <1>3, CommitStartCases
    <3> QED
      BY <2>1, <2>3, <3>1 DEF Ensured, UserRow
  <2>5. ASSUME NEW a \in NewAccounts(s), NEW r \in a.roles
        PROVE  <<a.email, r[1], r[2]>> \in Emails \X Tenants \X Roles
    <3>1. PICK i \in 1 .. 7 : a = SeedAccounts(s.operator)[i]
      BY <2>1, SeedEmails DEF NewAccounts
    <3>2. a.email \in Emails /\ r \in Tenants \X Roles
      BY <2>1, <3>1, SeedEmails, SeedRoles
    <3> QED
      BY <3>2
  <2>6. ASSUME NEW r \in OperatorRoles
        PROVE  <<s.operator, r[1], r[2]>> \in Emails \X Tenants \X Roles
    <3>1. r \in Tenants \X Roles
      BY <2>1, SeedRoles
    <3> QED
      BY <2>1, <3>1
  <2>7. memberships' \subseteq Emails \X Tenants \X Roles
    <3>1. memberships' = memberships \cup SeededMembers(s) \cup CreatedMembers(s)
      BY <1>3, CommitStartCases
    <3>2. memberships \subseteq Emails \X Tenants \X Roles
      BY DEF GateInv, RowTypes
    <3>3. SeededMembers(s) \subseteq Emails \X Tenants \X Roles
      BY <2>5 DEF SeededMembers
    <3>4. CreatedMembers(s) \subseteq Emails \X Tenants \X Roles
      BY <2>6 DEF CreatedMembers
    <3> QED
      BY <3>1, <3>2, <3>3, <3>4
  <2>8. tenants' \subseteq Tenants
    BY <1>3, CommitStartCases DEF GateInv, RowTypes
  <2>9. UNCHANGED <<keys, tokens, now>>
    BY CommitStartCases
  <2> QED
    BY <2>4, <2>7, <2>8, <2>9 DEF GateInv, RowTypes
<1> QED
  BY <1>2, <1>3

(* The commit of a start keeps the invariant.                              *)
LEMMA CommitStartStep ==
    ASSUME GateInv, NEW p \in Processes, CommitStart(p)
    PROVE  GateInv'
<1>1. CallInv'
  <2>1. CASE StartClash(process[p])
    <3>1. UNCHANGED <<users, memberships, keys, saw, call>>
      BY <2>1, CommitStartCases
    <3> QED
      BY <3>1 DEF GateInv, CallInv, Covers, Active, Admins
  <2>2. CASE ~StartClash(process[p])
    BY <2>2, CommitStartCases, EverySees DEF GateInv
  <2> QED
    BY <2>1, <2>2
<1> QED
  BY <1>1, CommitStartStarts, CommitStartRows DEF GateInv

---------------------------------------------------------------------------
(* The invariant is inductive.                                             *)

(* The empty database.                                                     *)
LEMMA GateInit == AccessInit => GateInv
<1> SUFFICES ASSUME AccessInit PROVE GateInv
  OBVIOUS
<1>1. RowTypes
  BY AccessAssumption DEF AccessInit, RowTypes, NoRow, UserRow
<1>2. StartInv
  BY DEF AccessInit, StartInv, StartOK, Starting, NoRow, Has
<1>3. CallInv
  <2>1. Covers(Now)
    BY DEF Covers, Now
  <2> QED
    BY <2>1, IdleOK DEF AccessInit, CallInv
<1> QED
  BY <1>1, <1>2, <1>3 DEF GateInv

(* A step of a request touches neither the rows nor the starts.            *)
LEMMA CallStepFrame ==
    ASSUME GateInv, UNCHANGED <<accounts, tokens, now, process, seeds>>, CallInv'
    PROVE  GateInv'
<1>1. StartInv'
  BY DEF GateInv, StartInv, StartOK, Has, accounts
<1>2. RowTypes'
  BY DEF GateInv, RowTypes, accounts
<1> QED
  BY <1>1, <1>2 DEF GateInv

(* A step of a start before its commit touches neither rows nor requests.  *)
LEMMA StartStepFrame ==
    ASSUME GateInv, UNCHANGED <<accounts, tokens, now, call, saw>>, StartInv'
    PROVE  GateInv'
<1>1. CallInv'
  BY DEF GateInv, CallInv, Covers, Active, Admins, accounts
<1>2. RowTypes'
  BY DEF GateInv, RowTypes, accounts
<1> QED
  BY <1>1, <1>2 DEF GateInv

(* Time passes and tokens are handed out.                                  *)
LEMMA TimeStep ==
    ASSUME GateInv, Tick \/ \E e \in Edited : Login(e)
    PROVE  GateInv'
<1>1. UNCHANGED <<accounts, call, saw, process, seeds>>
  BY DEF Tick, Login
<1>2. CallInv' /\ StartInv'
  BY <1>1 DEF GateInv, CallInv, Covers, Active, Admins, StartInv, StartOK, Has, accounts
<1>3. now' \in 0 .. MaxTime
  BY AccessAssumption DEF Tick, Login, GateInv, RowTypes
<1>4. ASSUME NEW token \in tokens'
      PROVE  token.sub \in Emails /\ token.exp \in 0 .. MaxTime + TokenLife
  <2>1. CASE token \in tokens
    BY <2>1 DEF GateInv, RowTypes
  <2>2. CASE token \notin tokens
    <3>1. PICK e \in Edited : token = [sub |-> e, exp |-> now + TokenLife]
      BY <2>2 DEF Tick, Login
    <3>2. now \in 0 .. MaxTime /\ MaxTime \in Nat /\ TokenLife \in Nat
      BY AccessAssumption DEF GateInv, RowTypes
    <3> QED
      BY <3>1, <3>2, AccessAssumption
  <2> QED
    BY <2>1, <2>2
<1>5. RowTypes'
  BY <1>1, <1>3, <1>4 DEF GateInv, RowTypes, accounts
<1> QED
  BY <1>2, <1>5 DEF GateInv

(* Every step keeps the invariant.                                         *)
LEMMA GateStep ==
    ASSUME GateInv, [GateNext]_accessVars
    PROVE  GateInv'
<1>0. RowTypes /\ CallInv /\ StartInv
  BY DEF GateInv
<1>1. CASE UNCHANGED accessVars
  <2>1. UNCHANGED <<accounts, tokens, now, call, saw, process, seeds>>
    BY <1>1 DEF accessVars, accounts
  <2>2. StartInv'
    BY <1>0, <2>1 DEF StartInv, StartOK, Has, accounts
  <2> QED
    BY <2>1, <2>2, StartStepFrame
<1>2. ASSUME NEW p \in Processes, NEW o \in Operators, NEW dev \in BOOLEAN, StartProcess(p, o, dev)
      PROVE  GateInv'
  BY <1>0, <1>2, StartProcessStarts, StartStepFrame DEF StartProcess
<1>3. ASSUME NEW p \in Processes, Seed(p)
      PROVE  GateInv'
  BY <1>0, <1>3, SeedStarts, StartStepFrame DEF Seed
<1>4. ASSUME NEW p \in Processes, CommitStart(p)
      PROVE  GateInv'
  BY <1>4, CommitStartStep
<1>5. ASSUME NEW p \in Processes, StopProcess(p)
      PROVE  GateInv'
  BY <1>0, <1>5, StopProcessStarts, StartStepFrame DEF StopProcess
<1>6. CASE Edit
  BY <1>6, EditStep
<1>7. CASE Tick \/ \E e \in Edited : Login(e)
  BY <1>7, TimeStep
<1>8. ASSUME NEW c \in Calls, NEW k, NEW h, NEW perm, AuthenticateKey(c, k, h, perm)
      PROVE  GateInv'
  <2>1. CallInv'
    BY <1>0, <1>8, AuthenticateKeyCalls
  <2> QED
    BY <1>8, <2>1, CallStepFrame DEF AuthenticateKey
<1>9. ASSUME NEW c \in Calls, NEW token \in tokens, NEW h, NEW perm, AuthenticateBearer(c, token, h, perm)
      PROVE  GateInv'
  <2>1. CallInv'
    BY <1>0, <1>9, AuthenticateBearerCalls
  <2> QED
    BY <1>9, <2>1, CallStepFrame DEF AuthenticateBearer
<1>10. ASSUME NEW c \in Calls, ReadMemberships(c)
       PROVE  GateInv'
  BY <1>0, <1>10, ReadMembershipsCalls, CallStepFrame DEF ReadMemberships
<1>11. ASSUME NEW c \in Calls, BindTenant(c)
       PROVE  GateInv'
  BY <1>0, <1>11, BindTenantCalls, CallStepFrame DEF BindTenant
<1>12. ASSUME NEW c \in Calls, ListTenants(c)
       PROVE  GateInv'
  BY <1>0, <1>12, ListTenantsCalls, CallStepFrame DEF ListTenants
<1>13. ASSUME NEW c \in Calls, SubmitAction(c)
       PROVE  GateInv'
  BY <1>0, <1>13, SubmitActionCalls, CallStepFrame DEF SubmitAction
<1>14. ASSUME NEW c \in Calls, Finish(c)
       PROVE  GateInv'
  <2>1. CallInv'
    BY <1>0, <1>14, IdleOK, OneCall DEF Finish
  <2> QED
    BY <1>14, <2>1, CallStepFrame DEF Finish
<1> QED
  BY <1>1, <1>2, <1>3, <1>4, <1>5, <1>6, <1>7, <1>8, <1>9, <1>10, <1>11, <1>12, <1>13, <1>14
     DEF GateNext, AccessNext

(* The inductive invariant holds in every behaviour, for any number of     *)
(* requests, processes, operators, keys and bodies.                        *)
THEOREM GateInvariant == GateSpec => []GateInv
  BY GateInit, GateStep, PTL DEF GateSpec

---------------------------------------------------------------------------
(* The broker: what a submitted request can come to.                       *)

(* A registered action is known by its set.                                *)
LEMMA Actions ==
    ASSUME NEW a \in Registered
    PROVE  /\ a \notin Forbidden \cup Destructive \cup AiActions
           /\ read_only(a) <=> a \notin Containments
           /\ a \notin Containments => tier(a) = 0 /\ evaluate_action(a) = "ALLOW"
           /\ a \in Containments =>
                /\ tier(a) = 2 /\ evaluate_action(a) = "REQUIRE_APPROVAL"
                /\ language(a) = "python"
           /\ a \in WindowsCollection \cup LinuxCollection =>
                a \notin Containments /\ required_permission(a) = "response:tier0"
           /\ a \notin WindowsCollection \cup LinuxCollection =>
                language(a) \notin {"powershell", "bash"}
<1>1. a \notin Forbidden \cup Destructive \cup AiActions
  BY DEF Registered, Forbidden, Destructive, AiActions, WindowsCollection, LinuxCollection,
         Analyses, Containments
<1>2. read_only(a) <=> a \notin Containments
  BY DEF read_only
<1>3. a \notin Containments => tier(a) = 0 /\ evaluate_action(a) = "ALLOW"
  BY DEF tier, evaluate_action, Containments
<1>4. a \in Containments => tier(a) = 2 /\ evaluate_action(a) = "REQUIRE_APPROVAL"
  BY DEF tier, evaluate_action, Containments
<1>5. a \in Containments => language(a) = "python"
  BY DEF language, Containments, WindowsCollection, LinuxCollection
<1>6. a \in WindowsCollection \cup LinuxCollection =>
                a \notin Containments /\ required_permission(a) = "response:tier0"
  BY DEF required_permission, Containments, WindowsCollection, LinuxCollection
<1>7. a \notin WindowsCollection \cup LinuxCollection =>
                language(a) \notin {"powershell", "bash"}
  BY DEF language, Registered, Analyses, Containments
<1> QED
  BY <1>1, <1>2, <1>3, <1>4, <1>5, <1>6, <1>7

Reasons == {"destructive", "ai authority", "ai requested", "dry run"}
           \cup {"collection", "tier 2", "production", "containment"} \cup GuardedDomains
RuleOK(d, v) ==
    /\ v \in Decisions \X Reasons
    /\ v[1] = "DENY" => d.type \in Destructive \/ d.type \in AiActions \/ d.ai
    /\ v[1] = "ALLOW" => d.read_only
    /\ v[1] = "REQUIRE_APPROVAL" => d.tier >= 2 \/ ~d.read_only

(* What a value of core.rego says about the document.                      *)
LEMMA RuleFacts ==
    ASSUME NEW d, NEW v \in opa_rules(d)
    PROVE  RuleOK(d, v)
<1>1. CASE v \in Value(d.type \in Destructive, "DENY", "destructive")
  <2>1. v = <<"DENY", "destructive">> /\ (d.type \in Destructive)
    BY <1>1 DEF Value
  <2> QED
    BY <2>1 DEF RuleOK, Decisions, Reasons
<1>2. CASE v \in Value(d.type \in AiActions, "DENY", "ai authority")
  <2>1. v = <<"DENY", "ai authority">> /\ (d.type \in AiActions)
    BY <1>2 DEF Value
  <2> QED
    BY <2>1 DEF RuleOK, Decisions, Reasons
<1>3. CASE v \in Value(d.ai, "DENY", "ai requested")
  <2>1. v = <<"DENY", "ai requested">> /\ (d.ai)
    BY <1>3 DEF Value
  <2> QED
    BY <2>1 DEF RuleOK, Decisions, Reasons
<1>4. CASE v \in Value(d.dry_run /\ d.read_only, "ALLOW", "dry run")
  <2>1. v = <<"ALLOW", "dry run">> /\ (d.dry_run /\ d.read_only)
    BY <1>4 DEF Value
  <2> QED
    BY <2>1 DEF RuleOK, Decisions, Reasons
<1>5. CASE v \in Value(d.read_only /\ d.tier = 0, "ALLOW", "collection")
  <2>1. v = <<"ALLOW", "collection">> /\ (d.read_only /\ d.tier = 0)
    BY <1>5 DEF Value
  <2> QED
    BY <2>1 DEF RuleOK, Decisions, Reasons
<1>6. CASE v \in Value(d.tier >= 2, "REQUIRE_APPROVAL", "tier 2")
  <2>1. v = <<"REQUIRE_APPROVAL", "tier 2">> /\ (d.tier >= 2)
    BY <1>6 DEF Value
  <2> QED
    BY <2>1 DEF RuleOK, Decisions, Reasons
<1>7. CASE v \in Value(~d.read_only /\ d.environment = "production", "REQUIRE_APPROVAL", "production")
  <2>1. v = <<"REQUIRE_APPROVAL", "production">> /\ (~d.read_only /\ d.environment = "production")
    BY <1>7 DEF Value
  <2> QED
    BY <2>1 DEF RuleOK, Decisions, Reasons
<1>8. CASE v \in Value(~d.read_only /\ (~d.auto \/ d.confidence < 95), "REQUIRE_APPROVAL", "containment")
  <2>1. v = <<"REQUIRE_APPROVAL", "containment">> /\ (~d.read_only /\ (~d.auto \/ d.confidence < 95))
    BY <1>8 DEF Value
  <2> QED
    BY <2>1 DEF RuleOK, Decisions, Reasons
<1>9. CASE v \in domain_rules(d)
  <2>1. PICK g \in GuardedDomains : v = <<"REQUIRE_APPROVAL", g>> /\ ~d.read_only
    BY <1>9 DEF domain_rules, Value
  <2>2. g \in Reasons
    BY DEF Reasons
  <2> QED
    BY <2>1, <2>2 DEF RuleOK, Decisions
<1> QED
  BY <1>1, <1>2, <1>3, <1>4, <1>5, <1>6, <1>7, <1>8, <1>9, Zenon DEF opa_rules

(* Rules that are known to hold.                                           *)
LEMMA RulesThatHold ==
    ASSUME NEW d
    PROVE  /\ d.type \in Destructive => <<"DENY", "destructive">> \in opa_rules(d)
           /\ d.type \in AiActions => <<"DENY", "ai authority">> \in opa_rules(d)
           /\ d.read_only /\ d.tier = 0 => <<"ALLOW", "collection">> \in opa_rules(d)
           /\ d.tier >= 2 => <<"REQUIRE_APPROVAL", "tier 2">> \in opa_rules(d)
  BY DEF opa_rules, Value

(* Sets of four strings.                                                   *)
LEMMA FiniteFour == \A a, b, c, d : IsFiniteSet({a, b, c, d})
<1> TAKE a, b, c, d
<1>1. IsFiniteSet({a}) /\ IsFiniteSet({b}) /\ IsFiniteSet({c}) /\ IsFiniteSet({d})
  BY FS_Singleton
<1>2. IsFiniteSet({a} \cup {b}) /\ IsFiniteSet({c} \cup {d})
  BY <1>1, FS_Union
<1>3. IsFiniteSet(({a} \cup {b}) \cup ({c} \cup {d}))
  BY <1>2, FS_Union
<1>4. ({a} \cup {b}) \cup ({c} \cup {d}) = {a, b, c, d}
  OBVIOUS
<1> QED
  BY <1>3, <1>4

(* core.rego has finitely many values.                                     *)
LEMMA RulesFinite == \A d : IsFiniteSet(opa_rules(d))
<1> SUFFICES ASSUME NEW d PROVE IsFiniteSet(opa_rules(d))
  OBVIOUS
<1>1. IsFiniteSet(Decisions)
  <2>1. Decisions = {"ALLOW", "REQUIRE_APPROVAL", "DENY", "DENY"}
    BY DEF Decisions
  <2> QED
    BY <2>1, FiniteFour
<1> DEFINE A == {"destructive", "ai authority", "ai requested", "dry run"}
           B == {"collection", "tier 2", "production", "containment"}
           C == {"identity", "endpoint", "network", "cloud"}
           D == {"tenant", "tenant", "tenant", "tenant"}
<1>2. IsFiniteSet(A) /\ IsFiniteSet(B) /\ IsFiniteSet(C) /\ IsFiniteSet(D)
  BY FiniteFour
<1>3. Reasons = (A \cup B) \cup (C \cup D)
  BY DEF Reasons, GuardedDomains
<1> HIDE DEF A, B, C, D
<1>4. IsFiniteSet(A \cup B) /\ IsFiniteSet(C \cup D)
  BY <1>2, FS_Union
<1>5. IsFiniteSet((A \cup B) \cup (C \cup D))
  BY <1>4, FS_Union
<1>6. IsFiniteSet(Decisions \X Reasons)
  BY <1>1, <1>3, <1>5, FS_Product
<1>7. opa_rules(d) \subseteq Decisions \X Reasons
  BY RuleFacts DEF RuleOK
<1> QED
  BY <1>6, <1>7, FS_Subset

(* Without a conflict the rules that hold give one value.                  *)
LEMMA NoConflict ==
    ASSUME NEW d, ~OpaConflict(d), NEW v \in opa_rules(d)
    PROVE  OpaDecision(d) = v[1]
<1> DEFINE S == opa_rules(d)
<1>1. IsFiniteSet(S) /\ Cardinality(S) \in Nat
  BY RulesFinite, FS_CardinalityType
<1>2. Cardinality(S) <= 1
  BY <1>1 DEF OpaConflict
<1>3. IsFiniteSet(S \ {v}) /\ Cardinality(S \ {v}) = Cardinality(S) - 1
  BY <1>1, FS_RemoveElement
<1>4. Cardinality(S \ {v}) \in Nat
  BY <1>3, FS_CardinalityType
<1>5. Cardinality(S \ {v}) = 0
  BY <1>1, <1>2, <1>3, <1>4
<1>6. S \ {v} = {}
  BY <1>3, <1>5, FS_EmptySet
<1>7. (CHOOSE w \in S : TRUE) \in S
  OBVIOUS
<1>8. (CHOOSE w \in S : TRUE) = v
  BY <1>6, <1>7
<1> QED
  BY <1>8 DEF OpaDecision

(* What the policy decides for a registered action, whatever the engine.   *)
Policy(a) == IF a \in Containments THEN "REQUIRE_APPROVAL" ELSE "ALLOW"

(* The document of a registered action is of one of two kinds.             *)
LEMMA DocumentOf ==
    ASSUME NEW q, q.action \in Registered
    PROVE  LET d == Document(q)
           IN  /\ d.type \notin Destructive \cup AiActions /\ ~d.ai
               /\ q.action \in Containments => d.tier = 2 /\ ~d.read_only
               /\ q.action \notin Containments => d.tier = 0 /\ d.read_only
<1>1. /\ Document(q).type = q.action /\ Document(q).ai = FALSE
      /\ Document(q).tier = tier(q.action) /\ Document(q).read_only = read_only(q.action)
  BY DEF Document
<1> QED
  BY <1>1, Actions

(* The Python subset on a registered action (_subset_evaluate).            *)
LEMMA SubsetDecides ==
    ASSUME NEW q, q.action \in Registered
    PROVE  subset_evaluate(Document(q)) = Policy(q.action)
<1> DEFINE d == Document(q)
<1>1. d.type \notin Destructive \cup AiActions /\ ~d.ai
  BY DocumentOf
<1> HIDE DEF d
<1>2. CASE q.action \in Containments
  <2>1. d.tier = 2 /\ ~d.read_only
    BY <1>2, DocumentOf DEF d
  <2> QED
    BY <1>1, <1>2, <2>1 DEF subset_evaluate, Policy, d
<1>3. CASE q.action \notin Containments
  <2>1. d.tier = 0 /\ d.read_only
    BY <1>3, DocumentOf DEF d
  <2> QED
    BY <1>1, <1>3, <2>1 DEF subset_evaluate, Policy, d
<1> QED
  BY <1>2, <1>3

(* Every rule of core.rego that holds for a registered action says the     *)
(* same, and one does hold.                                                *)
LEMMA RulesAgree ==
    ASSUME NEW q, q.action \in Registered
    PROVE  /\ \A v \in opa_rules(Document(q)) : v[1] = Policy(q.action)
           /\ opa_rules(Document(q)) # {}
<1> DEFINE d == Document(q)
<1>1. d.type \notin Destructive /\ d.type \notin AiActions /\ ~d.ai
  BY DocumentOf
<1> HIDE DEF d
<1>2. CASE q.action \in Containments
  <2>1. d.tier = 2 /\ ~d.read_only
    BY <1>2, DocumentOf DEF d
  <2>0. d.tier >= 2
    BY <2>1
  <2>2. <<"REQUIRE_APPROVAL", "tier 2">> \in opa_rules(d)
    BY <2>0, RulesThatHold
  <2>3. ASSUME NEW v \in opa_rules(d)
        PROVE  v[1] = "REQUIRE_APPROVAL"
    <3>1. RuleOK(d, v)
      BY RuleFacts
    <3> QED
      BY <1>1, <2>1, <3>1 DEF RuleOK, Decisions
  <2> QED
    BY <1>2, <2>2, <2>3 DEF Policy, d
<1>3. CASE q.action \notin Containments
  <2>1. d.tier = 0 /\ d.read_only
    BY <1>3, DocumentOf DEF d
  <2>2. <<"ALLOW", "collection">> \in opa_rules(d)
    BY <2>1, RulesThatHold
  <2>3. ASSUME NEW v \in opa_rules(d)
        PROVE  v[1] = "ALLOW"
    <3>1. RuleOK(d, v)
      BY RuleFacts
    <3> QED
      BY <1>1, <2>1, <3>1 DEF RuleOK, Decisions
  <2> QED
    BY <1>3, <2>2, <2>3 DEF Policy, d
<1> QED
  BY <1>2, <1>3

(* The decision depends on the action alone (evaluate, submit).            *)
LEMMA PolicyDecides ==
    ASSUME NEW q, q.action \in Registered, NEW opa
    PROVE  Decide(q, opa) = Policy(q.action)
<1>1. evaluate(Document(q), opa) = Policy(q.action)
  <2>1. CASE opa # "answers" \/ OpaConflict(Document(q))
    BY <2>1, SubsetDecides DEF evaluate
  <2>2. CASE ~(opa # "answers" \/ OpaConflict(Document(q)))
    <3>1. PICK v \in opa_rules(Document(q)) : v[1] = Policy(q.action)
      BY RulesAgree
    <3>2. OpaDecision(Document(q)) = v[1]
      BY <2>2, NoConflict
    <3> QED
      BY <2>2, <3>1, <3>2 DEF evaluate
  <2> QED
    BY <2>1, <2>2
<1> QED
  BY <1>1, Actions DEF Decide, Policy

(* What submit answers to a request that is not refused.                   *)
LEMMA SubmitAnswers ==
    ASSUME NEW q, NEW opa, NEW x \in submit(q, opa), q.dry_run \in BOOLEAN
    PROVE  /\ x.outcome # "none" =>
                /\ Refusal(q) = "none" /\ x.outcome \in Outcomes(q)
                /\ q.action \notin Containments \/ q.dry_run
           /\ Refusal(q) = "none" /\ q.action \in Containments =>
                x.status = IF q.dry_run THEN "planned" ELSE "awaiting_approval"
<1> DEFINE Ended(o) == IF o \in {"timeout", "raised"} THEN "exception"
                       ELSE IF q.dry_run THEN "planned" ELSE o
<1>1. CASE Refusal(q) # "none"
  BY <1>1 DEF submit, Answer
<1>2. CASE Refusal(q) = "none"
  <2>1. q.action \in Registered
    BY <1>2 DEF Refusal
  <2>2. CASE q.action \in Containments
    <3>1. Decide(q, opa) = "REQUIRE_APPROVAL"
      BY <2>1, <2>2, PolicyDecides DEF Policy
    <3>2. language(q.action) = "python"
      BY <2>1, <2>2, Actions
    <3>3. Outcomes(q) = {"executed"}
      BY <3>2 DEF Outcomes
    <3>4. CASE q.dry_run
      <4>1. submit(q, opa) = {Answer(Ended(o), "REQUIRE_APPROVAL", o) : o \in Outcomes(q)}
        BY <1>2, <3>1, <3>4 DEF submit
      <4>2. x = Answer(Ended("executed"), "REQUIRE_APPROVAL", "executed")
        BY <3>3, <4>1
      <4> QED
        BY <1>2, <3>3, <3>4, <4>2 DEF Answer
    <3>5. CASE ~q.dry_run
      <4>1. x = Answer("awaiting_approval", "REQUIRE_APPROVAL", "none")
        BY <1>2, <3>1, <3>5 DEF submit
      <4> QED
        BY <1>2, <3>5, <4>1 DEF Answer
    <3> QED
      BY <3>4, <3>5
  <2>3. CASE q.action \notin Containments
    <3>1. Decide(q, opa) = "ALLOW"
      BY <2>1, <2>3, PolicyDecides DEF Policy
    <3>2. read_only(q.action)
      BY <2>1, <2>3, Actions
    <3>3. submit(q, opa) = {Answer(Ended(o), "ALLOW", o) : o \in Outcomes(q)}
      BY <1>2, <3>1, <3>2 DEF submit
    <3>4. PICK o \in Outcomes(q) : x = Answer(Ended(o), "ALLOW", o)
      BY <3>3
    <3>5. x.outcome = o
      BY <3>4 DEF Answer
    <3> QED
      BY <1>2, <2>3, <3>5
  <2> QED
    BY <2>2, <2>3
<1> QED
  BY <1>1, <1>2

(* Advice on a proposed action: no rule of core.rego and no case of the    *)
(* subset allows it.                                                       *)
LEMMA AdviceIsSafe ==
    ASSUME NEW q, NEW opa
    PROVE  /\ evaluate(Proposal(q), opa) # "ALLOW"
           /\ q.proposed \in Destructive \cup AiActions => evaluate(Proposal(q), opa) = "DENY"
<1> DEFINE d == Proposal(q)
<1>1. d.type = q.proposed /\ ~d.read_only
  BY DEF Proposal
<1> HIDE DEF d
<1>2. CASE opa # "answers" \/ OpaConflict(d)
  <2>1. evaluate(d, opa) = subset_evaluate(d)
    BY <1>2 DEF evaluate
  <2>2. subset_evaluate(d) # "ALLOW"
    BY <1>1 DEF subset_evaluate
  <2>3. q.proposed \in Destructive \cup AiActions => subset_evaluate(d) = "DENY"
    BY <1>1 DEF subset_evaluate
  <2> QED
    BY <2>1, <2>2, <2>3 DEF d
<1>3. CASE ~(opa # "answers" \/ OpaConflict(d))
  <2>1. evaluate(d, opa) = OpaDecision(d)
    BY <1>3 DEF evaluate
  <2>2. OpaDecision(d) # "ALLOW"
    <3>1. CASE opa_rules(d) = {}
      BY <3>1 DEF OpaDecision
    <3>2. CASE opa_rules(d) # {}
      <4>1. PICK v : v \in opa_rules(d)
        BY <3>2
      <4>2. OpaDecision(d) = v[1] /\ RuleOK(d, v)
        BY <1>3, <4>1, NoConflict, RuleFacts
      <4> QED
        BY <4>2, <1>1 DEF RuleOK
    <3> QED
      BY <3>1, <3>2
  <2>3. ASSUME q.proposed \in Destructive \cup AiActions
        PROVE  OpaDecision(d) = "DENY"
    <3>1. PICK v \in opa_rules(d) : v[1] = "DENY"
      <4>1. <<"DENY", "destructive">> \in opa_rules(d) \/ <<"DENY", "ai authority">> \in opa_rules(d)
        BY <1>1, <2>3, RulesThatHold
      <4> QED
        BY <4>1
    <3> QED
      BY <1>3, <3>1, NoConflict
  <2> QED
    BY <2>1, <2>2, <2>3 DEF d
<1> QED
  BY <1>2, <1>3

---------------------------------------------------------------------------
(* The properties of the runs.                                             *)

(* A script that the broker starts rests on permissions the caller held.   *)
LEMMA ScriptsFollow ==
    ASSUME NEW a, NEW s, Authority(a, s), Submitted(a), StartsScript(a.request, a.answer.outcome)
    PROVE  LET q == a.request
               b == q.action
           IN  /\ b \in Registered /\ read_only(b) /\ ~q.dry_run
               /\ evaluate_action(b) = "ALLOW" /\ subset_evaluate(Document(q)) = "ALLOW"
               /\ \/ a.who \in s.admins
                  \/ \A t \in a.tenants :
                       {"broker:execute", required_permission(b)} \subseteq HeldPermissions(s, a.who, t)
<1> DEFINE q == a.request
           b == q.action
<1>1. /\ q.dry_run \in BOOLEAN /\ a.answer \in submit(q, a.opa)
      /\ a.answer.outcome \in {"executed", "failed", "timeout"}
      /\ language(b) \in {"powershell", "bash"}
  BY DEF Submitted, StartsScript
<1>2. Refusal(q) = "none" /\ a.answer.outcome \in Outcomes(q)
  BY <1>1, SubmitAnswers
<1>3. b \in Registered /\ {required_permission(b), "admin:platform"} \cap q.permissions # {}
  BY <1>2 DEF Refusal
<1>4. b \in WindowsCollection \cup LinuxCollection
  BY <1>1, <1>3, Actions
<1>5. b \notin Containments /\ required_permission(b) = "response:tier0"
  BY <1>3, <1>4, Actions
<1>6. read_only(b) /\ evaluate_action(b) = "ALLOW"
  BY <1>3, <1>5, Actions
<1>7. subset_evaluate(Document(q)) = "ALLOW"
  BY <1>3, <1>5, SubsetDecides DEF Policy
<1>8. ~q.dry_run
  <2>1. Outcomes(q) = {"skipped"} \cup IF q.dry_run THEN {"planned"}
                                       ELSE {"executed", "failed", "timeout", "raised"}
    BY <1>1 DEF Outcomes
  <2> QED
    BY <1>1, <1>2, <2>1
<1>9. ASSUME a.who \notin s.admins, NEW t \in a.tenants
      PROVE  {"broker:execute", required_permission(b)} \subseteq HeldPermissions(s, a.who, t)
  <2>1. "broker:execute" \in HeldPermissions(s, a.who, t) /\ q.permissions \subseteq HeldPermissions(s, a.who, t)
    BY <1>9 DEF Authority
  <2>2. CASE required_permission(b) \in q.permissions
    BY <2>1, <2>2
  <2>3. CASE "admin:platform" \in q.permissions
    <3>1. PICK r \in Held(s, a.who, t) : "admin:platform" \in ROLE_CATALOG[r]
      BY <2>1, <2>3 DEF HeldPermissions
    <3>2. r = "platform_super_admin"
      BY <3>1, Catalogue DEF Held
    <3>3. "response:tier0" \in ADMIN_PERMS
      BY DEF ADMIN_PERMS, RESPONDER_PERMS
    <3>4. "response:tier0" \in HeldPermissions(s, a.who, t)
      BY <3>1, <3>2, <3>3, Catalogue DEF HeldPermissions
    <3> QED
      BY <2>1, <3>4, <1>5
  <2> QED
    BY <1>3, <2>2, <2>3
<1> QED
  BY <1>3, <1>6, <1>7, <1>8, <1>9

(* The invariant implies what the runs check.                              *)
LEMMA GateSafety ==
    ASSUME GateInv
    PROVE  HandlersAuthorized /\ ActionsAuthorized /\ PolicySound /\ StartsSound
<1>1. HandlersAuthorized
  <2> SUFFICES ASSUME NEW c \in Calls, call[c].pc = "run"
               PROVE  LET a == call[c]
                          Grants(t) == {r \in Roles : <<a.who, t, r>> \in saw[c].grants}
                      IN  IF a.by = "api_key"
                          THEN /\ a.who \in saw[c].keys
                               /\ a.tenants \subseteq {KeyTenant[a.who]}
                               /\ a.perm \in DETECTION_ENGINEER_PERMS \cup {"none"}
                          ELSE /\ a.who \in saw[c].active \cap saw[c].bearers
                               /\ \/ a.who \in saw[c].admins
                                  \/ \A t \in a.tenants :
                                        \E r \in Grants(t) : a.perm \in ROLE_CATALOG[r] \cup {"none"}
    BY DEF HandlersAuthorized
  <2>1. Authenticated(call[c], saw[c]) /\ Running(call[c], saw[c])
    BY DEF GateInv, CallInv, CallOK
  <2> QED
    BY <2>1 DEF Authenticated, Running, Held
<1>2. ASSUME NEW c \in Answered
      PROVE  Authority(call[c], saw[c]) /\ Submitted(call[c])
  BY DEF Answered, GateInv, CallInv, CallOK
<1>3. ScriptsAuthorized
  BY <1>2, ScriptsFollow DEF ScriptsAuthorized, HeldPermissions, Held
<1>4. ContainmentWaits
  BY <1>2, SubmitAnswers DEF ContainmentWaits, Submitted
<1>5. EngineNeutral
  <2>1. ASSUME NEW q, Refusal(q) = "none"
        PROVE  \A opa : Decide(q, opa) = Decide(q, "absent")
    <3>1. q.action \in Registered
      BY <2>1 DEF Refusal
    <3> QED
      BY <3>1, PolicyDecides
  <2> QED
    BY <2>1 DEF EngineNeutral
<1>6. AdviceSafe
  BY AdviceIsSafe DEF AdviceSafe
<1>7. StartsSound
  BY DEF StartsSound, AccessTypeOK, SeededOnce, StartFailsOnlyInRace, GateInv, RowTypes, UserRow,
         CallInv, CallOK, StartInv, StartOK, Starting
<1> QED
  BY <1>1, <1>3, <1>4, <1>5, <1>6, <1>7 DEF ActionsAuthorized, PolicySound

(* get_actor, bind_tenant and Permission: however edits, restarts and      *)
(* expiring tokens fall between their reads, a handler runs only on        *)
(* authority its caller had during the request.                            *)
THEOREM HandlersAreAuthorized == GateSpec => []HandlersAuthorized
  BY GateInvariant, GateSafety, PTL

(* ExecutionBroker.submit behind POST /broker/actions: scripts are started *)
(* only on roles that were held and with both policies, containment always *)
(* waits for an approval.                                                  *)
THEOREM ActionsAreAuthorized == GateSpec => []ActionsAuthorized
  BY GateInvariant, GateSafety, PTL

(* rego-engine evaluate: for every registered action core.rego and the     *)
(* Python subset decide the same, and for no body does policy.evaluate     *)
(* advise to act unattended.                                               *)
THEOREM PolicyIsSound == GateSpec => []PolicySound
  BY GateInvariant, GateSafety, PTL

(* seed_if_empty and ensure_dev_credentials: however many processes start, *)
(* the seed is written once and a start fails only after losing a race.    *)
THEOREM StartsAreSound == GateSpec => []StartsSound
  BY GateInvariant, GateSafety, PTL

(* Only its own commit takes a start to "up".                              *)
LEMMA UpByCommit ==
    ASSUME GateInv, [GateNext]_accessVars, NEW p \in Processes,
           process[p].pc \in {"align", "create"}, process'[p].pc = "up"
    PROVE  CommitStart(p)
<1>0. DOMAIN process = Processes
  BY DEF GateInv, StartInv
<1>1. process' # process
  OBVIOUS
<1>2. ASSUME NEW q \in Processes, NEW o, NEW dev, StartProcess(q, o, dev)
      PROVE  FALSE
  <2>1. q # p
    BY <1>2 DEF StartProcess
  <2>2. process'[p] = process[p]
    BY <1>0, <1>2, <2>1 DEF StartProcess
  <2> QED
    BY <2>2
<1>3. ASSUME NEW q \in Processes, Seed(q) \/ StopProcess(q)
      PROVE  FALSE
  <2>1. q # p
    BY <1>3 DEF Seed, StopProcess
  <2>2. process'[p] = process[p]
    BY <1>0, <1>3, <2>1 DEF Seed, StopProcess
  <2> QED
    BY <2>2
<1>4. ASSUME NEW q \in Processes, CommitStart(q)
      PROVE  q = p
  <2> SUFFICES ASSUME q # p PROVE FALSE
    OBVIOUS
  <2>1. CASE StartClash(process[q])
    <3>1. process'[p] = process[p]
      BY <1>0, <1>4, <2>1, CommitStartCases
    <3> QED
      BY <3>1
  <2>2. CASE ~StartClash(process[q])
    <3>1. process[p] \in StartRecord
      BY DEF GateInv, StartInv, StartOK, Starting
    <3>2. process'[p] = [process[p] EXCEPT !.raced = TRUE]
      <4>1. process' = [r \in Processes |->
                         IF r = q THEN [pc |-> "up"]
                         ELSE IF process[r].pc \in Starting
                         THEN [process[r] EXCEPT !.raced = TRUE]
                         ELSE process[r]]
        BY <1>4, <2>2, CommitStartCases
      <4>2. process[p].pc \in Starting
        BY DEF Starting
      <4> QED
        BY <4>1, <4>2
    <3>3. process'[p].pc = process[p].pc
      BY <3>1, <3>2 DEF StartRecord
    <3> QED
      BY <3>3
  <2> QED
    BY <2>1, <2>2
<1>5. ASSUME Edit \/ Tick \/ \E e \in Edited : Login(e)
      PROVE  FALSE
  BY <1>1, <1>5 DEF Edit, Tick, Login
<1>6. ASSUME NEW c \in Calls, NEW h, NEW perm,
             \/ \E k \in Keys : AuthenticateKey(c, k, h, perm)
             \/ \E token \in tokens : AuthenticateBearer(c, token, h, perm)
      PROVE  FALSE
  BY <1>1, <1>6 DEF AuthenticateKey, AuthenticateBearer
<1>7. ASSUME NEW c \in Calls,
             \/ ReadMemberships(c) \/ BindTenant(c) \/ ListTenants(c)
             \/ SubmitAction(c) \/ Finish(c)
      PROVE  FALSE
  BY <1>1, <1>7 DEF ReadMemberships, BindTenant, ListTenants, SubmitAction, Finish
<1>8. CASE UNCHANGED accessVars
  BY <1>1, <1>8 DEF accessVars
<1> QED
  BY <1>2, <1>3, <1>4, <1>5, <1>6, <1>7, <1>8 DEF GateNext, AccessNext

(* What the commit of a start changes in a database that has tenants.      *)
LEMMA StartChanges ==
    ASSUME GateInv, [GateNext]_accessVars, NEW p \in Processes,
           process[p].pc \in {"align", "create"}, process'[p].pc = "up", tenants # {}
    PROVE  /\ \A e \in Emails \ {process[p].operator} : users'[e] = users[e]
           /\ memberships \subseteq memberships'
           /\ \A m \in memberships' \ memberships : m[1] = process[p].operator /\ ~Has(m[1])
<1> DEFINE s == process[p]
<1>1. CommitStart(p)
  BY UpByCommit
<1>2. ~StartClash(s)
  <2> SUFFICES ASSUME StartClash(s) PROVE FALSE
    OBVIOUS
  <2>1. process'[p].pc = "failed"
    BY <1>1, CommitStartCases DEF GateInv, StartInv
  <2> QED
    BY <2>1
<1>3. s \in StartRecord
  BY DEF GateInv, StartInv, StartOK, Starting
<1>4. ~s.empty
  BY <1>2 DEF StartClash, SeedClash
<1>5. NewAccounts(s) = {}
  BY <1>4 DEF NewAccounts
<1>6. \A e \in Emails : SeededUsers(s)[e] = users[e]
  BY <1>5 DEF SeededUsers
<1>7. \A e \in Emails \ {s.operator} : users'[e] = users[e]
  <2>1. users' = Ensured(s.operator, SeededUsers(s))
    BY <1>1, <1>2, CommitStartCases
  <2>2. DOMAIN SeededUsers(s) = Emails
    BY DEF SeededUsers
  <2> QED
    BY <1>6, <2>1, <2>2 DEF Ensured
<1>8. memberships' = memberships \cup CreatedMembers(s)
  <2>1. SeededMembers(s) = {}
    BY <1>5 DEF SeededMembers
  <2> QED
    BY <1>1, <1>2, <2>1, CommitStartCases
<1>9. ASSUME NEW m \in CreatedMembers(s)
      PROVE  m[1] = s.operator /\ ~Has(m[1])
  <2>1. m[1] = s.operator /\ s.pc = "create"
    BY DEF CreatedMembers
  <2> QED
    BY <2>1, <1>2 DEF StartClash
<1> QED
  BY <1>7, <1>8, <1>9

(* ensure_dev_credentials: on a database with tenants a start changes the  *)
(* row of its operator alone, and gives memberships only to one it creates. *)
THEOREM StartsChangeOperatorOnly == GateSpec => StartChangesOperatorOnly
<1>1. GateInv /\ [GateNext]_accessVars =>
         [\A p \in Processes :
             process[p].pc \in {"align", "create"} /\ process'[p].pc = "up" /\ tenants # {} =>
                /\ \A e \in Emails \ {process[p].operator} : users'[e] = users[e]
                /\ memberships \subseteq memberships'
                /\ \A m \in memberships' \ memberships :
                      m[1] = process[p].operator /\ ~Has(m[1])]_accessVars
  BY StartChanges
<1> QED
  BY <1>1, GateInvariant, PTL DEF GateSpec, StartChangesOperatorOnly
=============================================================================
