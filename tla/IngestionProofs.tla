--------------------------- MODULE IngestionProofs ---------------------------
(***************************************************************************)
(* Proofs about Ingestion for any batches, rules and storylines, and any   *)
(* number of requests that overlap.  The inductive invariant says of each  *)
(* request's transaction what it may add to the tables; the loops of       *)
(* correlate and persist_storylines_and_incidents are folds, about which   *)
(* FoldLaws is instantiated with their bodies.                             *)
(***************************************************************************)
EXTENDS Ingestion, FiniteSetTheorems, SequenceTheorems, TLAPS

Telling == INSTANCE FoldLaws WITH Op <- Tell
Persisting == INSTANCE FoldLaws WITH Op <- PersistStory

-----------------------------------------------------------------------------
(* The inductive invariant                                                  *)
Payloads == Events \cup Bad
Own == Events \ Foreign

Rows ==
  [events : Seq(Own), dead : SUBSET (Bad \cup Foreign), findings : SUBSET Findings, evidence : [Events -> Nat],
   incidents : SUBSET Fingerprints, stories : [Fingerprints -> Nat], graph : SUBSET Entities, sightings : Nat]

Transactions ==
  [pc : Labels, batch : Seq(Payloads), left : Seq(Payloads),
   events : Seq(Own), dead : SUBSET (Bad \cup Foreign), findings : SUBSET Findings, evidence : [Events -> Nat],
   incidents : SUBSET Fingerprints, stories : [Fingerprints -> Nat],
   removed : SUBSET Entities, entities : SUBSET Entities, sightings : Nat \cup {-1}, locked : BOOLEAN]

Types ==
  /\ db \in Rows
  /\ tx \in [Requests -> Transactions]
  /\ served \in 0..MaxRequests
  /\ suppressed \subseteq Findings
  /\ projected \subseteq Own
  /\ serial \in BOOLEAN

\* The payloads of a batch: still to come, dead letters, or stored.
Placed(t) ==
  /\ Range(t.batch) \subseteq Range(t.left) \cup t.dead \cup Range(t.events) \cup Range(db.events)
  /\ t.pc \in {"sighting", "check", "evaluate"} => t.left # <<>> /\ Head(t.left) \in Events
  /\ t.pc = "evaluate" => Head(t.left) \in Range(t.events)
  /\ t.pc \in {"idle", "scheduled", "graph", "stories", "commit"} => t.left = <<>>
  /\ t.pc \in {"idle", "scheduled"} => t.events = <<>>

\* The events of a transaction are new and distinct.
Fresh(t) == IsInjective(t.events) /\ Range(t.events) \cap Range(db.events) = {}

\* The graph a transaction writes: that of its events and of stored ones.
Drawn(t) ==
  /\ t.removed \subseteq t.entities /\ t.entities \subseteq db.graph \cup GraphOf(Range(t.events))
  /\ t.pc \in {"stories", "commit"} => GraphOf(Range(t.events)) \subseteq t.entities

\* The findings of a transaction rest on events with evidence.
Evident(t) ==
  \A e \in EventsOf(t.findings) :
    e \in Range(db.events) \cup Range(t.events) /\ e \in Events /\ db.evidence[e] + t.evidence[e] > 0

Told(x, fs) == \E i \in DOMAIN StoryDefs : StoryDefs[i].fp = x /\ StoryDefs[i].needs \subseteq fs

\* Its incidents come with a storyline, and its storylines with an incident.
Founded(t) ==
  \A x \in Fingerprints :
    /\ x \in t.incidents => t.stories[x] > 0 /\ Told(x, db.findings \cup t.findings)
    /\ t.stories[x] > 0 => x \in t.incidents \cup db.incidents

Sound(t) == Placed(t) /\ Fresh(t) /\ Drawn(t) /\ Evident(t) /\ Founded(t)

\* No event is in two transactions.
Apart == \A r, q \in Requests : r # q => Range(tx[r].events) \cap Range(tx[q].events) = {}

IInv ==
  /\ Types /\ AcceptedOnce /\ AnsweredKept /\ GraphComplete /\ ClaimsHaveEvidence /\ Apart
  /\ \A r \in Requests : Sound(tx[r])

-----------------------------------------------------------------------------
(* Lists                                                                    *)

LEMMA HeadTail ==
  ASSUME NEW S, NEW q \in Seq(S), q # <<>>
  PROVE  Head(q) \in S /\ Tail(q) \in Seq(S) /\ Range(q) = {Head(q)} \cup Range(Tail(q))
<1> PICK n, r : n = Len(q) /\ r = Tail(q)
  OBVIOUS
<1>1. /\ n \in Nat /\ n > 0 /\ DOMAIN q = 1..n /\ Head(q) = q[1] /\ 1 \in 1..n /\ q[1] \in S
      /\ r \in Seq(S) /\ DOMAIN r = 1..(n - 1) /\ \A i \in 1..(n - 1) : r[i] = q[i + 1]
  OBVIOUS
<1>2. (\A i \in 1..(n - 1) : i + 1 \in 1..n) /\ \A i \in 1..n : i # 1 => i - 1 \in 1..(n - 1) /\ (i - 1) + 1 = i
  BY <1>1
<1>3. \A x \in Range(q) : x \in {q[1]} \cup Range(r)
  <2> SUFFICES ASSUME NEW x \in Range(q), x # q[1] PROVE x \in Range(r)
    OBVIOUS
  <2>1. PICK i \in 1..n : x = q[i]
    BY <1>1 DEF Range
  <2>2. i - 1 \in 1..(n - 1) /\ r[i - 1] = x
    BY <1>1, <1>2, <2>1
  <2>3. QED
    BY <1>1, <2>2 DEF Range
<1>4. \A x \in Range(r) : x \in Range(q)
  BY <1>1, <1>2 DEF Range
<1>5. q[1] \in Range(q)
  BY <1>1 DEF Range
<1>6. QED
  BY <1>1, <1>3, <1>4, <1>5

LEMMA AppendNew ==
  ASSUME NEW S, NEW q \in Seq(S), NEW e \in S
  PROVE  /\ Append(q, e) \in Seq(S) /\ Append(q, e) # <<>> /\ Range(Append(q, e)) = Range(q) \cup {e}
         /\ IsInjective(q) /\ e \notin Range(q) => IsInjective(Append(q, e))
<1> PICK n, r : n = Len(q) /\ r = Append(q, e)
  OBVIOUS
<1>1. /\ n \in Nat /\ DOMAIN q = 1..n /\ r \in Seq(S) /\ r # <<>> /\ DOMAIN r = 1..(n + 1)
      /\ (\A i \in 1..n : r[i] = q[i]) /\ r[n + 1] = e
  OBVIOUS
<1>2. /\ \A i \in 1..(n + 1) : i \in 1..n \/ i = n + 1
      /\ \A i \in 1..n : i \in 1..(n + 1)
      /\ n + 1 \in 1..(n + 1)
  BY <1>1
<1>3. Range(r) = Range(q) \cup {e}
  <2>1. \A x \in Range(r) : x \in Range(q) \cup {e}
    BY <1>1, <1>2 DEF Range
  <2>2. \A x \in Range(q) \cup {e} : x \in Range(r)
    BY <1>1, <1>2 DEF Range
  <2>3. QED
    BY <2>1, <2>2
<1>4. ASSUME IsInjective(q), e \notin Range(q) PROVE IsInjective(r)
  <2>1. \A i \in 1..n : q[i] # e
    BY <1>1, <1>4 DEF Range
  <2>2. \A i, j \in 1..(n + 1) : r[i] = r[j] => i = j
    BY <1>1, <1>2, <1>4, <2>1 DEF IsInjective
  <2>3. QED
    BY <1>1, <2>2 DEF IsInjective
<1>5. QED
  BY <1>1, <1>3, <1>4

LEMMA ConcatNew ==
  ASSUME NEW S, NEW a \in Seq(S), NEW b \in Seq(S)
  PROVE  /\ a \o b \in Seq(S) /\ Range(a \o b) = Range(a) \cup Range(b)
         /\ IsInjective(a) /\ IsInjective(b) /\ Range(a) \cap Range(b) = {} => IsInjective(a \o b)
<1> PICK m, n, c : m = Len(a) /\ n = Len(b) /\ c = a \o b
  OBVIOUS
<1>1. /\ m \in Nat /\ n \in Nat /\ DOMAIN a = 1..m /\ DOMAIN b = 1..n /\ c \in Seq(S) /\ DOMAIN c = 1..(m + n)
      /\ \A i \in 1..(m + n) : c[i] = IF i <= m THEN a[i] ELSE b[i - m]
  BY ConcatProperties
<1>2. /\ \A i \in 1..(m + n) : (i <= m => i \in 1..m) /\ (~(i <= m) => i - m \in 1..n)
      /\ \A i \in 1..m : i \in 1..(m + n) /\ i <= m
      /\ \A i \in 1..n : i + m \in 1..(m + n) /\ ~(i + m <= m) /\ (i + m) - m = i
  BY <1>1
<1>3. \A x \in Range(c) : x \in Range(a) \cup Range(b)
  <2> SUFFICES ASSUME NEW x \in Range(c) PROVE x \in Range(a) \cup Range(b)
    OBVIOUS
  <2>1. PICK i \in 1..(m + n) : x = c[i]
    BY <1>1 DEF Range
  <2>2. CASE i <= m
    BY <1>1, <1>2, <2>1, <2>2 DEF Range
  <2>3. CASE ~(i <= m)
    BY <1>1, <1>2, <2>1, <2>3 DEF Range
  <2>4. QED
    BY <2>2, <2>3
<1>4. \A x \in Range(a) : x \in Range(c)
  BY <1>1, <1>2 DEF Range
<1>5. \A x \in Range(b) : x \in Range(c)
  <2> SUFFICES ASSUME NEW x \in Range(b) PROVE x \in Range(c)
    OBVIOUS
  <2>1. PICK i \in 1..n : x = b[i]
    BY <1>1 DEF Range
  <2>2. i + m \in 1..(m + n) /\ c[i + m] = x
    BY <1>1, <1>2, <2>1
  <2>3. QED
    BY <1>1, <2>2 DEF Range
<1>6. ASSUME IsInjective(a), IsInjective(b), Range(a) \cap Range(b) = {}
      PROVE  IsInjective(c)
  <2> SUFFICES ASSUME NEW i \in 1..(m + n), NEW j \in 1..(m + n), c[i] = c[j] PROVE i = j
    BY <1>1 DEF IsInjective
  <2>1. (\A k \in 1..m : a[k] \in Range(a)) /\ \A k \in 1..n : b[k] \in Range(b)
    BY <1>1 DEF Range
  <2>2. (\A k, l \in 1..m : a[k] = a[l] => k = l) /\ \A k, l \in 1..n : b[k] = b[l] => k = l
    BY <1>1, <1>6 DEF IsInjective
  <2>3. CASE i <= m /\ j <= m
    BY <1>1, <1>2, <2>2, <2>3
  <2>4. CASE ~(i <= m) /\ ~(j <= m)
    <3>1. PICK k, l : k = i - m /\ l = j - m
      OBVIOUS
    <3>2. k \in 1..n /\ l \in 1..n /\ i = k + m /\ j = l + m
      BY <1>1, <1>2, <2>4, <3>1
    <3>3. c[i] = b[k] /\ c[j] = b[l]
      BY <1>1, <2>4, <3>1
    <3>4. k = l
      BY <2>2, <3>2, <3>3
    <3>5. QED
      BY <3>2, <3>4
  <2>5. CASE i <= m /\ ~(j <= m)
    BY <1>1, <1>2, <1>6, <2>1, <2>5
  <2>6. CASE ~(i <= m) /\ j <= m
    BY <1>1, <1>2, <1>6, <2>1, <2>6
  <2>7. QED
    BY <2>3, <2>4, <2>5, <2>6
<1>7. QED
  BY <1>1, <1>3, <1>4, <1>5, <1>6

-----------------------------------------------------------------------------
(* Steps of one transaction                                                 *)

LEMMA InitSound == Init => IInv
<1> SUFFICES ASSUME Init PROVE IInv
  OBVIOUS
<1>1. Range(<<>>) = {} /\ IsInjective(<<>>) /\ GraphOf({}) = {} /\ EventsOf({}) = {}
  BY DEF Range, IsInjective, GraphOf, EventsOf
<1>2. Zero(Events) \in [Events -> Nat] /\ Zero(Fingerprints) \in [Fingerprints -> Nat] /\ \A x \in Fingerprints : Zero(Fingerprints)[x] = 0
  BY DEF Zero
<1>3. Idle \in Transactions
  BY <1>2 DEF Idle, NewTx, Transactions, Labels
<1>4. db \in Rows
  BY <1>2 DEF Init, Rows
<1>5. Types
  BY <1>3, <1>4, IngestionAssumption DEF Types, Init
<1>6. /\ db.events = <<>> /\ db.findings = {} /\ db.graph = {} /\ db.incidents = {} /\ db.stories = Zero(Fingerprints)
      /\ answered = {} /\ \A r \in Requests : tx[r] = Idle
  BY DEF Init
<1>7. /\ Idle.batch = <<>> /\ Idle.left = <<>> /\ Idle.events = <<>> /\ Idle.findings = {} /\ Idle.incidents = {}
      /\ Idle.stories = Zero(Fingerprints) /\ Idle.removed = {} /\ Idle.entities = {} /\ Idle.pc = "idle"
  BY DEF Idle, NewTx
<1>8. Sound(Idle)
  BY <1>1, <1>2, <1>6, <1>7 DEF Sound, Placed, Fresh, Drawn, Evident, Founded
<1>9. Apart
  BY <1>1, <1>6, <1>7 DEF Apart
<1>10. AcceptedOnce /\ AnsweredKept /\ GraphComplete /\ ClaimsHaveEvidence
  <2>1. AcceptedOnce /\ AnsweredKept /\ GraphComplete
    BY <1>1, <1>6 DEF AcceptedOnce, AnsweredKept, GraphComplete
  <2>2. ClaimsHaveEvidence
    BY <1>1, <1>2, <1>6 DEF ClaimsHaveEvidence
  <2>3. QED
    BY <2>1, <2>2
<1>11. QED
  BY <1>5, <1>6, <1>8, <1>9, <1>10 DEF IInv

\* A request that has nothing.
LEMMA IdleSound ==
  ASSUME IInv, NEW pc \in {"idle", "payload", "scheduled", "stories"}, NEW b \in Seq(Payloads), pc # "payload" => b = <<>>
  PROVE  NewTx(pc, b) \in Transactions /\ Sound(NewTx(pc, b)) /\ Range(NewTx(pc, b).events) = {}
<1> PICK t : t = NewTx(pc, b)
  OBVIOUS
<1>1. Range(<<>>) = {} /\ IsInjective(<<>>) /\ GraphOf({}) = {} /\ EventsOf({}) = {}
  BY DEF Range, IsInjective, GraphOf, EventsOf
<1>2. Zero(Events) \in [Events -> Nat] /\ Zero(Fingerprints) \in [Fingerprints -> Nat] /\ \A x \in Fingerprints : Zero(Fingerprints)[x] = 0
  BY DEF Zero
<1>3. t \in Transactions
  BY <1>2 DEF NewTx, Transactions, Labels
<1>4. /\ t.pc = pc /\ t.batch = b /\ t.left = b /\ t.events = <<>> /\ t.findings = {} /\ t.incidents = {}
      /\ t.stories = Zero(Fingerprints) /\ t.removed = {} /\ t.entities = {}
  BY DEF NewTx
<1>5. Placed(t)
  BY <1>4 DEF Placed
<1>6. Fresh(t) /\ Drawn(t)
  BY <1>1, <1>4 DEF Fresh, Drawn
<1>7. Evident(t) /\ Founded(t)
  BY <1>1, <1>2, <1>4 DEF Evident, Founded
<1>8. QED
  BY <1>1, <1>3, <1>4, <1>5, <1>6, <1>7 DEF Sound

\* The other variables keep their types.
OthersTyped == served' \in 0..MaxRequests /\ suppressed' \subseteq Findings /\ projected' \subseteq Own /\ serial' \in BOOLEAN

\* One transaction goes on, and the tables stay.
LEMMA LocalStep ==
  ASSUME IInv, NEW r \in Requests, NEW t \in Transactions, tx' = [tx EXCEPT ![r] = t], UNCHANGED <<db, answered>>,
         OthersTyped, Sound(t), \A q \in Requests : q # r => Range(t.events) \cap Range(tx[q].events) = {}
  PROVE  IInv'
<1>1. /\ DOMAIN tx = Requests /\ tx' \in [Requests -> Transactions] /\ tx'[r] = t
      /\ \A q \in Requests : q # r => tx'[q] = tx[q]
  BY DEF IInv, Types
<1>2. Types'
  BY <1>1 DEF IInv, Types, OthersTyped
<1>3. Apart'
  BY <1>1 DEF IInv, Apart
<1>4. (AcceptedOnce /\ AnsweredKept /\ GraphComplete /\ ClaimsHaveEvidence)'
  BY DEF IInv, AcceptedOnce, AnsweredKept, GraphComplete, ClaimsHaveEvidence
<1>5. ASSUME NEW u, Sound(u) PROVE Sound(u)'
  BY <1>5 DEF Sound, Placed, Fresh, Drawn, Evident, Founded
<1>6. ASSUME NEW q \in Requests PROVE Sound(tx[q])'
  <2> PICK u : u = tx'[q]
    OBVIOUS
  <2>1. Sound(u)
    BY <1>1 DEF IInv
  <2>2. Sound(u)'
    BY <2>1, <1>5
  <2>3. QED
    BY <2>2
<1>7. QED
  BY <1>2, <1>3, <1>4, <1>6 DEF IInv

\* What is known of a request's transaction.
LEMMA TxFacts ==
  ASSUME IInv, NEW r \in Requests
  PROVE  /\ tx[r] \in Transactions /\ Sound(tx[r]) /\ DOMAIN tx = Requests
         /\ \A q \in Requests : q # r => Range(tx[r].events) \cap Range(tx[q].events) = {}
BY DEF IInv, Types, Apart

\* Nothing but the transactions changes.
LEMMA QuietTyped ==
  ASSUME IInv, UNCHANGED <<served, suppressed, projected, serial>>
  PROVE  OthersTyped
BY DEF IInv, Types, OthersTyped

LEMMA BeginStep ==
  ASSUME IInv, NEW r \in Requests, NEW pc \in {"payload", "scheduled", "stories"}, NEW b \in Seq(Payloads),
         pc # "payload" => b = <<>>, Begin(r, pc, b)
  PROVE  IInv'
<1> PICK t : t = NewTx(pc, b)
  OBVIOUS
<1>1. t \in Transactions /\ Sound(t) /\ Range(t.events) = {}
  BY IdleSound
<1>2. tx' = [tx EXCEPT ![r] = t] /\ UNCHANGED <<db, answered>>
  BY DEF Begin
<1>3. OthersTyped
  <2>1. served' \in 0..MaxRequests
    BY IngestionAssumption DEF Begin, IInv, Types
  <2>2. serial' \in BOOLEAN
    BY DEF Begin
  <2>3. QED
    BY <2>1, <2>2 DEF Begin, IInv, Types, OthersTyped
<1>4. QED
  BY <1>1, <1>2, <1>3, LocalStep

LEMMA RollbackStep ==
  ASSUME IInv, NEW r \in Requests, Rollback(r)
  PROVE  IInv'
<1>1. Idle \in Transactions /\ Sound(Idle) /\ Range(Idle.events) = {}
  <2>1. <<>> \in Seq(Payloads)
    OBVIOUS
  <2>2. QED
    BY <2>1, IdleSound DEF Idle
<1>2. tx' = [tx EXCEPT ![r] = Idle] /\ UNCHANGED <<db, answered, served, suppressed, projected, serial>>
  BY DEF Rollback
<1>3. OthersTyped
  BY <1>2, QuietTyped
<1>4. PICK t : t = Idle
  OBVIOUS
<1>5. QED
  BY <1>1, <1>2, <1>3, <1>4, LocalStep

LEMMA RejectPayloadStep ==
  ASSUME IInv, NEW r \in Requests, RejectPayload(r)
  PROVE  IInv'
<1> PICK u, e : u = tx[r] /\ e = Head(u.left)
  OBVIOUS
<1> PICK t : t = [u EXCEPT !.dead = @ \cup {e}, !.left = Tail(@)]
  OBVIOUS
<1>1. u \in Transactions /\ Sound(u) /\ DOMAIN tx = Requests
  BY TxFacts
<1>2. /\ u.pc = "payload" /\ u.left # <<>> /\ e \notin Events /\ UNCHANGED <<db, answered, served, suppressed, projected, serial>>
      /\ tx' = [tx EXCEPT ![r] = t]
  BY <1>1 DEF RejectPayload, AtPayload, Payload, normalize_payload, Transactions
<1>3. u.left \in Seq(Payloads)
  BY <1>1 DEF Transactions
<1>4. e \in Payloads /\ Tail(u.left) \in Seq(Payloads) /\ Range(u.left) = {e} \cup Range(Tail(u.left))
  BY <1>2, <1>3, HeadTail
<1>5. e \in Bad
  BY <1>2, <1>4 DEF Payloads
<1>6. t \in Transactions
  BY <1>1, <1>4, <1>5 DEF Transactions
<1>7. /\ t.pc = u.pc /\ t.batch = u.batch /\ t.left = Tail(u.left) /\ t.events = u.events /\ t.dead = u.dead \cup {e}
      /\ t.findings = u.findings /\ t.evidence = u.evidence /\ t.incidents = u.incidents /\ t.stories = u.stories
      /\ t.removed = u.removed /\ t.entities = u.entities
  BY <1>1 DEF Transactions
<1>8. Placed(t)
  BY <1>1, <1>2, <1>4, <1>7 DEF Sound, Placed
<1>9. Sound(t)
  BY <1>1, <1>7, <1>8 DEF Sound, Fresh, Drawn, Evident, Founded
<1>10. OthersTyped /\ \A q \in Requests : q # r => Range(t.events) \cap Range(tx[q].events) = {}
  BY <1>2, <1>7, TxFacts, QuietTyped
<1>11. QED
  BY <1>2, <1>6, <1>9, <1>10, LocalStep

\* The label of a transaction, its count of sightings and its lock change.
LEMMA LabelStep ==
  ASSUME IInv, NEW r \in Requests, NEW t \in Transactions, tx' = [tx EXCEPT ![r] = t],
         UNCHANGED <<db, answered, served, suppressed, projected, serial>>,
         \A f \in DOMAIN t \ {"pc", "sightings", "locked"} : t[f] = tx[r][f], Placed(t), Drawn(t)
  PROVE  IInv'
<1> PICK u : u = tx[r]
  OBVIOUS
<1>1. u \in Transactions /\ Sound(u)
  BY TxFacts
<1>2. /\ t.batch = u.batch /\ t.left = u.left /\ t.events = u.events /\ t.dead = u.dead
      /\ t.findings = u.findings /\ t.evidence = u.evidence /\ t.incidents = u.incidents /\ t.stories = u.stories
      /\ t.removed = u.removed /\ t.entities = u.entities
  BY DEF Transactions
<1>3. Sound(t)
  BY <1>1, <1>2 DEF Sound, Fresh, Evident, Founded
<1>4. OthersTyped /\ \A q \in Requests : q # r => Range(t.events) \cap Range(tx[q].events) = {}
  BY <1>2, TxFacts, QuietTyped
<1>5. QED
  BY <1>3, <1>4, LocalStep

LEMMA RecordSightingStep ==
  ASSUME IInv, NEW r \in Requests, RecordSighting(r)
  PROVE  IInv'
<1> PICK u, n : u = tx[r] /\ n = (IF tx[r].sightings = -1 THEN db.sightings ELSE tx[r].sightings) + 1
  OBVIOUS
<1>1. u \in Transactions /\ Sound(u) /\ DOMAIN tx = Requests /\ db.sightings \in Nat /\ u.sightings \in Nat \cup {-1}
  <2>1. db \in Rows
    BY DEF IInv, Types
  <2>2. QED
    BY <2>1, TxFacts DEF Rows, Transactions
<1>2. n \in Nat
  BY <1>1
<1>3. /\ u.pc = "payload" /\ u.left # <<>> /\ Head(u.left) \in Events
      /\ UNCHANGED <<db, answered, served, suppressed, projected, serial>>
  BY DEF RecordSighting, AtPayload, Payload, normalize_payload
<1>4. CASE Payload(r) \in Watched
  <2> PICK t : t = [u EXCEPT !.pc = "sighting", !.sightings = n]
    OBVIOUS
  <2>1. tx' = [tx EXCEPT ![r] = t]
    BY <1>1, <1>4 DEF RecordSighting, Transactions
  <2>2. t \in Transactions
    BY <1>1, <1>2 DEF Transactions, Labels
  <2>3. t.pc = "sighting" /\ \A f \in DOMAIN t \ {"pc", "sightings", "locked"} : t[f] = u[f]
    BY <1>1 DEF Transactions
  <2>4. t.batch = u.batch /\ t.left = u.left /\ t.events = u.events /\ t.dead = u.dead /\ t.removed = u.removed /\ t.entities = u.entities
    BY <1>1 DEF Transactions
  <2>5. Placed(t) /\ Drawn(t)
    BY <1>1, <1>3, <2>3, <2>4 DEF Sound, Placed, Drawn
  <2>6. QED
    BY <1>3, <2>1, <2>2, <2>3, <2>5, LabelStep
<1>5. CASE Payload(r) \notin Watched
  <2> PICK t : t = [u EXCEPT !.pc = "check"]
    OBVIOUS
  <2>1. tx' = [tx EXCEPT ![r] = t]
    BY <1>1, <1>5 DEF RecordSighting, Goto, Transactions
  <2>2. t \in Transactions
    BY <1>1, <1>2 DEF Transactions, Labels
  <2>3. t.pc = "check" /\ \A f \in DOMAIN t \ {"pc", "sightings", "locked"} : t[f] = u[f]
    BY <1>1 DEF Transactions
  <2>4. t.batch = u.batch /\ t.left = u.left /\ t.events = u.events /\ t.dead = u.dead /\ t.removed = u.removed /\ t.entities = u.entities
    BY <1>1 DEF Transactions
  <2>5. Placed(t) /\ Drawn(t)
    BY <1>1, <1>3, <2>3, <2>4 DEF Sound, Placed, Drawn
  <2>6. QED
    BY <1>3, <2>1, <2>2, <2>3, <2>5, LabelStep
<1>6. QED
  BY <1>4, <1>5

LEMMA FlushSightingStep ==
  ASSUME IInv, NEW r \in Requests, FlushSighting(r)
  PROVE  IInv'
<1> PICK u : u = tx[r]
  OBVIOUS
<1> PICK t : t = [u EXCEPT !.pc = "check", !.locked = TRUE]
  OBVIOUS
<1>1. u \in Transactions /\ Sound(u) /\ DOMAIN tx = Requests
  BY TxFacts
<1>2. u.pc = "sighting" /\ UNCHANGED <<db, answered, served, suppressed, projected, serial>> /\ tx' = [tx EXCEPT ![r] = t]
  BY <1>1 DEF FlushSighting, Transactions
<1>3. t \in Transactions
  BY <1>1 DEF Transactions, Labels
<1>4. t.pc = "check" /\ \A f \in DOMAIN t \ {"pc", "sightings", "locked"} : t[f] = u[f]
  BY <1>1 DEF Transactions
<1>5. t.batch = u.batch /\ t.left = u.left /\ t.events = u.events /\ t.dead = u.dead /\ t.removed = u.removed /\ t.entities = u.entities
  BY <1>1 DEF Transactions
<1>6. Placed(t) /\ Drawn(t)
  BY <1>1, <1>2, <1>4, <1>5 DEF Sound, Placed, Drawn
<1>7. QED
  BY <1>2, <1>3, <1>4, <1>6, LabelStep

LEMMA EndOfBatchStep ==
  ASSUME IInv, NEW r \in Requests, EndOfBatch(r)
  PROVE  IInv'
<1> PICK u, pc : u = tx[r] /\ pc = IF u.events = <<>> THEN "commit" ELSE "graph"
  OBVIOUS
<1> PICK t : t = [u EXCEPT !.pc = pc]
  OBVIOUS
<1>1. u \in Transactions /\ Sound(u) /\ DOMAIN tx = Requests
  BY TxFacts
<1>2. /\ u.pc = "payload" /\ u.left = <<>> /\ UNCHANGED <<db, answered, served, suppressed, projected, serial>>
      /\ tx' = [tx EXCEPT ![r] = t] /\ pc \in {"commit", "graph"} /\ (pc = "commit" => u.events = <<>>)
  BY <1>1 DEF EndOfBatch, Goto, Transactions
<1>3. t \in Transactions
  BY <1>1, <1>2 DEF Transactions, Labels
<1>4. t.pc = pc /\ \A f \in DOMAIN t \ {"pc", "sightings", "locked"} : t[f] = u[f]
  BY <1>1 DEF Transactions
<1>5. t.batch = u.batch /\ t.left = u.left /\ t.events = u.events /\ t.dead = u.dead /\ t.removed = u.removed /\ t.entities = u.entities
  BY <1>1 DEF Transactions
<1>6. Placed(t)
  BY <1>1, <1>2, <1>4, <1>5 DEF Sound, Placed
<1>7. Drawn(t)
  <2>1. GraphOf(Range(<<>>)) = {}
    BY DEF GraphOf, Range
  <2>2. QED
    BY <1>1, <1>2, <1>4, <1>5, <2>1 DEF Sound, Drawn
<1>8. QED
  BY <1>2, <1>3, <1>4, <1>6, <1>7, LabelStep

LEMMA SkipEventStep ==
  ASSUME IInv, NEW r \in Requests, SkipEvent(r)
  PROVE  IInv'
<1> PICK u, e : u = tx[r] /\ e = Head(u.left)
  OBVIOUS
<1> PICK d : d = IF e \in Foreign THEN u.dead \cup {e} ELSE u.dead
  OBVIOUS
<1> PICK tl : tl = Tail(u.left)
  OBVIOUS
<1> PICK t : t = [u EXCEPT !.pc = "payload", !.left = tl, !.dead = d]
  OBVIOUS
<1>1. u \in Transactions /\ Sound(u) /\ DOMAIN tx = Requests
  BY TxFacts
<1>2. /\ u.pc = "check" /\ UNCHANGED <<db, answered, served, suppressed, projected, serial>>
      /\ tx' = [tx EXCEPT ![r] = t] /\ e \in Range(db.events) \cup Range(u.events) \cup Foreign
  BY <1>1 DEF SkipEvent, Payload, SeenEvents, Transactions
<1>3. u.left \in Seq(Payloads) /\ u.left # <<>> /\ d \subseteq Bad \cup Foreign
  BY <1>1, <1>2 DEF Transactions, Sound, Placed
<1>4. tl \in Seq(Payloads) /\ Range(u.left) = {e} \cup Range(tl)
  BY <1>3, HeadTail
<1>5. t \in Transactions
  <2>1. "payload" \in Labels
    BY DEF Labels
  <2>2. QED
    BY <1>1, <1>3, <1>4, <2>1 DEF Transactions
<1>6. /\ t.pc = "payload" /\ t.batch = u.batch /\ t.left = tl /\ t.events = u.events /\ t.dead = d
      /\ t.findings = u.findings /\ t.evidence = u.evidence /\ t.incidents = u.incidents /\ t.stories = u.stories
      /\ t.removed = u.removed /\ t.entities = u.entities
  BY <1>1 DEF Transactions
<1>7. u.dead \subseteq d /\ (e \in Foreign => e \in d)
  OBVIOUS
<1>8. Placed(t)
  BY <1>1, <1>2, <1>4, <1>6, <1>7 DEF Sound, Placed
<1>9. Sound(t)
  BY <1>1, <1>6, <1>8 DEF Sound, Fresh, Drawn, Evident, Founded
<1>10. OthersTyped /\ \A q \in Requests : q # r => Range(t.events) \cap Range(tx[q].events) = {}
  BY <1>2, <1>6, TxFacts, QuietTyped
<1>11. QED
  BY <1>2, <1>5, <1>9, <1>10, LocalStep

LEMMA StoreEventStep ==
  ASSUME IInv, NEW r \in Requests, StoreEvent(r)
  PROVE  IInv'
<1> PICK u, e : u = tx[r] /\ e = Head(u.left)
  OBVIOUS
<1> PICK es : es = Append(u.events, e)
  OBVIOUS
<1> PICK t : t = [u EXCEPT !.pc = "evaluate", !.events = es]
  OBVIOUS
<1>1. u \in Transactions /\ Sound(u) /\ DOMAIN tx = Requests
  BY TxFacts
<1>2. /\ u.pc = "check" /\ UNCHANGED <<db, answered, served, suppressed, serial>>
      /\ tx' = [tx EXCEPT ![r] = t] /\ projected' \in {projected, projected \cup {e}}
      /\ e \notin Range(db.events) \cup Range(u.events) \cup Foreign
      /\ \A q \in Requests : q # r => e \notin Range(tx[q].events)
  BY <1>1 DEF StoreEvent, Payload, SeenEvents, Transactions, best_effort_project, EventHeld, Others
<1>3. u.left # <<>> /\ e \in Own /\ u.events \in Seq(Own)
  BY <1>1, <1>2 DEF Transactions, Sound, Placed, Own
<1>4. es \in Seq(Own) /\ Range(es) = Range(u.events) \cup {e} /\ (IsInjective(u.events) => IsInjective(es))
  BY <1>2, <1>3, AppendNew
<1>5. t \in Transactions
  BY <1>1, <1>4 DEF Transactions, Labels
<1>6. /\ t.pc = "evaluate" /\ t.batch = u.batch /\ t.left = u.left /\ t.events = es /\ t.dead = u.dead
      /\ t.findings = u.findings /\ t.evidence = u.evidence /\ t.incidents = u.incidents /\ t.stories = u.stories
      /\ t.removed = u.removed /\ t.entities = u.entities
  BY <1>1 DEF Transactions
<1>7. Placed(t)
  BY <1>1, <1>2, <1>3, <1>4, <1>6 DEF Sound, Placed, Own
<1>8. Fresh(t)
  BY <1>1, <1>2, <1>4, <1>6 DEF Sound, Fresh
<1>9. Drawn(t)
  <2>1. GraphOf(Range(u.events)) \subseteq GraphOf(Range(es))
    BY <1>4 DEF GraphOf
  <2>2. QED
    BY <1>1, <1>6, <2>1 DEF Sound, Drawn
<1>10. Sound(t)
  BY <1>1, <1>4, <1>6, <1>7, <1>8, <1>9 DEF Sound, Evident, Founded
<1>11. \A q \in Requests : q # r => Range(t.events) \cap Range(tx[q].events) = {}
  <2>1. ASSUME NEW q \in Requests, q # r PROVE Range(u.events) \cap Range(tx[q].events) = {} /\ e \notin Range(tx[q].events)
    BY <1>2, <2>1, TxFacts
  <2>2. QED
    BY <1>4, <1>6, <2>1
<1>12. OthersTyped
  BY <1>2, <1>3 DEF IInv, Types, OthersTyped
<1>13. QED
  BY <1>2, <1>5, <1>10, <1>11, <1>12, LocalStep

\* The events that get evidence are those that have none, and a finding's
\* events are in the window.
LEMMA Registered ==
  ASSUME IInv, NEW r \in Requests, NEW es, NEW sched, NEW fs, fs = NewFindings(r, es, sched),
         NEW ev, ev = Plus(tx[r].evidence, InBatch(Registers(r, fs)))
  PROVE  /\ fs \subseteq Findings
         /\ EventsOf(fs) \subseteq Range(db.events) \cup Range(tx[r].events) /\ EventsOf(fs) \subseteq Events
         /\ ev \in [Events -> Nat] /\ \A e \in Events : ev[e] >= tx[r].evidence[e]
         /\ \A e \in EventsOf(fs) : db.evidence[e] + ev[e] > 0
<1> PICK u, a, b, reg : u = tx[r] /\ a = db.evidence /\ b = tx[r].evidence /\ reg = Registers(r, fs)
  OBVIOUS
<1>1. u \in Transactions /\ db \in Rows
  BY TxFacts DEF IInv, Types
<1>2. a \in [Events -> Nat] /\ b \in [Events -> Nat] /\ db.events \in Seq(Own) /\ u.events \in Seq(Own)
  BY <1>1 DEF Rows, Transactions
<1>3. Range(db.events) \subseteq Events /\ Range(u.events) \subseteq Events
  BY <1>2 DEF Range, Own
<1>4. fs \subseteq Findings /\ \A f \in fs : FindingDef[f].needs \subseteq Range(db.events) \cup Range(u.events)
  BY DEF NewFindings, Fires, SeenEvents
<1>5. EventsOf(fs) \subseteq Range(db.events) \cup Range(u.events)
  BY <1>4 DEF EventsOf
<1>6. EventsOf(fs) \subseteq Events
  BY <1>3, <1>5
<1>7. \A e \in Events : ev[e] = b[e] + (IF e \in reg THEN 1 ELSE 0)
  BY <1>2 DEF Plus, InBatch
<1>8. ev \in [Events -> Nat]
  <2>1. ev = [e \in Events |-> b[e] + InBatch(reg)[e]]
    BY <1>2 DEF Plus
  <2>2. \A e \in Events : b[e] + InBatch(reg)[e] \in Nat
    BY <1>2 DEF InBatch
  <2>3. QED
    BY <2>1, <2>2
<1>9. \A e \in EventsOf(fs) : e \in reg \/ a[e] + b[e] # 0
  <2>1. \A e \in Events : SeenEvidence(r)[e] = a[e] + b[e]
    BY <1>2 DEF SeenEvidence, Plus
  <2>2. QED
    BY <1>6, <2>1 DEF Registers
<1>10. \A e \in Events : ev[e] >= b[e] /\ ev[e] \in Nat /\ a[e] \in Nat /\ b[e] \in Nat /\ (e \in reg => ev[e] = b[e] + 1)
  BY <1>2, <1>7
<1>11. ASSUME NEW e \in EventsOf(fs) PROVE a[e] + ev[e] > 0
  <2>1. PICK i, j, k : i = a[e] /\ j = b[e] /\ k = ev[e]
    OBVIOUS
  <2>2. i \in Nat /\ j \in Nat /\ k \in Nat /\ k >= j /\ (e \in reg => k = j + 1)
    BY <1>6, <1>10, <2>1
  <2>3. e \in reg \/ i + j # 0
    BY <1>9, <2>1
  <2>4. i + k > 0
    BY <2>2, <2>3
  <2>5. QED
    BY <2>1, <2>4
<1>12. QED
  BY <1>4, <1>5, <1>6, <1>8, <1>10, <1>11

LEMMA AddFindingsStep ==
  ASSUME IInv, NEW r \in Requests, NEW es, NEW sched, NEW v \in Transactions, Sound(v),
         v.events = tx[r].events, v.evidence = tx[r].evidence, AddFindings(r, es, sched, v)
  PROVE  IInv'
<1> PICK fs : fs = NewFindings(r, es, sched)
  OBVIOUS
<1>1. CASE EvidenceAmbiguous(r, fs)
  <2>1. Rollback(r)
    BY <1>1 DEF AddFindings
  <2>2. QED
    BY <2>1, RollbackStep
<1>2. CASE ~EvidenceAmbiguous(r, fs)
  <2> PICK fn, ev : fn = v.findings \cup fs /\ ev = Plus(tx[r].evidence, InBatch(Registers(r, fs)))
    OBVIOUS
  <2> PICK t : t = [v EXCEPT !.findings = fn, !.evidence = ev]
    OBVIOUS
  <2>1. /\ tx' = [tx EXCEPT ![r] = t] /\ UNCHANGED <<db, answered, served, suppressed, projected, serial>>
    BY <1>2 DEF AddFindings, Transactions
  <2>2. /\ fs \subseteq Findings
        /\ EventsOf(fs) \subseteq Range(db.events) \cup Range(v.events) /\ EventsOf(fs) \subseteq Events
        /\ ev \in [Events -> Nat] /\ \A e \in Events : ev[e] >= v.evidence[e]
        /\ \A e \in EventsOf(fs) : db.evidence[e] + ev[e] > 0
    BY Registered
  <2>3. t \in Transactions
    BY <2>2 DEF Transactions
  <2>4. /\ t.pc = v.pc /\ t.batch = v.batch /\ t.left = v.left /\ t.events = v.events /\ t.dead = v.dead
        /\ t.findings = fn /\ t.evidence = ev /\ t.incidents = v.incidents /\ t.stories = v.stories
        /\ t.removed = v.removed /\ t.entities = v.entities
    BY DEF Transactions
  <2>5. Evident(t)
    <3>1. ASSUME NEW e \in EventsOf(fn)
          PROVE  e \in Range(db.events) \cup Range(v.events) /\ e \in Events /\ db.evidence[e] + ev[e] > 0
      <4>1. e \in EventsOf(fs) \/ e \in EventsOf(v.findings)
        BY DEF EventsOf
      <4>2. CASE e \in EventsOf(fs)
        BY <2>2, <4>2
      <4>3. CASE e \in EventsOf(v.findings)
        <5>1. e \in Range(db.events) \cup Range(v.events) /\ e \in Events /\ db.evidence[e] + v.evidence[e] > 0
          BY <4>3 DEF Sound, Evident
        <5>2. db.evidence[e] \in Nat /\ v.evidence[e] \in Nat /\ ev[e] \in Nat /\ ev[e] >= v.evidence[e]
          BY <2>2, <5>1 DEF IInv, Types, Rows, Transactions
        <5>3. db.evidence[e] + ev[e] > 0
          BY <5>1, <5>2
        <5>4. QED
          BY <5>1, <5>3
      <4>4. QED
        BY <4>1, <4>2, <4>3
    <3>2. QED
      BY <3>1, <2>4 DEF Evident
  <2>6. Founded(t)
    <3>1. \A x : Told(x, db.findings \cup v.findings) => Told(x, db.findings \cup fn)
      BY DEF Told
    <3>2. QED
      BY <2>4, <3>1 DEF Sound, Founded
  <2>7. Placed(t) /\ Fresh(t) /\ Drawn(t)
    BY <2>4 DEF Sound, Placed, Fresh, Drawn
  <2>8. Sound(t)
    BY <2>5, <2>6, <2>7 DEF Sound
  <2>9. OthersTyped /\ \A q \in Requests : q # r => Range(t.events) \cap Range(tx[q].events) = {}
    BY <2>1, <2>4, TxFacts, QuietTyped
  <2>10. QED
    BY <2>1, <2>3, <2>8, <2>9, LocalStep
<1>3. QED
  BY <1>1, <1>2

LEMMA EvaluateStep ==
  ASSUME IInv, NEW r \in Requests, Evaluate(r)
  PROVE  IInv'
<1> PICK u, e : u = tx[r] /\ e = Head(u.left)
  OBVIOUS
<1> PICK v : v = [u EXCEPT !.pc = "payload", !.left = Tail(@)]
  OBVIOUS
<1>1. u \in Transactions /\ Sound(u) /\ u.pc = "evaluate" /\ AddFindings(r, {e}, FALSE, v)
  BY TxFacts DEF Evaluate, Payload
<1>2. u.left \in Seq(Payloads) /\ u.left # <<>> /\ e \in Range(u.events)
  BY <1>1 DEF Transactions, Sound, Placed
<1>3. Tail(u.left) \in Seq(Payloads) /\ Range(u.left) = {e} \cup Range(Tail(u.left))
  BY <1>2, HeadTail
<1>4. v \in Transactions
  BY <1>1, <1>3 DEF Transactions, Labels
<1>5. /\ v.pc = "payload" /\ v.batch = u.batch /\ v.left = Tail(u.left) /\ v.events = u.events /\ v.dead = u.dead
      /\ v.findings = u.findings /\ v.evidence = u.evidence /\ v.incidents = u.incidents /\ v.stories = u.stories
      /\ v.removed = u.removed /\ v.entities = u.entities
  BY <1>1 DEF Transactions
<1>6. Placed(v)
  BY <1>1, <1>2, <1>3, <1>5 DEF Sound, Placed
<1>7. Sound(v)
  BY <1>1, <1>5, <1>6 DEF Sound, Fresh, Drawn, Evident, Founded
<1>8. QED
  BY <1>1, <1>4, <1>5, <1>7, AddFindingsStep

LEMMA EvaluateScheduledStep ==
  ASSUME IInv, NEW r \in Requests, EvaluateScheduled(r)
  PROVE  IInv'
<1> PICK u : u = tx[r]
  OBVIOUS
<1> PICK v : v = [u EXCEPT !.pc = "commit"]
  OBVIOUS
<1>1. u \in Transactions /\ Sound(u) /\ u.pc = "scheduled" /\ AddFindings(r, SeenEvents(r), TRUE, v)
  BY TxFacts DEF EvaluateScheduled
<1>2. v \in Transactions
  BY <1>1 DEF Transactions, Labels
<1>3. /\ v.pc = "commit" /\ v.batch = u.batch /\ v.left = u.left /\ v.events = u.events /\ v.dead = u.dead
      /\ v.findings = u.findings /\ v.evidence = u.evidence /\ v.incidents = u.incidents /\ v.stories = u.stories
      /\ v.removed = u.removed /\ v.entities = u.entities
  BY <1>1 DEF Transactions
<1>4. Placed(v) /\ u.events = <<>>
  BY <1>1, <1>3 DEF Sound, Placed
<1>5. Drawn(v)
  <2>1. GraphOf(Range(<<>>)) = {}
    BY DEF GraphOf, Range
  <2>2. QED
    BY <1>1, <1>3, <1>4, <2>1 DEF Sound, Drawn
<1>6. Sound(v)
  BY <1>1, <1>3, <1>4, <1>5 DEF Sound, Fresh, Evident, Founded
<1>7. QED
  BY <1>1, <1>2, <1>3, <1>6, AddFindingsStep

\* The graph of more events.
LEMMA GraphJoin ==
  ASSUME NEW A, NEW B
  PROVE  GraphOf(A \cup B) = GraphOf(A) \cup GraphOf(B) /\ (A \subseteq Events => GraphOf(A) \subseteq Entities)
BY DEF GraphOf, Entities

LEMMA ProjectGraphStep ==
  ASSUME IInv, NEW r \in Requests, ProjectGraph(r)
  PROVE  IInv'
<1> PICK u, g, v : u = tx[r] /\ g = db.graph /\ v = GraphView(r)
  OBVIOUS
<1> PICK t : t = [u EXCEPT !.pc = "stories", !.removed = g, !.entities = v]
  OBVIOUS
<1>1. u \in Transactions /\ Sound(u) /\ DOMAIN tx = Requests /\ db \in Rows
  BY TxFacts DEF IInv, Types
<1>2. u.pc = "graph" /\ UNCHANGED <<db, answered, served, suppressed, projected, serial>> /\ tx' = [tx EXCEPT ![r] = t]
  BY <1>1 DEF ProjectGraph, Transactions
<1>3. v = g \cup GraphOf(Range(u.events))
  <2>1. v = GraphOf(Range(db.events) \cup Range(u.events))
    BY DEF GraphView, SeenEvents
  <2>2. g = GraphOf(Range(db.events))
    BY DEF IInv, GraphComplete
  <2>3. QED
    BY <2>1, <2>2, GraphJoin
<1>4. g \subseteq Entities /\ v \subseteq Entities
  <2>1. g \subseteq Entities /\ u.events \in Seq(Own)
    BY <1>1 DEF Rows, Transactions
  <2>2. Range(u.events) \subseteq Events
    BY <2>1 DEF Range, Own
  <2>3. QED
    BY <1>3, <2>1, <2>2, GraphJoin
<1>5. t \in Transactions
  BY <1>1, <1>4 DEF Transactions, Labels
<1>6. /\ t.pc = "stories" /\ t.batch = u.batch /\ t.left = u.left /\ t.events = u.events /\ t.dead = u.dead
      /\ t.findings = u.findings /\ t.evidence = u.evidence /\ t.incidents = u.incidents /\ t.stories = u.stories
      /\ t.removed = g /\ t.entities = v
  BY <1>1 DEF Transactions
<1>7. Placed(t)
  BY <1>1, <1>2, <1>6 DEF Sound, Placed
<1>8. Drawn(t)
  BY <1>3, <1>6 DEF Drawn
<1>9. Sound(t)
  BY <1>1, <1>6, <1>7, <1>8 DEF Sound, Fresh, Evident, Founded
<1>10. OthersTyped /\ \A q \in Requests : q # r => Range(t.events) \cap Range(tx[q].events) = {}
  BY <1>2, <1>6, TxFacts, QuietTyped
<1>11. QED
  BY <1>2, <1>5, <1>9, <1>10, LocalStep

\* Nothing but the variables without a transaction changes.
LEMMA QuietStep ==
  ASSUME IInv, UNCHANGED <<db, tx, answered>>, OthersTyped
  PROVE  IInv'
<1>1. Types'
  BY DEF IInv, Types, OthersTyped
<1>2. (AcceptedOnce /\ AnsweredKept /\ GraphComplete /\ ClaimsHaveEvidence)'
  BY DEF IInv, AcceptedOnce, AnsweredKept, GraphComplete, ClaimsHaveEvidence
<1>3. Apart' /\ \A r \in Requests : Sound(tx[r])'
  BY DEF IInv, Apart, Sound, Placed, Fresh, Drawn, Evident, Founded
<1>4. QED
  BY <1>1, <1>2, <1>3 DEF IInv
-----------------------------------------------------------------------------
(* The commit                                                               *)

\* The tables after a commit of u.
Committed(u) ==
  /\ Range(db'.events) = Range(db.events) \cup Range(u.events)
  /\ db.findings \subseteq db'.findings /\ db.incidents \subseteq db'.incidents /\ db.graph \subseteq db'.graph
  /\ \A e \in Events : db.evidence[e] \in Nat /\ db'.evidence[e] \in Nat /\ db'.evidence[e] >= db.evidence[e]

\* Another transaction stays sound.
LEMMA StaysSound ==
  ASSUME NEW u, Committed(u), NEW t \in Transactions, Sound(t), Range(t.events) \cap Range(u.events) = {}
  PROVE  Sound(t)'
<1>1. Placed(t)'
  BY DEF Sound, Placed, Committed
<1>2. Fresh(t)' /\ Drawn(t)'
  BY DEF Sound, Fresh, Drawn, Committed
<1>3. Evident(t)'
  <2>1. ASSUME NEW e \in EventsOf(t.findings)
        PROVE  e \in Range(db'.events) \cup Range(t.events) /\ e \in Events /\ db'.evidence[e] + t.evidence[e] > 0
    <3>1. e \in Range(db.events) \cup Range(t.events) /\ e \in Events /\ db.evidence[e] + t.evidence[e] > 0
      BY DEF Sound, Evident
    <3>2. t.evidence[e] \in Nat /\ db.evidence[e] \in Nat /\ db'.evidence[e] \in Nat /\ db'.evidence[e] >= db.evidence[e]
      BY <3>1 DEF Transactions, Committed
    <3>3. db'.evidence[e] + t.evidence[e] > 0
      BY <3>1, <3>2
    <3>4. QED
      BY <3>1, <3>3 DEF Committed
  <2>2. QED
    BY <2>1 DEF Evident
<1>4. Founded(t)'
  <2>1. \A x : Told(x, db.findings \cup t.findings) => Told(x, db'.findings \cup t.findings)
    BY DEF Told, Committed
  <2>2. QED
    BY <2>1 DEF Sound, Founded, Committed
<1>5. QED
  BY <1>1, <1>2, <1>3, <1>4 DEF Sound

LEMMA CommitStep ==
  ASSUME IInv, NEW r \in Requests, Commit(r)
  PROVE  IInv'
<1> PICK u : u = tx[r]
  OBVIOUS
<1>1. u \in Transactions /\ Sound(u) /\ DOMAIN tx = Requests /\ db \in Rows
  BY TxFacts DEF IInv, Types
<1>2. /\ u.pc = "commit" /\ db' = Merge(u) /\ answered' = answered \cup Range(u.batch) /\ tx' = [tx EXCEPT ![r] = Idle]
      /\ UNCHANGED <<served, suppressed, projected, serial>>
  BY DEF Commit
<1>3. /\ db'.events = db.events \o u.events /\ db'.dead = db.dead \cup u.dead
      /\ db'.findings = db.findings \cup u.findings /\ db'.evidence = Plus(db.evidence, u.evidence)
      /\ db'.incidents = db.incidents \cup u.incidents /\ db'.stories = Plus(db.stories, u.stories)
      /\ db'.graph = (db.graph \ u.removed) \cup u.entities
      /\ db'.sightings = IF u.sightings = -1 THEN db.sightings ELSE u.sightings
  BY <1>2 DEF Merge
<1>4. /\ db.events \in Seq(Own) /\ u.events \in Seq(Own) /\ db.evidence \in [Events -> Nat] /\ u.evidence \in [Events -> Nat]
      /\ db.stories \in [Fingerprints -> Nat] /\ u.stories \in [Fingerprints -> Nat]
  BY <1>1 DEF Rows, Transactions
<1>5. db'.events \in Seq(Own) /\ Range(db'.events) = Range(db.events) \cup Range(u.events) /\ AcceptedOnce'
  <2>1. IsInjective(db.events) /\ IsInjective(u.events) /\ Range(db.events) \cap Range(u.events) = {}
    BY <1>1 DEF IInv, AcceptedOnce, Sound, Fresh
  <2>2. db.events \o u.events \in Seq(Own) /\ Range(db.events \o u.events) = Range(db.events) \cup Range(u.events)
    BY <1>4, ConcatNew
  <2>3. IsInjective(db.events \o u.events)
    BY <1>4, <2>1, ConcatNew
  <2>4. QED
    BY <1>3, <2>2, <2>3 DEF AcceptedOnce
<1>6. db'.evidence \in [Events -> Nat] /\ \A e \in Events : db'.evidence[e] = db.evidence[e] + u.evidence[e]
  BY <1>3, <1>4 DEF Plus
<1>7. db'.stories \in [Fingerprints -> Nat] /\ \A x \in Fingerprints : db'.stories[x] = db.stories[x] + u.stories[x]
  BY <1>3, <1>4 DEF Plus
<1>8. u.left = <<>> /\ u.removed \subseteq u.entities /\ db'.graph = db.graph \cup GraphOf(Range(u.events))
  BY <1>1, <1>2, <1>3 DEF Sound, Placed, Drawn
<1>9. db' \in Rows
  <2>1. db'.dead \subseteq Bad \cup Foreign /\ db'.findings \subseteq Findings /\ db'.incidents \subseteq Fingerprints
    BY <1>1, <1>3 DEF Rows, Transactions
  <2>2. db'.graph \subseteq Entities
    BY <1>1, <1>3 DEF Rows, Transactions
  <2>3. db'.sightings \in Nat
    BY <1>1, <1>3 DEF Rows, Transactions
  <2>4. db' = [events |-> db'.events, dead |-> db'.dead, findings |-> db'.findings, evidence |-> db'.evidence,
               incidents |-> db'.incidents, stories |-> db'.stories, graph |-> db'.graph, sightings |-> db'.sightings]
    BY <1>2 DEF Merge
  <2>5. QED
    BY <1>5, <1>6, <1>7, <2>1, <2>2, <2>3, <2>4 DEF Rows
<1>10. Committed(u)
  <2>1. \A e \in Events : db.evidence[e] \in Nat /\ db'.evidence[e] \in Nat /\ db'.evidence[e] >= db.evidence[e]
    BY <1>4, <1>6
  <2>2. QED
    BY <1>3, <1>5, <1>8, <2>1 DEF Committed
<1>11. /\ Idle \in Transactions /\ Sound(Idle) /\ Range(Idle.events) = {}
  <2>1. <<>> \in Seq(Payloads)
    OBVIOUS
  <2>2. QED
    BY <2>1, IdleSound DEF Idle
<1>12. tx'[r] = Idle /\ \A q \in Requests : q # r => tx'[q] = tx[q]
  BY <1>1, <1>2
<1>13. ASSUME NEW q \in Requests PROVE Sound(tx[q])'
  <2> PICK t : t = tx'[q]
    OBVIOUS
  <2>1. t \in Transactions /\ Sound(t) /\ Range(t.events) \cap Range(u.events) = {}
    <3>1. CASE q = r
      BY <1>11, <1>12, <3>1
    <3>2. CASE q # r
      BY <1>12, <3>2, TxFacts
    <3>3. QED
      BY <3>1, <3>2
  <2>2. Sound(t)'
    BY <2>1, <1>10, StaysSound
  <2>3. QED
    BY <2>2
<1>14. Types' /\ Apart'
  <2>1. Types'
    <3>1. tx' \in [Requests -> Transactions]
      BY <1>2, <1>11 DEF IInv, Types
    <3>2. QED
      BY <1>2, <1>9, <3>1 DEF IInv, Types
  <2>2. Apart'
    BY <1>11, <1>12 DEF IInv, Apart
  <2>3. QED
    BY <2>1, <2>2
<1>15. AnsweredKept'
  <2>1. Range(u.left) = {}
    BY <1>8 DEF Range
  <2>2. Range(u.batch) \subseteq u.dead \cup Range(u.events) \cup Range(db.events)
    BY <1>1, <2>1 DEF Sound, Placed
  <2>3. answered \subseteq Range(db.events) \cup db.dead
    BY DEF IInv, AnsweredKept
  <2>4. QED
    BY <1>2, <1>3, <1>5, <2>2, <2>3 DEF AnsweredKept
<1>16. GraphComplete'
  <2>1. db.graph = GraphOf(Range(db.events))
    BY DEF IInv, GraphComplete
  <2>2. QED
    BY <1>5, <1>8, <2>1, GraphJoin DEF GraphComplete
<1>17. ClaimsHaveEvidence'
  <2>1. ClaimsHaveEvidence
    BY DEF IInv
  <2>2. ASSUME NEW e \in EventsOf(db'.findings) PROVE e \in Range(db'.events) /\ db'.evidence[e] > 0
    <3>1. e \in EventsOf(db.findings) \/ e \in EventsOf(u.findings)
      BY <1>3 DEF EventsOf
    <3>2. CASE e \in EventsOf(db.findings)
      <4>1. e \in Range(db.events) /\ db.evidence[e] > 0
        BY <2>1, <3>2 DEF ClaimsHaveEvidence
      <4>2. e \in Events
        BY <1>4, <4>1 DEF Range, Own
      <4>3. db'.evidence[e] > 0
        BY <4>1, <4>2, <1>10 DEF Committed
      <4>4. QED
        BY <4>1, <4>3, <1>5
    <3>3. CASE e \in EventsOf(u.findings)
      BY <1>1, <1>5, <1>6, <3>3 DEF Sound, Evident
    <3>4. QED
      BY <3>1, <3>2, <3>3
  <2>3. ASSUME NEW x \in Fingerprints PROVE x \in db'.incidents <=> db'.stories[x] > 0
    <3>1. x \in db.incidents <=> db.stories[x] > 0
      BY <2>1 DEF ClaimsHaveEvidence
    <3>2. (x \in u.incidents => u.stories[x] > 0) /\ (u.stories[x] > 0 => x \in u.incidents \cup db.incidents)
      BY <1>1 DEF Sound, Founded
    <3>3. PICK i, j : i = db.stories[x] /\ j = u.stories[x]
      OBVIOUS
    <3>4. i \in Nat /\ j \in Nat /\ db'.stories[x] = i + j
      BY <1>4, <1>7, <3>3
    <3>5. i + j > 0 <=> i > 0 \/ j > 0
      BY <3>4
    <3>6. QED
      BY <1>3, <3>1, <3>2, <3>3, <3>4, <3>5
  <2>4. ASSUME NEW x \in Fingerprints, x \in db'.incidents PROVE Told(x, db'.findings)
    <3>1. Told(x, db.findings) \/ Told(x, db.findings \cup u.findings)
      <4>1. CASE x \in db.incidents
        BY <2>1, <4>1 DEF ClaimsHaveEvidence, Told
      <4>2. CASE x \in u.incidents
        BY <1>1, <4>2 DEF Sound, Founded
      <4>3. QED
        BY <1>3, <2>4, <4>1, <4>2
    <3>2. QED
      BY <1>3, <3>1 DEF Told
  <2>5. QED
    BY <2>2, <2>3, <2>4 DEF ClaimsHaveEvidence, Told
<1>18. QED
  BY <1>5, <1>13, <1>14, <1>15, <1>16, <1>17 DEF IInv

-----------------------------------------------------------------------------
(* Storylines and incidents                                                 *)

\* correlate tells storylines whose findings are stored, and only those.
LEMMA CorrelateTells ==
  ASSUME NEW fs
  PROVE  correlate(fs) \in Seq({s \in Range(StoryDefs) : s.needs \subseteq fs})
<1> DEFINE T == {s \in Range(StoryDefs) : s.needs \subseteq fs}
           A == [findings : {fs}, told : Seq(T)]
           I == [k \in 0..Len(StoryDefs) |-> A]
           base == [findings |-> fs, told |-> <<>>]
<1>1. StoryDefs \in Seq(Range(StoryDefs)) /\ Len(StoryDefs) \in Nat
  BY IngestionAssumption
<1>2. base \in A
  OBVIOUS
<1>3. ASSUME NEW acc \in A, NEW s \in Range(StoryDefs) PROVE Tell(acc, s) \in A
  <2>1. acc.findings = fs /\ acc.told \in Seq(T)
    OBVIOUS
  <2>2. CASE s.needs \subseteq fs
    <3>1. Append(acc.told, s) \in Seq(T)
      BY <2>1, <2>2
    <3>2. Tell(acc, s) = [acc EXCEPT !.told = Append(@, s)]
      BY <2>1, <2>2 DEF Tell
    <3>3. QED
      BY <3>1, <3>2
  <2>3. CASE ~(s.needs \subseteq fs)
    BY <2>1, <2>3 DEF Tell
  <2>4. QED
    BY <2>2, <2>3
<1>4. base \in I[0] /\ 0 \in 0..Len(StoryDefs)
  BY <1>1, <1>2
<1>5. ASSUME NEW k \in 1..Len(StoryDefs), NEW acc \in I[k - 1] PROVE Tell(acc, StoryDefs[k]) \in I[k]
  <2>1. StoryDefs[k] \in Range(StoryDefs) /\ k \in 0..Len(StoryDefs) /\ k - 1 \in 0..Len(StoryDefs)
    BY <1>1
  <2>2. QED
    BY <1>3, <2>1
<1> HIDE DEF I, base
<1>6. Telling!Fold(base, StoryDefs) \in I[Len(StoryDefs)]
  BY <1>1, <1>4, <1>5, Telling!FoldInvariant
<1>7. correlate(fs) = Telling!Fold(base, StoryDefs).told
  BY DEF correlate, base, Telling!Fold, Telling!FoldLeft, FoldLeft, Telling!MapThenFoldSet, MapThenFoldSet, Telling!Max, Max
<1>8. Telling!Fold(base, StoryDefs) \in A
  BY <1>1, <1>6 DEF I
<1>9. QED
  BY <1>7, <1>8

\* The local variables of persist_storylines_and_incidents.
Persists ==
  [stories : [Fingerprints -> Nat], added : [Fingerprints -> Nat], incidents : SUBSET Fingerprints, error : BOOLEAN]

\* No storyline row is taken back, an incident is there iff a row is, and the
\* new ones are told by fs.
RowsMatch(acc, fs) ==
  /\ \A x \in Fingerprints : acc.stories[x] >= db.stories[x]
  /\ \A x \in Fingerprints : x \in acc.incidents <=> acc.stories[x] + acc.added[x] > 0
  /\ db.incidents \subseteq acc.incidents
  /\ \A x \in acc.incidents \ db.incidents : Told(x, fs)

LEMMA PersistOne ==
  ASSUME NEW fs, NEW acc \in Persists, RowsMatch(acc, fs), NEW s, s.fp \in Fingerprints, Told(s.fp, fs),
         db.stories \in [Fingerprints -> Nat]
  PROVE  PersistStory(acc, s) \in Persists /\ RowsMatch(PersistStory(acc, s), fs)
<1> PICK f, st, ad, inc : f = s.fp /\ st = acc.stories /\ ad = acc.added /\ inc = acc.incidents
  OBVIOUS
<1>1. /\ st \in [Fingerprints -> Nat] /\ ad \in [Fingerprints -> Nat] /\ inc \subseteq Fingerprints /\ acc.error \in BOOLEAN
      /\ DOMAIN acc = {"stories", "added", "incidents", "error"}
  BY DEF Persists
<1>2. CASE acc.error \/ st[f] > 1
  <2> PICK n : n = [acc EXCEPT !.error = TRUE]
    OBVIOUS
  <2>1. PersistStory(acc, s) = n
    BY <1>2 DEF PersistStory
  <2>2. n \in Persists /\ n.stories = st /\ n.added = ad /\ n.incidents = inc
    BY DEF Persists
  <2>3. RowsMatch(n, fs)
    BY <2>2 DEF RowsMatch
  <2>4. QED
    BY <2>1, <2>2, <2>3
<1>3. CASE ~acc.error /\ st[f] = 1
  <2>1. PersistStory(acc, s) = acc
    BY <1>3 DEF PersistStory
  <2>2. QED
    BY <2>1
<1>4. CASE ~acc.error /\ ~(st[f] > 1) /\ st[f] # 1
  <2> PICK one : one = [x \in Fingerprints |-> IF x = f THEN 1 ELSE 0]
    OBVIOUS
  <2> PICK st2, ad2, inc2 : /\ st2 = IF f \notin inc THEN Plus(st, ad) ELSE st
                            /\ ad2 = IF f \notin inc THEN one ELSE Plus(ad, one)
                            /\ inc2 = inc \cup {f}
    OBVIOUS
  <2> PICK n : n = [acc EXCEPT !.incidents = inc2, !.stories = st2, !.added = ad2]
    OBVIOUS
  <2>1. PersistStory(acc, s) = n
    BY <1>4 DEF PersistStory
  <2>2. one \in [Fingerprints -> Nat] /\ \A x \in Fingerprints : one[x] = IF x = f THEN 1 ELSE 0
    OBVIOUS
  <2>3. /\ Plus(st, ad) \in [Fingerprints -> Nat] /\ \A x \in Fingerprints : Plus(st, ad)[x] = st[x] + ad[x]
        /\ Plus(ad, one) \in [Fingerprints -> Nat] /\ \A x \in Fingerprints : Plus(ad, one)[x] = ad[x] + one[x]
    BY <1>1, <2>2 DEF Plus
  <2>4. st2 \in [Fingerprints -> Nat] /\ ad2 \in [Fingerprints -> Nat] /\ inc2 \subseteq Fingerprints
    BY <1>1, <2>2, <2>3
  <2>5. n \in Persists /\ n.stories = st2 /\ n.added = ad2 /\ n.incidents = inc2
    BY <1>1, <2>4 DEF Persists
  <2>6. ASSUME NEW x \in Fingerprints
        PROVE  st2[x] >= db.stories[x] /\ (x \in inc2 <=> st2[x] + ad2[x] > 0)
    <3>1. PICK a, b, o, d : a = st[x] /\ b = ad[x] /\ o = one[x] /\ d = db.stories[x]
      OBVIOUS
    <3>2. a \in Nat /\ b \in Nat /\ o \in Nat /\ d \in Nat /\ a >= d /\ o = IF x = f THEN 1 ELSE 0
      BY <1>1, <2>2, <3>1 DEF RowsMatch
    <3>3. x \in inc <=> a + b > 0
      BY <3>1 DEF RowsMatch
    <3>4. (st2[x] = a + b /\ ad2[x] = o) \/ (st2[x] = a /\ ad2[x] = b + o)
      BY <2>3, <3>1
    <3>5. st2[x] >= d /\ st2[x] + ad2[x] = a + b + o
      BY <3>2, <3>4
    <3>6. a + b + o > 0 <=> a + b > 0 \/ x = f
      BY <3>2
    <3>7. QED
      BY <3>1, <3>3, <3>5, <3>6
  <2>7. db.incidents \subseteq inc2 /\ \A x \in inc2 \ db.incidents : Told(x, fs)
    BY DEF RowsMatch
  <2>8. RowsMatch(n, fs)
    BY <2>5, <2>6, <2>7 DEF RowsMatch
  <2>9. QED
    BY <2>1, <2>5, <2>8
<1>5. QED
  BY <1>1, <1>2, <1>3, <1>4

\* The whole loop, for the findings the request sees.
LEMMA PersistAll ==
  ASSUME IInv, NEW r \in Requests
  PROVE  Persisted(r) \in Persists /\ RowsMatch(Persisted(r), SeenFindings(r))
<1> PICK fs : fs = SeenFindings(r)
  OBVIOUS
<1> PICK seq : seq = correlate(fs)
  OBVIOUS
<1> DEFINE T == {s \in Range(StoryDefs) : s.needs \subseteq fs}
           A == {acc \in Persists : RowsMatch(acc, fs)}
           I == [k \in 0..Len(seq) |-> A]
           base == [stories |-> db.stories, added |-> Zero(Fingerprints), incidents |-> db.incidents, error |-> FALSE]
<1>1. seq \in Seq(T) /\ Len(seq) \in Nat
  BY CorrelateTells
<1>2. db.stories \in [Fingerprints -> Nat] /\ db.incidents \subseteq Fingerprints
  BY DEF IInv, Types, Rows
<1>3. base \in A
  <2>1. /\ Zero(Fingerprints) \in [Fingerprints -> Nat] /\ \A x \in Fingerprints : Zero(Fingerprints)[x] = 0
    BY DEF Zero
  <2>2. base \in Persists
    BY <1>2, <2>1 DEF Persists
  <2>3. \A x \in Fingerprints : x \in db.incidents <=> db.stories[x] > 0
    BY DEF IInv, ClaimsHaveEvidence
  <2>4. \A x \in Fingerprints : db.stories[x] \in Nat /\ db.stories[x] + Zero(Fingerprints)[x] = db.stories[x]
    BY <1>2, <2>1
  <2>5. RowsMatch(base, fs)
    BY <2>3, <2>4 DEF RowsMatch
  <2>6. QED
    BY <2>2, <2>5
<1>4. ASSUME NEW acc \in A, NEW s \in T PROVE PersistStory(acc, s) \in A
  <2>1. PICK i \in DOMAIN StoryDefs : s = StoryDefs[i]
    BY DEF Range
  <2>2. s.fp \in Fingerprints /\ Told(s.fp, fs)
    BY <2>1 DEF Fingerprints, Told
  <2>3. QED
    BY <1>2, <2>2, PersistOne
<1>5. base \in I[0]
  BY <1>1, <1>3
<1>6. ASSUME NEW k \in 1..Len(seq), NEW acc \in I[k - 1] PROVE PersistStory(acc, seq[k]) \in I[k]
  <2>1. seq[k] \in T /\ k \in 0..Len(seq) /\ k - 1 \in 0..Len(seq)
    BY <1>1
  <2>2. QED
    BY <1>4, <2>1
<1> HIDE DEF I, base
<1>7. Persisting!Fold(base, seq) \in I[Len(seq)]
  BY <1>1, <1>5, <1>6, Persisting!FoldInvariant
<1>8. Persisted(r) = Persisting!Fold(base, seq)
  BY DEF Persisted, base, Persisting!Fold, Persisting!FoldLeft, FoldLeft, Persisting!MapThenFoldSet, MapThenFoldSet, Persisting!Max, Max
<1>9. QED
  BY <1>1, <1>7, <1>8 DEF I

LEMMA CorrelateStep ==
  ASSUME IInv, NEW r \in Requests, Correlate(r)
  PROVE  IInv'
<1> PICK u, p : u = tx[r] /\ p = Persisted(r)
  OBVIOUS
<1>1. u \in Transactions /\ Sound(u) /\ DOMAIN tx = Requests /\ db \in Rows /\ u.pc = "stories"
  BY TxFacts DEF IInv, Types, Correlate
<1>2. CASE p.error
  <2>1. Rollback(r)
    BY <1>2 DEF Correlate
  <2>2. QED
    BY <2>1, RollbackStep
<1>3. CASE ~p.error
  <2> PICK inc, st : inc = p.incidents \ db.incidents /\ st = [x \in Fingerprints |-> p.stories[x] + p.added[x] - db.stories[x]]
    OBVIOUS
  <2> PICK t : t = [u EXCEPT !.pc = "commit", !.incidents = inc, !.stories = st]
    OBVIOUS
  <2>1. UNCHANGED <<db, answered, served, suppressed, projected, serial>> /\ tx' = [tx EXCEPT ![r] = t]
    <3>1. /\ UNCHANGED <<db, answered, served, suppressed, projected, serial>>
          /\ tx' = [tx EXCEPT ![r].pc = "commit", ![r].incidents = inc, ![r].stories = st]
      BY <1>3 DEF Correlate
    <3>2. QED
      BY <1>1, <3>1 DEF Transactions
  <2>2. p \in Persists /\ RowsMatch(p, db.findings \cup u.findings)
    BY PersistAll DEF SeenFindings
  <2>3. /\ p.stories \in [Fingerprints -> Nat] /\ p.added \in [Fingerprints -> Nat] /\ db.stories \in [Fingerprints -> Nat]
        /\ inc \subseteq Fingerprints
    BY <1>1, <2>2 DEF Persists, Rows
  <2>4. ASSUME NEW x \in Fingerprints
        PROVE  /\ st[x] \in Nat /\ (x \in inc => st[x] > 0) /\ (st[x] > 0 => x \in inc \cup db.incidents)
    <3>1. PICK a, b, d : a = p.stories[x] /\ b = p.added[x] /\ d = db.stories[x]
      OBVIOUS
    <3>2. a \in Nat /\ b \in Nat /\ d \in Nat /\ a >= d /\ st[x] = a + b - d
      BY <2>2, <2>3, <3>1 DEF RowsMatch
    <3>3. (x \in p.incidents <=> a + b > 0) /\ (x \in db.incidents <=> d > 0)
      BY <2>2, <3>1 DEF RowsMatch, IInv, ClaimsHaveEvidence
    <3>4. st[x] \in Nat /\ (a + b > 0 /\ ~(d > 0) => st[x] > 0) /\ (st[x] > 0 => a + b > 0)
      BY <3>2
    <3>5. QED
      BY <3>3, <3>4
  <2>5. st \in [Fingerprints -> Nat]
    BY <2>4
  <2>6. t \in Transactions
    BY <1>1, <2>3, <2>5 DEF Transactions, Labels
  <2>7. /\ t.pc = "commit" /\ t.batch = u.batch /\ t.left = u.left /\ t.events = u.events /\ t.dead = u.dead
        /\ t.findings = u.findings /\ t.evidence = u.evidence /\ t.incidents = inc /\ t.stories = st
        /\ t.removed = u.removed /\ t.entities = u.entities
    BY <1>1 DEF Transactions
  <2>8. Founded(t)
    <3>1. \A x \in inc : Told(x, db.findings \cup u.findings)
      BY <2>2 DEF RowsMatch
    <3>2. QED
      BY <2>4, <2>7, <3>1 DEF Founded
  <2>9. Placed(t) /\ Drawn(t)
    BY <1>1, <2>7 DEF Sound, Placed, Drawn
  <2>10. Sound(t)
    BY <1>1, <2>7, <2>8, <2>9 DEF Sound, Fresh, Evident
  <2>11. OthersTyped /\ \A q \in Requests : q # r => Range(t.events) \cap Range(tx[q].events) = {}
    BY <2>1, <2>7, TxFacts, QuietTyped
  <2>12. QED
    BY <2>1, <2>6, <2>10, <2>11, LocalStep
<1>4. QED
  BY <1>2, <1>3

-----------------------------------------------------------------------------
LEMMA IngestionStep == IInv /\ [Next]_vars => IInv'
<1> SUFFICES ASSUME IInv, [Next]_vars PROVE IInv'
  OBVIOUS
<1>1. CASE UNCHANGED vars
  <2>1. UNCHANGED <<db, tx, answered, served, suppressed, projected, serial>>
    BY <1>1 DEF vars
  <2>2. QED
    BY <2>1, QuietTyped, QuietStep
<1>2. ASSUME NEW f \in Findings, Suppress(f) PROVE IInv'
  <2>1. UNCHANGED <<db, tx, answered>> /\ OthersTyped
    BY <1>2 DEF Suppress, OthersTyped, IInv, Types
  <2>2. QED
    BY <2>1, QuietStep
<1>3. ASSUME NEW r \in Requests, NEW b \in Batches, Ingest(r, b) PROVE IInv'
  <2>1. b \in Seq(Payloads) /\ Begin(r, "payload", b)
    BY <1>3, IngestionAssumption DEF Ingest, Payloads
  <2>2. PICK pc \in {"payload"} : pc = "payload"
    OBVIOUS
  <2>3. QED
    BY <2>1, <2>2, BeginStep
<1>4. ASSUME NEW r \in Requests, RunScheduled(r) \/ Rebuild(r) PROVE IInv'
  <2>1. PICK pc \in {"scheduled", "stories"}, b \in {<<>>} : Begin(r, pc, b)
    BY <1>4 DEF RunScheduled, Rebuild
  <2>2. b \in Seq(Payloads)
    OBVIOUS
  <2>3. QED
    BY <2>1, <2>2, BeginStep
<1>5. ASSUME NEW r \in Requests, Fail(r) PROVE IInv'
  BY <1>5, RollbackStep DEF Fail
<1>6. ASSUME NEW r \in Requests, Work(r) PROVE IInv'
  BY <1>6, RejectPayloadStep, RecordSightingStep, FlushSightingStep, SkipEventStep, StoreEventStep, EvaluateStep,
     EvaluateScheduledStep, EndOfBatchStep, ProjectGraphStep, CorrelateStep, CommitStep DEF Work
<1>7. QED
  BY <1>1, <1>2, <1>3, <1>4, <1>5, <1>6 DEF Next

(* The inductive invariant: whatever requests overlap, repeat and fail,     *)
(* each open transaction has exactly what its commit may add to the tables. *)
THEOREM IngestionInvariant == Spec => []IInv
<1>1. IInv /\ [Next]_vars => IInv'
  BY IngestionStep
<1>2. QED
  BY <1>1, InitSound, PTL DEF Spec

(* No event is stored twice and no answered payload is lost, although the   *)
(* duplicate check of ingest_payloads and the insert are two steps.         *)
THEOREM EveryPayloadKept == Spec => []PayloadsKept
<1>1. IInv => PayloadsKept
  <2> SUFFICES ASSUME IInv PROVE PayloadsKept
    OBVIOUS
  <2>1. AcceptedOnce /\ AnsweredKept
    BY DEF IInv
  <2>2. db \in Rows
    BY DEF IInv, Types
  <2>3. ASSUME NEW r \in Requests
        PROVE  /\ tx[r].pc \in Labels
               /\ tx[r].pc \in {"sighting", "check", "evaluate"} => tx[r].left # <<>> /\ Payload(r) \in Events
               /\ tx[r].stories \in [Fingerprints -> Nat]
    BY TxFacts DEF Transactions, Sound, Placed, Payload
  <2>4. TypeOK
    BY <2>2, <2>3 DEF TypeOK, IInv, Types, Rows, Own
  <2>5. QED
    BY <2>1, <2>4 DEF PayloadsKept
<1>2. QED
  BY <1>1, IngestionInvariant, PTL

(* No claim without evidence, with any rules and storylines: every finding  *)
(* has stored events with evidence, every storyline and every incident has  *)
(* stored findings (register_event_evidence, persist_storylines_and_incidents). *)
THEOREM EveryClaimHasEvidence == Spec => []ClaimsHaveEvidence
<1>1. IInv => ClaimsHaveEvidence
  BY DEF IInv
<1>2. QED
  BY <1>1, IngestionInvariant, PTL

(* Requests that replace the entity graph at the same time lose no entity   *)
(* of a stored event and leave none behind that no event mentions.          *)
THEOREM GraphAlwaysComplete == Spec => []GraphComplete
<1>1. IInv => GraphComplete
  BY DEF IInv
<1>2. QED
  BY <1>1, IngestionInvariant, PTL

-----------------------------------------------------------------------------
(* Requests that come one after the other                                   *)

\* What a transaction has stored is evaluated, but for the event that is next.
Noticed(t) ==
  \A f \in Findings \ suppressed : ~FindingDef[f].scheduled =>
    \A i \in DOMAIN t.events :
      /\ t.events[i] \in FindingDef[f].triggers
      /\ FindingDef[f].needs \subseteq Range(db.events) \cup {t.events[j] : j \in 1..i}
      /\ t.pc = "evaluate" => i # Len(t.events)
      => f \in db.findings \cup t.findings

\* The event that is next was stored last.
LastStored(t) == t.pc = "evaluate" => t.events # <<>> /\ t.events[Len(t.events)] = Head(t.left)

\* With its evidence an event has at most one record.
Unique(t) == \A e \in Events : db.evidence[e] + t.evidence[e] <= 1

\* The indicator's counter as the transaction leaves it, and what it must reach:
\* the payload in hand is counted before it is stored.
CounterOf(t) == IF t.sightings = -1 THEN db.sightings ELSE t.sightings
InHand(t) == t.pc \in {"sighting", "check"} /\ Head(t.left) \in Watched
Sighted(t) ==
  CounterOf(t) >= Cardinality(Watched \cap (Range(db.events) \cup Range(t.events))) + IF InHand(t) THEN 1 ELSE 0

Whole(t) == Noticed(t) /\ LastStored(t) /\ Unique(t) /\ Sighted(t)

\* As long as requests have not overlapped, only one is open, and it is whole.
SInv ==
  /\ SerialComplete
  /\ serial => /\ \A r, q \in Requests : r # q => tx[r].pc = "idle" \/ tx[q].pc = "idle"
               /\ \A r \in Requests : tx[r].pc # "idle" => Whole(tx[r])

\* A list has finitely many members.
LEMMA RangeFinite ==
  ASSUME NEW S, NEW q \in Seq(S)
  PROVE  IsFiniteSet(Range(q))
<1> PICK n, T : n = Len(q) /\ T = Range(q)
  OBVIOUS
<1>1. n \in Nat /\ DOMAIN q = 1..n /\ q \in [1..n -> S]
  OBVIOUS
<1>2. q \in [1..n -> T] /\ \A x \in T : \E i \in 1..n : q[i] = x
  BY <1>1 DEF Range
<1>3. q \in Surjection(1..n, T)
  BY <1>2 DEF Surjection
<1>4. IsFiniteSet(1..n)
  BY <1>1, FS_Interval
<1>5. QED
  BY <1>3, <1>4, FS_Surjection

\* The watched events that request r sees have a number.
LEMMA WatchedCounted ==
  ASSUME IInv, NEW t \in Transactions
  PROVE  /\ IsFiniteSet(Watched \cap (Range(db.events) \cup Range(t.events)))
         /\ Cardinality(Watched \cap (Range(db.events) \cup Range(t.events))) \in Nat
         /\ CounterOf(t) \in Nat
<1>1. db.events \in Seq(Own) /\ t.events \in Seq(Own) /\ db.sightings \in Nat /\ t.sightings \in Nat \cup {-1}
  BY DEF IInv, Types, Rows, Transactions
<1>2. IsFiniteSet(Range(db.events)) /\ IsFiniteSet(Range(t.events))
  BY <1>1, RangeFinite
<1>3. IsFiniteSet(Range(db.events) \cup Range(t.events))
  BY <1>2, FS_Union
<1>4. IsFiniteSet(Watched \cap (Range(db.events) \cup Range(t.events)))
  BY <1>3, FS_Intersection
<1>5. QED
  BY <1>1, <1>4, FS_CardinalityType DEF CounterOf

\* The request in progress goes on or ends without a commit.
LEMMA SerialRequest ==
  ASSUME IInv, SInv, NEW r \in Requests, NEW t, tx' = [tx EXCEPT ![r] = t], UNCHANGED <<db, suppressed, serial>>,
         t.pc = "idle" \/ (tx[r].pc # "idle" /\ (Whole(tx[r]) => Whole(t)))
  PROVE  SInv'
<1>1. DOMAIN tx = Requests /\ tx'[r] = t /\ \A q \in Requests : q # r => tx'[q] = tx[q]
  BY DEF IInv, Types
<1>2. SerialComplete'
  BY DEF SInv, SerialComplete, NoMissedDetection, EvidenceUnique, SightingsCounted
<1>3. ASSUME serial, NEW p \in Requests, NEW q \in Requests, p # q
      PROVE  tx'[p].pc = "idle" \/ tx'[q].pc = "idle"
  <2>1. tx[p].pc = "idle" \/ tx[q].pc = "idle"
    BY <1>3 DEF SInv
  <2>2. \A s \in Requests : tx[s].pc = "idle" => tx'[s].pc = "idle" \/ (s = r /\ t.pc = "idle")
    BY <1>1
  <2>3. QED
    BY <1>1, <1>3, <2>1, <2>2
<1>4. ASSUME NEW u, Whole(u) PROVE Whole(u)'
  BY <1>4 DEF Whole, Noticed, LastStored, Unique, Sighted, CounterOf, InHand
<1>5. ASSUME serial, NEW q \in Requests, tx'[q].pc # "idle" PROVE Whole(tx[q])'
  <2> PICK u : u = tx'[q]
    OBVIOUS
  <2>1. Whole(u)
    BY <1>1, <1>5 DEF SInv
  <2>2. Whole(u)'
    BY <2>1, <1>4
  <2>3. QED
    BY <2>2
<1>6. QED
  BY <1>2, <1>3, <1>5 DEF SInv

\* Nothing that the transaction has stored, found or counted changes.
LEMMA WholeKept ==
  ASSUME IInv, NEW t \in Transactions, NEW u \in Transactions, Whole(t),
         u.events = t.events, u.findings = t.findings, u.evidence = t.evidence, u.sightings = t.sightings,
         t.pc # "evaluate", u.pc # "evaluate", InHand(u) => InHand(t)
  PROVE  Whole(u)
<1>1. Noticed(u)
  BY DEF Whole, Noticed
<1>2. LastStored(u) /\ Unique(u)
  BY DEF Whole, LastStored, Unique
<1>3. Sighted(u)
  <2>1. PICK c, n : c = CounterOf(t) /\ n = Cardinality(Watched \cap (Range(db.events) \cup Range(t.events)))
    OBVIOUS
  <2>2. c \in Nat /\ n \in Nat /\ CounterOf(u) = c
    BY <2>1, WatchedCounted DEF CounterOf
  <2>3. c >= n + IF InHand(t) THEN 1 ELSE 0
    BY <2>1 DEF Whole, Sighted
  <2>4. c >= n + IF InHand(u) THEN 1 ELSE 0
    BY <2>2, <2>3
  <2>5. QED
    BY <2>1, <2>2, <2>4 DEF Sighted
<1>4. QED
  BY <1>1, <1>2, <1>3 DEF Whole

\* A step of the request in progress that stores, finds and counts nothing.
LEMMA QuietSerial ==
  ASSUME IInv, IInv', SInv, NEW r \in Requests, NEW t, tx' = [tx EXCEPT ![r] = t], UNCHANGED <<db, suppressed, serial>>,
         t.events = tx[r].events, t.findings = tx[r].findings, t.evidence = tx[r].evidence,
         t.sightings = tx[r].sightings, tx[r].pc \notin {"idle", "evaluate"}, t.pc # "evaluate", InHand(t) => InHand(tx[r])
  PROVE  SInv'
<1>1. tx[r] \in Transactions /\ t \in Transactions
  BY DEF IInv, Types
<1>2. Whole(tx[r]) => Whole(t)
  BY <1>1, WholeKept
<1>3. QED
  BY <1>2, SerialRequest

LEMMA RejectSerial ==
  ASSUME IInv, SInv, NEW r \in Requests, RejectPayload(r)
  PROVE  SInv'
<1> PICK u, e : u = tx[r] /\ e = Head(u.left)
  OBVIOUS
<1> PICK t : t = [u EXCEPT !.dead = @ \cup {e}, !.left = Tail(@)]
  OBVIOUS
<1>1. u \in Transactions /\ IInv'
  BY TxFacts, RejectPayloadStep
<1>2. u.pc = "payload" /\ UNCHANGED <<db, suppressed, serial>> /\ tx' = [tx EXCEPT ![r] = t]
  BY <1>1 DEF RejectPayload, AtPayload, Payload, Transactions
<1>3. /\ t.pc = u.pc /\ t.events = u.events /\ t.findings = u.findings /\ t.evidence = u.evidence
      /\ t.sightings = u.sightings
  BY <1>1 DEF Transactions
<1>4. t.pc = "payload" /\ u.pc \notin {"idle", "evaluate"} /\ ~InHand(t)
  BY <1>2, <1>3 DEF InHand
<1>5. QED
  BY <1>1, <1>2, <1>3, <1>4, QuietSerial

\* record_sightings counts a watched payload before it is stored.
LEMMA RecordSerial ==
  ASSUME IInv, SInv, NEW r \in Requests, RecordSighting(r)
  PROVE  SInv'
<1> PICK u, n : u = tx[r] /\ n = CounterOf(u) + 1
  OBVIOUS
<1>1. u \in Transactions /\ IInv'
  BY TxFacts, RecordSightingStep
<1>2. u.pc = "payload" /\ UNCHANGED <<db, suppressed, serial>>
  BY DEF RecordSighting, AtPayload
<1>3. CASE Payload(r) \in Watched
  <2> PICK t : t = [u EXCEPT !.pc = "sighting", !.sightings = n]
    OBVIOUS
  <2>1. tx' = [tx EXCEPT ![r] = t]
    BY <1>1, <1>3 DEF RecordSighting, Transactions, CounterOf
  <2>2. /\ t.pc = "sighting" /\ t.events = u.events /\ t.findings = u.findings /\ t.evidence = u.evidence
        /\ t.sightings = n
    BY <1>1 DEF Transactions
  <2>3. ASSUME Whole(u) PROVE Whole(t)
    <3>1. Noticed(t) /\ LastStored(t) /\ Unique(t)
      BY <1>2, <2>2, <2>3 DEF Whole, Noticed, LastStored, Unique
    <3>2. PICK c, k : c = CounterOf(u) /\ k = Cardinality(Watched \cap (Range(db.events) \cup Range(u.events)))
      OBVIOUS
    <3>3. c \in Nat /\ k \in Nat /\ CounterOf(t) = c + 1
      BY <1>1, <2>2, <3>2, WatchedCounted DEF CounterOf
    <3>4. c >= k + IF InHand(u) THEN 1 ELSE 0
      BY <2>3, <3>2 DEF Whole, Sighted
    <3>5. c + 1 >= k + IF InHand(t) THEN 1 ELSE 0
      BY <3>3, <3>4
    <3>6. Sighted(t)
      BY <2>2, <3>2, <3>3, <3>5 DEF Sighted
    <3>7. QED
      BY <3>1, <3>6 DEF Whole
  <2>4. QED
    BY <1>2, <2>1, <2>3, SerialRequest
<1>4. CASE Payload(r) \notin Watched
  <2> PICK t : t = [u EXCEPT !.pc = "check"]
    OBVIOUS
  <2>1. tx' = [tx EXCEPT ![r] = t]
    BY <1>1, <1>4 DEF RecordSighting, Goto, Transactions
  <2>2. /\ t.pc = "check" /\ t.events = u.events /\ t.findings = u.findings /\ t.evidence = u.evidence
        /\ t.sightings = u.sightings /\ t.left = u.left
    BY <1>1 DEF Transactions
  <2>3. ~InHand(t)
    BY <1>4, <2>2 DEF InHand, Payload
  <2>4. QED
    BY <1>1, <1>2, <2>1, <2>2, <2>3, QuietSerial
<1>5. QED
  BY <1>3, <1>4

LEMMA FlushSerial ==
  ASSUME IInv, SInv, NEW r \in Requests, FlushSighting(r)
  PROVE  SInv'
<1> PICK u : u = tx[r]
  OBVIOUS
<1> PICK t : t = [u EXCEPT !.pc = "check", !.locked = TRUE]
  OBVIOUS
<1>1. u \in Transactions /\ IInv'
  BY TxFacts, FlushSightingStep
<1>2. u.pc = "sighting" /\ UNCHANGED <<db, suppressed, serial>> /\ tx' = [tx EXCEPT ![r] = t]
  BY <1>1 DEF FlushSighting, Transactions
<1>3. /\ t.pc = "check" /\ t.events = u.events /\ t.findings = u.findings /\ t.evidence = u.evidence
      /\ t.sightings = u.sightings /\ t.left = u.left
  BY <1>1 DEF Transactions
<1>4. InHand(t) => InHand(u)
  BY <1>2, <1>3 DEF InHand
<1>5. QED
  BY <1>1, <1>2, <1>3, <1>4, QuietSerial

LEMMA SkipSerial ==
  ASSUME IInv, SInv, NEW r \in Requests, SkipEvent(r)
  PROVE  SInv'
<1> PICK u, d : u = tx[r] /\ d = IF Payload(r) \in Foreign THEN u.dead \cup {Payload(r)} ELSE u.dead
  OBVIOUS
<1> PICK t : t = [u EXCEPT !.pc = "payload", !.left = Tail(@), !.dead = d]
  OBVIOUS
<1>1. u \in Transactions /\ IInv'
  BY TxFacts, SkipEventStep
<1>2. u.pc = "check" /\ UNCHANGED <<db, suppressed, serial>> /\ tx' = [tx EXCEPT ![r] = t]
  BY <1>1 DEF SkipEvent, Transactions
<1>3. /\ t.pc = "payload" /\ t.events = u.events /\ t.findings = u.findings /\ t.evidence = u.evidence
      /\ t.sightings = u.sightings
  BY <1>1 DEF Transactions
<1>4. ~InHand(t)
  BY <1>3 DEF InHand
<1>5. QED
  BY <1>1, <1>2, <1>3, <1>4, QuietSerial

LEMMA EndOfBatchSerial ==
  ASSUME IInv, SInv, NEW r \in Requests, EndOfBatch(r)
  PROVE  SInv'
<1> PICK u, pc : u = tx[r] /\ pc = IF u.events = <<>> THEN "commit" ELSE "graph"
  OBVIOUS
<1> PICK t : t = [u EXCEPT !.pc = pc]
  OBVIOUS
<1>1. u \in Transactions /\ IInv'
  BY TxFacts, EndOfBatchStep
<1>2. u.pc = "payload" /\ UNCHANGED <<db, suppressed, serial>> /\ tx' = [tx EXCEPT ![r] = t]
  BY <1>1 DEF EndOfBatch, Goto, Transactions
<1>3. /\ t.pc \in {"commit", "graph"} /\ t.events = u.events /\ t.findings = u.findings /\ t.evidence = u.evidence
      /\ t.sightings = u.sightings
  BY <1>1 DEF Transactions
<1>4. ~InHand(t)
  BY <1>3 DEF InHand
<1>5. QED
  BY <1>1, <1>2, <1>3, <1>4, QuietSerial

LEMMA ProjectGraphSerial ==
  ASSUME IInv, SInv, NEW r \in Requests, ProjectGraph(r)
  PROVE  SInv'
<1> PICK u, g : u = tx[r] /\ g = GraphView(r)
  OBVIOUS
<1> PICK t : t = [u EXCEPT !.pc = "stories", !.removed = db.graph, !.entities = g]
  OBVIOUS
<1>1. u \in Transactions /\ IInv'
  BY TxFacts, ProjectGraphStep
<1>2. u.pc = "graph" /\ UNCHANGED <<db, suppressed, serial>> /\ tx' = [tx EXCEPT ![r] = t]
  BY <1>1 DEF ProjectGraph, Transactions
<1>3. /\ t.pc = "stories" /\ t.events = u.events /\ t.findings = u.findings /\ t.evidence = u.evidence
      /\ t.sightings = u.sightings
  BY <1>1 DEF Transactions
<1>4. ~InHand(t)
  BY <1>3 DEF InHand
<1>5. QED
  BY <1>1, <1>2, <1>3, <1>4, QuietSerial

\* A request that fails leaves nothing.
LEMMA RollbackSerial ==
  ASSUME IInv, SInv, NEW r \in Requests, Rollback(r)
  PROVE  SInv'
<1> PICK t : t = Idle
  OBVIOUS
<1>1. t.pc = "idle"
  BY DEF Idle, NewTx
<1>2. UNCHANGED <<db, suppressed, serial>> /\ tx' = [tx EXCEPT ![r] = t]
  BY DEF Rollback
<1>3. QED
  BY <1>1, <1>2, SerialRequest

LEMMA CorrelateSerial ==
  ASSUME IInv, SInv, NEW r \in Requests, Correlate(r)
  PROVE  SInv'
<1> PICK u, p : u = tx[r] /\ p = Persisted(r)
  OBVIOUS
<1>1. u \in Transactions /\ IInv' /\ u.pc = "stories"
  BY TxFacts, CorrelateStep DEF Correlate
<1>2. CASE p.error
  <2>1. Rollback(r)
    BY <1>2 DEF Correlate
  <2>2. QED
    BY <2>1, RollbackSerial
<1>3. CASE ~p.error
  <2> PICK inc, st : inc = p.incidents \ db.incidents /\ st = [x \in Fingerprints |-> p.stories[x] + p.added[x] - db.stories[x]]
    OBVIOUS
  <2> PICK t : t = [u EXCEPT !.pc = "commit", !.incidents = inc, !.stories = st]
    OBVIOUS
  <2>1. /\ UNCHANGED <<db, suppressed, serial>>
        /\ tx' = [tx EXCEPT ![r].pc = "commit", ![r].incidents = inc, ![r].stories = st]
    BY <1>3 DEF Correlate
  <2>2. tx' = [tx EXCEPT ![r] = t]
    BY <1>1, <2>1 DEF Transactions
  <2>3. /\ t.pc = "commit" /\ t.events = u.events /\ t.findings = u.findings /\ t.evidence = u.evidence
        /\ t.sightings = u.sightings
    BY <1>1 DEF Transactions
  <2>4. ~InHand(t) /\ t.pc # "evaluate" /\ u.pc \notin {"idle", "evaluate"}
    BY <1>1, <2>3 DEF InHand
  <2>5. UNCHANGED <<db, suppressed, serial>>
    BY <2>1
  <2>6. QED
    BY <1>1, <2>2, <2>3, <2>4, <2>5, QuietSerial
<1>4. QED
  BY <1>2, <1>3

LEMMA AppendAt ==
  ASSUME NEW S, NEW q \in Seq(S), NEW e \in S
  PROVE  \E n \in Nat : /\ n = Len(q) /\ DOMAIN q = 1..n
                        /\ DOMAIN Append(q, e) = 1..(n + 1) /\ Len(Append(q, e)) = n + 1 /\ Append(q, e) # <<>>
                        /\ (\A i \in 1..n : Append(q, e)[i] = q[i]) /\ Append(q, e)[n + 1] = e
<1> PICK n, a : n = Len(q) /\ a = Append(q, e)
  OBVIOUS
<1>1. /\ n \in Nat /\ DOMAIN q = 1..n /\ DOMAIN a = 1..(n + 1) /\ Len(a) = n + 1 /\ a # <<>>
      /\ (\A i \in 1..n : a[i] = q[i]) /\ a[n + 1] = e
  OBVIOUS
<1>2. QED
  BY <1>1

\* A transaction between two events: all its events are evaluated.
LEMMA AllNoticed ==
  ASSUME NEW t, NEW es, NEW fs, t.events = es, t.findings = fs, t.pc # "evaluate",
         \A f \in Findings \ suppressed : ~FindingDef[f].scheduled =>
           \A i \in DOMAIN es : es[i] \in FindingDef[f].triggers /\ FindingDef[f].needs \subseteq Range(db.events) \cup {es[j] : j \in 1..i}
                              => f \in db.findings \cup fs
  PROVE  Noticed(t)
BY DEF Noticed

\* A new event is counted, and evaluated next.
LEMMA StoreSerial ==
  ASSUME IInv, SInv, NEW r \in Requests, StoreEvent(r)
  PROVE  SInv'
<1> PICK u, e : u = tx[r] /\ e = Head(u.left)
  OBVIOUS
<1> PICK es : es = Append(u.events, e)
  OBVIOUS
<1> PICK t : t = [u EXCEPT !.pc = "evaluate", !.events = es]
  OBVIOUS
<1>1. u \in Transactions /\ Sound(u)
  BY TxFacts
<1>2. /\ u.pc = "check" /\ UNCHANGED <<db, suppressed, serial>> /\ tx' = [tx EXCEPT ![r] = t]
      /\ e \notin Range(db.events) \cup Range(u.events) \cup Foreign
  <2>1. /\ u.pc = "check" /\ UNCHANGED <<db, suppressed, serial>> /\ e \notin Range(db.events) \cup Range(u.events) \cup Foreign
        /\ tx' = [tx EXCEPT ![r].pc = "evaluate", ![r].events = Append(@, e)]
    BY DEF StoreEvent, Payload, SeenEvents
  <2>2. tx' = [tx EXCEPT ![r] = t]
    BY <1>1, <2>1 DEF Transactions
  <2>3. QED
    BY <2>1, <2>2
<1>3. /\ t.pc = "evaluate" /\ t.events = es /\ t.findings = u.findings /\ t.evidence = u.evidence
      /\ t.sightings = u.sightings /\ t.left = u.left
  BY <1>1 DEF Transactions
<1>4. u.events \in Seq(Own) /\ e \in Own
  BY <1>1, <1>2 DEF Transactions, Sound, Placed, Own
<1>5. PICK n \in Nat : /\ n = Len(u.events) /\ DOMAIN u.events = 1..n /\ DOMAIN es = 1..(n + 1) /\ Len(es) = n + 1
                       /\ es # <<>> /\ (\A i \in 1..n : es[i] = u.events[i]) /\ es[n + 1] = e
  BY <1>4, AppendAt
<1>6. Range(es) = Range(u.events) \cup {e}
  BY <1>4, AppendNew
<1>7. ASSUME Whole(u) PROVE Whole(t)
  <2>1. Noticed(t)
    <3> SUFFICES ASSUME NEW f \in Findings \ suppressed, ~FindingDef[f].scheduled, NEW i \in DOMAIN es, es[i] \in FindingDef[f].triggers,
                        FindingDef[f].needs \subseteq Range(db.events) \cup {es[j] : j \in 1..i}, i # n + 1
                 PROVE  f \in db.findings \cup u.findings
      BY <1>3, <1>5 DEF Noticed
    <3>1. i \in 1..n /\ \A j \in 1..i : j \in 1..n
      BY <1>5
    <3>2. {es[j] : j \in 1..i} = {u.events[j] : j \in 1..i} /\ es[i] = u.events[i]
      BY <1>5, <3>1
    <3>3. QED
      BY <1>2, <1>5, <1>7, <3>1, <3>2 DEF Whole, Noticed
  <2>2. LastStored(t)
    BY <1>3, <1>5 DEF LastStored
  <2>3. Unique(t)
    BY <1>3, <1>7 DEF Whole, Unique
  <2>4. Sighted(t)
    <3>1. PICK W, c, k : W = Watched \cap (Range(db.events) \cup Range(u.events)) /\ c = CounterOf(u) /\ k = Cardinality(W)
      OBVIOUS
    <3>2. c \in Nat /\ k \in Nat /\ IsFiniteSet(W) /\ CounterOf(t) = c /\ ~InHand(t)
      BY <1>1, <1>3, <3>1, WatchedCounted DEF CounterOf, InHand
    <3>3. c >= k + IF InHand(u) THEN 1 ELSE 0
      BY <1>7, <3>1 DEF Whole, Sighted
    <3>4. CASE e \in Watched
      <4>1. Watched \cap (Range(db.events) \cup Range(es)) = W \cup {e} /\ e \notin W
        BY <1>2, <1>6, <3>1, <3>4
      <4>2. Cardinality(W \cup {e}) = k + 1
        BY <3>1, <3>2, <4>1, FS_AddElement
      <4>3. InHand(u)
        BY <1>2, <3>4 DEF InHand
      <4>4. c >= k + 1
        BY <3>3, <4>3
      <4>5. c >= Cardinality(W \cup {e}) + 0
        BY <3>2, <4>2, <4>4
      <4>6. QED
        BY <1>3, <3>2, <4>1, <4>5 DEF Sighted
    <3>5. CASE e \notin Watched
      <4>1. Watched \cap (Range(db.events) \cup Range(es)) = W
        BY <1>6, <3>1, <3>5
      <4>2. c >= k + 0
        BY <3>2, <3>3
      <4>3. QED
        BY <1>3, <3>1, <3>2, <4>1, <4>2 DEF Sighted
    <3>6. QED
      BY <3>4, <3>5
  <2>5. QED
    BY <2>1, <2>2, <2>3, <2>4 DEF Whole
<1>8. QED
  BY <1>2, <1>7, SerialRequest

\* register_event_evidence adds evidence only where there is none.
LEMMA EvidenceAdded ==
  ASSUME IInv, NEW r \in Requests, NEW fs \in SUBSET Findings, NEW t, Unique(tx[r]),
         t.evidence = Plus(tx[r].evidence, InBatch(Registers(r, fs)))
  PROVE  Unique(t)
<1> PICK u, b : u = tx[r] /\ b = InBatch(Registers(r, fs))
  OBVIOUS
<1>1. u.evidence \in [Events -> Nat] /\ db.evidence \in [Events -> Nat]
  BY TxFacts DEF IInv, Types, Rows, Transactions
<1>2. ASSUME NEW e \in Events PROVE db.evidence[e] + t.evidence[e] <= 1
  <2>1. PICK x, y, z : x = db.evidence[e] /\ y = u.evidence[e] /\ z = b[e]
    OBVIOUS
  <2>2. x \in Nat /\ y \in Nat /\ t.evidence[e] = y + z /\ x + y <= 1
    BY <1>1, <2>1 DEF Plus, Unique
  <2>3. z = IF e \in Registers(r, fs) THEN 1 ELSE 0
    BY <2>1 DEF InBatch
  <2>4. e \in Registers(r, fs) => x + y = 0
    BY <1>1, <2>1 DEF Registers, SeenEvidence, Plus
  <2>5. QED
    BY <2>1, <2>2, <2>3, <2>4
<1>3. QED
  BY <1>2 DEF Unique

\* evaluate_and_store reports what the event just stored completes.
LEMMA EvaluateSerial ==
  ASSUME IInv, SInv, NEW r \in Requests, Evaluate(r)
  PROVE  SInv'
<1> PICK u, fs : u = tx[r] /\ fs = NewFindings(r, {Payload(r)}, FALSE)
  OBVIOUS
<1>1. u \in Transactions /\ IInv' /\ u.pc = "evaluate" /\ Sound(u)
  BY TxFacts, EvaluateStep DEF Evaluate
<1>2. CASE EvidenceAmbiguous(r, fs)
  <2>1. Rollback(r)
    BY <1>2 DEF Evaluate, AddFindings
  <2>2. QED
    BY <2>1, RollbackSerial
<1>3. CASE ~EvidenceAmbiguous(r, fs)
  <2> PICK ev : ev = Plus(u.evidence, InBatch(Registers(r, fs)))
    OBVIOUS
  <2> PICK t : t = [u EXCEPT !.pc = "payload", !.left = Tail(@), !.findings = @ \cup fs, !.evidence = ev]
    OBVIOUS
  <2>1. /\ UNCHANGED <<db, suppressed, serial>>
        /\ tx' = [tx EXCEPT ![r] = [[u EXCEPT !.pc = "payload", !.left = Tail(@)] EXCEPT !.findings = @ \cup fs, !.evidence = Plus(@, InBatch(Registers(r, fs)))]]
    BY <1>3 DEF Evaluate, AddFindings
  <2>2. [[u EXCEPT !.pc = "payload", !.left = Tail(@)] EXCEPT !.findings = @ \cup fs, !.evidence = Plus(@, InBatch(Registers(r, fs)))] = t
    BY <1>1 DEF Transactions
  <2>3. tx' = [tx EXCEPT ![r] = t]
    BY <2>1, <2>2
  <2>4. /\ t.pc = "payload" /\ t.events = u.events /\ t.findings = u.findings \cup fs /\ t.evidence = ev
        /\ t.sightings = u.sightings
    BY <1>1 DEF Transactions
  <2>5. u.events \in Seq(Own) /\ fs \in SUBSET Findings
    BY <1>1 DEF Transactions, NewFindings
  <2>6. PICK n \in Nat : n = Len(u.events) /\ DOMAIN u.events = 1..n
    BY <2>5
  <2>7. ASSUME Whole(u) PROVE Whole(t)
    <3>1. Noticed(t)
      <4> SUFFICES ASSUME NEW f \in Findings \ suppressed, ~FindingDef[f].scheduled, NEW i \in 1..n, u.events[i] \in FindingDef[f].triggers,
                          FindingDef[f].needs \subseteq Range(db.events) \cup {u.events[j] : j \in 1..i}
                   PROVE  f \in db.findings \cup (u.findings \cup fs)
        BY <2>4, <2>6, AllNoticed
      <4>1. CASE i # n
        BY <2>6, <2>7, <4>1 DEF Whole, Noticed
      <4>2. CASE i = n
        <5>1. u.events[n] = Payload(r)
          BY <1>1, <2>6, <2>7 DEF Whole, LastStored, Payload
        <5>2. FindingDef[f].needs \subseteq SeenEvents(r)
          BY <2>6, <4>2 DEF SeenEvents, Range
        <5>3. FindingDef[f].scheduled = FALSE
          BY IngestionAssumption
        <5>4. Fires(r, f, Payload(r), FALSE)
          BY <4>2, <5>1, <5>2, <5>3 DEF Fires
        <5>5. f \in fs \/ f \in SeenFindings(r)
          BY <5>4 DEF NewFindings, is_suppressed
        <5>6. QED
          BY <5>5 DEF SeenFindings
      <4>3. QED
        BY <4>1, <4>2
    <3>2. LastStored(t)
      BY <2>4 DEF LastStored
    <3>3. Unique(t)
      BY <2>4, <2>5, <2>7, EvidenceAdded DEF Whole
    <3>4. ~InHand(t) /\ ~InHand(u) /\ CounterOf(t) = CounterOf(u)
      BY <1>1, <2>4 DEF InHand, CounterOf
    <3>5. Sighted(t)
      BY <2>4, <2>7, <3>4 DEF Whole, Sighted
    <3>6. QED
      BY <3>1, <3>2, <3>3, <3>5 DEF Whole
  <2>8. QED
    BY <1>1, <2>1, <2>3, <2>7, SerialRequest
<1>4. QED
  BY <1>2, <1>3

LEMMA ScheduledSerial ==
  ASSUME IInv, SInv, NEW r \in Requests, EvaluateScheduled(r)
  PROVE  SInv'
<1> PICK u, fs : u = tx[r] /\ fs = NewFindings(r, SeenEvents(r), TRUE)
  OBVIOUS
<1>1. u \in Transactions /\ u.pc = "scheduled"
  BY TxFacts DEF EvaluateScheduled
<1>2. CASE EvidenceAmbiguous(r, fs)
  <2>1. Rollback(r)
    BY <1>2 DEF EvaluateScheduled, AddFindings
  <2>2. QED
    BY <2>1, RollbackSerial
<1>3. CASE ~EvidenceAmbiguous(r, fs)
  <2> PICK ev : ev = Plus(u.evidence, InBatch(Registers(r, fs)))
    OBVIOUS
  <2> PICK t : t = [u EXCEPT !.pc = "commit", !.findings = @ \cup fs, !.evidence = ev]
    OBVIOUS
  <2>1. /\ UNCHANGED <<db, suppressed, serial>>
        /\ tx' = [tx EXCEPT ![r] = [[u EXCEPT !.pc = "commit"] EXCEPT !.findings = @ \cup fs, !.evidence = Plus(@, InBatch(Registers(r, fs)))]]
    BY <1>3 DEF EvaluateScheduled, AddFindings
  <2>2. [[u EXCEPT !.pc = "commit"] EXCEPT !.findings = @ \cup fs, !.evidence = Plus(@, InBatch(Registers(r, fs)))] = t
    BY <1>1 DEF Transactions
  <2>3. tx' = [tx EXCEPT ![r] = t]
    BY <2>1, <2>2
  <2>4. /\ t.pc = "commit" /\ t.events = u.events /\ t.findings = u.findings \cup fs /\ t.evidence = ev
        /\ t.sightings = u.sightings
    BY <1>1 DEF Transactions
  <2>5. fs \in SUBSET Findings
    BY DEF NewFindings
  <2>6. ASSUME Whole(u) PROVE Whole(t)
    <3>1. Noticed(t) /\ LastStored(t)
      <4>1. \A f \in Findings \ suppressed : ~FindingDef[f].scheduled =>
              \A i \in DOMAIN u.events :
                u.events[i] \in FindingDef[f].triggers /\ FindingDef[f].needs \subseteq Range(db.events) \cup {u.events[j] : j \in 1..i}
                => f \in db.findings \cup (u.findings \cup fs)
        BY <1>1, <2>6 DEF Whole, Noticed
      <4>2. QED
        BY <2>4, <4>1, AllNoticed DEF LastStored
    <3>2. Unique(t)
      BY <2>4, <2>5, <2>6, EvidenceAdded DEF Whole
    <3>3. ~InHand(t) /\ ~InHand(u) /\ CounterOf(t) = CounterOf(u)
      BY <1>1, <2>4 DEF InHand, CounterOf
    <3>4. Sighted(t)
      BY <2>4, <2>6, <3>3 DEF Whole, Sighted
    <3>5. QED
      BY <3>1, <3>2, <3>4 DEF Whole
  <2>7. QED
    BY <1>1, <2>1, <2>3, <2>6, SerialRequest
<1>4. QED
  BY <1>2, <1>3

\* The first i members of a list, and: of a list of events that come after
\* those in old, the rules report in F what each one completes.
Upto(q, i) == {q[j] : j \in 1..i}
Reports(q, old, F) ==
  \A f \in Findings \ suppressed : ~FindingDef[f].scheduled =>
    \A i \in DOMAIN q : q[i] \in FindingDef[f].triggers /\ FindingDef[f].needs \subseteq old \cup Upto(q, i) => f \in F

LEMMA ConcatAt ==
  ASSUME NEW S, NEW a \in Seq(S), NEW b \in Seq(S), NEW c, c = a \o b, NEW i \in DOMAIN c
  PROVE  \/ i \in DOMAIN a /\ c[i] = a[i] /\ Upto(c, i) \subseteq Upto(a, i)
         \/ \E k \in DOMAIN b : c[i] = b[k] /\ Upto(c, i) \subseteq Range(a) \cup Upto(b, k)
<1> PICK m, n : m = Len(a) /\ n = Len(b)
  OBVIOUS
<1>1. /\ m \in Nat /\ n \in Nat /\ DOMAIN a = 1..m /\ DOMAIN b = 1..n /\ DOMAIN c = 1..(m + n)
      /\ \A j \in 1..(m + n) : c[j] = IF j <= m THEN a[j] ELSE b[j - m]
  BY ConcatProperties
<1>2. CASE i <= m
  <2>1. i \in 1..m /\ c[i] = a[i] /\ \A j \in 1..i : c[j] = a[j]
    BY <1>1, <1>2
  <2>2. QED
    BY <1>1, <2>1 DEF Upto
<1>3. CASE ~(i <= m)
  <2> PICK k : k = i - m
    OBVIOUS
  <2>1. k \in 1..n /\ c[i] = b[k]
    BY <1>1, <1>3
  <2>2. ASSUME NEW j \in 1..i PROVE c[j] \in Range(a) \cup Upto(b, k)
    <3>1. CASE j <= m
      <4>1. j \in 1..m /\ c[j] = a[j]
        BY <1>1, <3>1
      <4>2. QED
        BY <1>1, <4>1 DEF Range
    <3>2. CASE ~(j <= m)
      <4>1. j - m \in 1..k /\ c[j] = b[j - m]
        BY <1>1, <3>2
      <4>2. QED
        BY <4>1 DEF Upto
    <3>3. QED
      BY <3>1, <3>2
  <2>3. Upto(c, i) \subseteq Range(a) \cup Upto(b, k)
    <3>1. PICK T : T = Range(a) \cup Upto(b, k)
      OBVIOUS
    <3>2. \A j \in 1..i : c[j] \in T
      BY <2>2, <3>1
    <3>3. Upto(c, i) \subseteq T
      BY <3>2 DEF Upto
    <3>4. QED
      BY <3>1, <3>3
  <2>4. QED
    BY <1>1, <2>1, <2>3
<1>4. QED
  BY <1>2, <1>3

LEMMA ReportsAdd ==
  ASSUME NEW S, NEW a \in Seq(S), NEW b \in Seq(S), NEW F, NEW G, Reports(a, {}, F), Reports(b, Range(a), F \cup G)
  PROVE  Reports(a \o b, {}, F \cup G)
<1> PICK c : c = a \o b
  OBVIOUS
<1>1. ASSUME NEW f \in Findings \ suppressed, ~FindingDef[f].scheduled, NEW i \in DOMAIN c, c[i] \in FindingDef[f].triggers,
             FindingDef[f].needs \subseteq Upto(c, i)
      PROVE  f \in F \cup G
  <2>1. CASE i \in DOMAIN a /\ c[i] = a[i] /\ Upto(c, i) \subseteq Upto(a, i)
    BY <1>1, <2>1 DEF Reports
  <2>2. CASE \E k \in DOMAIN b : c[i] = b[k] /\ Upto(c, i) \subseteq Range(a) \cup Upto(b, k)
    <3>1. PICK k \in DOMAIN b : c[i] = b[k] /\ Upto(c, i) \subseteq Range(a) \cup Upto(b, k)
      BY <2>2
    <3>2. b[k] \in FindingDef[f].triggers /\ FindingDef[f].needs \subseteq Range(a) \cup Upto(b, k)
      BY <1>1, <3>1
    <3>3. QED
      BY <1>1, <3>2 DEF Reports
  <2>3. QED
    BY <2>1, <2>2, ConcatAt
<1>2. QED
  BY <1>1 DEF Reports

LEMMA DetectionReports == NoMissedDetection <=> (serial => Reports(db.events, {}, db.findings))
BY DEF NoMissedDetection, Reports, Upto

\* A commit adds a whole transaction to complete tables.
LEMMA CommitSerial ==
  ASSUME IInv, SInv, NEW r \in Requests, Commit(r)
  PROVE  SInv'
<1> PICK u : u = tx[r]
  OBVIOUS
<1> PICK es, fs, ev, d : es = u.events /\ fs = u.findings /\ ev = u.evidence /\ d = db
  OBVIOUS
<1>1. u \in Transactions /\ u.pc = "commit" /\ DOMAIN tx = Requests
  BY TxFacts DEF Commit
<1>2. UNCHANGED <<suppressed, serial>> /\ tx' = [tx EXCEPT ![r] = Idle] /\ db' = Merge(u)
  BY DEF Commit
<1>3. /\ db'.events = d.events \o es /\ db'.findings = d.findings \cup fs /\ db'.evidence = Plus(d.evidence, ev)
      /\ db'.sightings = CounterOf(u)
  BY <1>2 DEF Merge, CounterOf
<1>4. /\ d.events \in Seq(Own) /\ es \in Seq(Own) /\ d.evidence \in [Events -> Nat] /\ ev \in [Events -> Nat]
  BY <1>1 DEF IInv, Types, Rows, Transactions
<1>5. Idle.pc = "idle" /\ tx'[r] = Idle /\ \A q \in Requests : q # r => tx'[q] = tx[q]
  BY <1>1, <1>2 DEF Idle, NewTx
<1>6. SUFFICES ASSUME serial PROVE SerialComplete' /\ \A q \in Requests : tx'[q].pc = "idle"
  <2>1. serial' <=> serial
    BY <1>2
  <2>2. CASE serial
    BY <1>6, <2>1, <2>2 DEF SInv
  <2>3. CASE ~serial
    BY <2>1, <2>3 DEF SInv, SerialComplete, NoMissedDetection, EvidenceUnique, SightingsCounted
  <2>4. QED
    BY <2>2, <2>3
<1>7. Whole(u) /\ \A q \in Requests : tx'[q].pc = "idle"
  BY <1>1, <1>5, <1>6 DEF SInv
<1>8. NoMissedDetection'
  <2>1. Reports(d.events, {}, d.findings)
    BY <1>6, DetectionReports DEF SInv, SerialComplete
  <2>2. Reports(es, Range(d.events), d.findings \cup fs)
    <3>1. Noticed(u)
      BY <1>7 DEF Whole
    <3>2. QED
      BY <1>1, <3>1 DEF Noticed, Reports, Upto
  <2>3. Reports(d.events \o es, {}, d.findings \cup fs)
    BY <1>4, <2>1, <2>2, ReportsAdd
  <2>4. Reports(db.events, {}, db.findings)'
    <3>1. PICK c, F : c = d.events \o es /\ F = d.findings \cup fs
      OBVIOUS
    <3>2. Reports(c, {}, F)'
      BY <1>2, <2>3, <3>1 DEF Reports
    <3>3. QED
      BY <1>3, <3>1, <3>2
  <2>5. (NoMissedDetection <=> (serial => Reports(db.events, {}, db.findings)))'
    BY DEF NoMissedDetection, Reports, Upto
  <2>6. QED
    BY <2>4, <2>5
<1>9. EvidenceUnique'
  <2>1. ASSUME NEW e \in Events PROVE db'.evidence[e] <= 1
    <3>1. db'.evidence[e] = d.evidence[e] + ev[e]
      BY <1>3, <1>4 DEF Plus
    <3>2. QED
      BY <1>7, <3>1 DEF Whole, Unique
  <2>2. QED
    BY <2>1 DEF EvidenceUnique
<1>10. SightingsCounted'
  <2>1. Range(db'.events) = Range(d.events) \cup Range(es)
    BY <1>3, <1>4, ConcatNew
  <2>2. ~InHand(u)
    BY <1>1 DEF InHand
  <2>3. PICK c, k : c = CounterOf(u) /\ k = Cardinality(Watched \cap (Range(d.events) \cup Range(es)))
    OBVIOUS
  <2>4. c \in Nat /\ k \in Nat
    BY <1>1, <2>3, WatchedCounted
  <2>5. c >= k + 0
    BY <1>7, <2>2, <2>3 DEF Whole, Sighted
  <2>6. c >= k
    BY <2>4, <2>5
  <2>7. QED
    BY <1>3, <2>1, <2>3, <2>6 DEF SightingsCounted
<1>11. QED
  BY <1>7, <1>8, <1>9, <1>10 DEF SerialComplete

\* A request that begins alone finds complete tables.
LEMMA BeginSerial ==
  ASSUME IInv, SInv, NEW r \in Requests, NEW pc \in {"payload", "scheduled", "stories"}, NEW b \in Seq(Payloads), Begin(r, pc, b)
  PROVE  SInv'
<1> PICK t : t = NewTx(pc, b)
  OBVIOUS
<1>1. /\ t.pc = pc /\ t.events = <<>> /\ t.findings = {} /\ t.evidence = Zero(Events) /\ t.sightings = -1
  BY DEF NewTx
<1>2. UNCHANGED <<db, suppressed>> /\ tx' = [tx EXCEPT ![r] = t] /\ DOMAIN tx = Requests
  BY TxFacts DEF Begin
<1>3. tx'[r] = t /\ \A q \in Requests : q # r => tx'[q] = tx[q]
  BY <1>2
<1>4. serial' => serial /\ \A q \in Requests : q # r => tx[q].pc = "idle"
  BY DEF Begin, Others
<1>5. SerialComplete'
  BY <1>2, <1>4 DEF SInv, SerialComplete, NoMissedDetection, EvidenceUnique, SightingsCounted
<1>6. ASSUME serial PROVE Whole(t)
  <2>1. Noticed(t) /\ LastStored(t)
    BY <1>1 DEF Noticed, LastStored
  <2>2. Unique(t)
    <3>1. \A e \in Events : db.evidence[e] \in Nat /\ db.evidence[e] <= 1 /\ t.evidence[e] = 0
      BY <1>1, <1>6 DEF IInv, Types, Rows, SInv, SerialComplete, EvidenceUnique, Zero
    <3>2. QED
      BY <3>1 DEF Unique
  <2>3. Sighted(t)
    <3>1. Range(t.events) = {}
      BY <1>1 DEF Range
    <3>2. Range(db.events) \cup Range(t.events) = Range(db.events)
      BY <3>1
    <3>3. ~InHand(t) /\ CounterOf(t) = db.sightings
      BY <1>1 DEF InHand, CounterOf
    <3>4. PICK c, k : c = db.sightings /\ k = Cardinality(Watched \cap Range(db.events))
      OBVIOUS
    <3>5. c >= k
      BY <1>6, <3>4 DEF SInv, SerialComplete, SightingsCounted
    <3>6. k \in Nat /\ c \in Nat
      <4>1. db.events \in Seq(Own) /\ c \in Nat
        BY <3>4 DEF IInv, Types, Rows
      <4>2. IsFiniteSet(Watched \cap Range(db.events))
        BY <4>1, RangeFinite, FS_Intersection
      <4>3. QED
        BY <3>4, <4>1, <4>2, FS_CardinalityType
    <3>7. c >= k + 0
      BY <3>5, <3>6
    <3>8. QED
      BY <3>2, <3>3, <3>4, <3>7 DEF Sighted
  <2>4. QED
    BY <2>1, <2>2, <2>3 DEF Whole
<1>7. ASSUME Whole(t) PROVE Whole(t)'
  BY <1>2, <1>7 DEF Whole, Noticed, LastStored, Unique, Sighted, CounterOf, InHand
<1>8. ASSUME serial', NEW q \in Requests, tx'[q].pc # "idle" PROVE q = r /\ Whole(tx[q])'
  <2>1. q = r
    BY <1>3, <1>4, <1>8
  <2>2. Whole(t)'
    BY <1>4, <1>6, <1>7, <1>8
  <2>3. QED
    BY <1>3, <2>1, <2>2
<1>9. QED
  BY <1>5, <1>8 DEF SInv

\* A suppression asks for less.
LEMMA SuppressSerial ==
  ASSUME SInv, UNCHANGED <<db, tx, serial>>, suppressed \subseteq suppressed'
  PROVE  SInv'
<1>1. SerialComplete'
  BY DEF SInv, SerialComplete, NoMissedDetection, EvidenceUnique, SightingsCounted
<1>2. ASSUME NEW q \in Requests, Whole(tx[q]) PROVE Whole(tx[q])'
  <2> PICK u : u = tx[q]
    OBVIOUS
  <2>1. Noticed(u)'
    BY <1>2 DEF Whole, Noticed
  <2>2. (LastStored(u) /\ Unique(u) /\ Sighted(u))'
    BY <1>2 DEF Whole, LastStored, Unique, Sighted, CounterOf, InHand
  <2>3. QED
    BY <2>1, <2>2 DEF Whole
<1>3. QED
  BY <1>1, <1>2 DEF SInv

LEMMA InitSerial == Init => SInv
<1> SUFFICES ASSUME Init PROVE SInv
  OBVIOUS
<1>1. /\ db.events = <<>> /\ db.evidence = Zero(Events) /\ db.sightings = 0 /\ \A r \in Requests : tx[r].pc = "idle"
  BY DEF Init, Idle, NewTx
<1>2. Range(db.events) = {}
  BY <1>1 DEF Range
<1>3. NoMissedDetection /\ EvidenceUnique
  BY <1>1 DEF NoMissedDetection, EvidenceUnique, Zero
<1>4. SightingsCounted
  <2>1. Watched \cap Range(db.events) = {}
    BY <1>2
  <2>2. Cardinality({}) = 0
    BY FS_EmptySet
  <2>3. Cardinality(Watched \cap Range(db.events)) = 0
    BY <2>1, <2>2
  <2>4. db.sightings >= Cardinality(Watched \cap Range(db.events))
    BY <1>1, <2>3
  <2>5. QED
    BY <2>4 DEF SightingsCounted
<1>5. QED
  BY <1>1, <1>3, <1>4 DEF SInv, SerialComplete

LEMMA SerialStep == IInv /\ SInv /\ [Next]_vars => SInv'
<1> SUFFICES ASSUME IInv, SInv, [Next]_vars PROVE SInv'
  OBVIOUS
<1>1. CASE UNCHANGED vars
  <2>1. UNCHANGED <<db, tx, serial>> /\ suppressed \subseteq suppressed'
    BY <1>1 DEF vars
  <2>2. QED
    BY <2>1, SuppressSerial
<1>2. ASSUME NEW f \in Findings, Suppress(f) PROVE SInv'
  <2>1. UNCHANGED <<db, tx, serial>> /\ suppressed \subseteq suppressed'
    BY <1>2 DEF Suppress
  <2>2. QED
    BY <2>1, SuppressSerial
<1>3. ASSUME NEW r \in Requests, NEW b \in Batches, Ingest(r, b) PROVE SInv'
  <2>1. b \in Seq(Payloads) /\ Begin(r, "payload", b)
    BY <1>3, IngestionAssumption DEF Ingest, Payloads
  <2>2. PICK pc \in {"payload"} : pc = "payload"
    OBVIOUS
  <2>3. QED
    BY <2>1, <2>2, BeginSerial
<1>4. ASSUME NEW r \in Requests, RunScheduled(r) \/ Rebuild(r) PROVE SInv'
  <2>1. PICK pc \in {"scheduled", "stories"}, b \in {<<>>} : Begin(r, pc, b)
    BY <1>4 DEF RunScheduled, Rebuild
  <2>2. b \in Seq(Payloads)
    OBVIOUS
  <2>3. QED
    BY <2>1, <2>2, BeginSerial
<1>5. ASSUME NEW r \in Requests, Fail(r) PROVE SInv'
  BY <1>5, RollbackSerial DEF Fail
<1>6. ASSUME NEW r \in Requests, Work(r) PROVE SInv'
  BY <1>6, RejectSerial, RecordSerial, FlushSerial, SkipSerial, StoreSerial, EvaluateSerial, ScheduledSerial,
     EndOfBatchSerial, ProjectGraphSerial, CorrelateSerial, CommitSerial DEF Work
<1>7. QED
  BY <1>1, <1>2, <1>3, <1>4, <1>5, <1>6 DEF Next

(* Requests that come one after the other lose nothing: each detection that *)
(* the order of arrival allows is recorded (evaluate_and_store), each       *)
(* watched event is counted (record_sightings), and no event has evidence   *)
(* twice (register_event_evidence), for any batches, rules and failures.    *)
THEOREM SerialAlwaysComplete == Spec => []SerialComplete
<1>1. SInv => SerialComplete
  BY DEF SInv
<1>2. Init => SInv
  BY InitSerial
<1>3. IInv /\ SInv /\ [Next]_vars => SInv'
  BY SerialStep
<1>4. QED
  BY <1>1, <1>2, <1>3, IngestionInvariant, PTL DEF Spec
=============================================================================
