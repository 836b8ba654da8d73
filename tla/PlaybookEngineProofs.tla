------------------------ MODULE PlaybookEngineProofs ------------------------
(***************************************************************************)
(* Proofs about PlaybookEngine for any set of playbooks and step graphs,   *)
(* any number of request threads and of runs.  The inductive invariant     *)
(* says, of a run that is being built, what each step's executor calls and *)
(* results are; a stored run keeps what it was when it ended.              *)
(***************************************************************************)
EXTENDS PlaybookEngine, SequenceTheorems, TLAPS

-----------------------------------------------------------------------------
(* The inductive invariant                                                  *)

\* The fields of a run while it is built, and of a stored one.
Locals == {"id", "rivals", "playbook", "status", "dry_run", "key", "approved", "ancestor", "results",
           "approval_required", "completed", "pending", "scan", "progress", "attempts"}

Approvable == Steps \cup UNION ApproveIds

RunningRun(r) ==
  /\ DOMAIN r = Locals
  /\ r.id \in 1..started /\ r.playbook \in Playbooks /\ r.status = "running" /\ r.dry_run \in BOOLEAN
  /\ r.approved \subseteq Approvable /\ r.ancestor \in 0..MaxRuns /\ r.results \in Results
  /\ r.approval_required \subseteq Steps /\ r.completed \subseteq Steps
  /\ r.pending \in Seq(Steps) /\ IsInjective(r.pending)
  /\ r.scan \in Seq(Steps) /\ IsInjective(r.scan)
  /\ Range(r.scan) \subseteq Range(r.pending) /\ Range(r.pending) \subseteq Range(StepsOf[r.playbook])
  /\ r.attempts \in Nat
  /\ r.attempts > 0 => r.scan # <<>> /\ r.attempts <= StepDef[Head(r.scan)].retries

Types ==
  /\ started \in 0..MaxRuns
  /\ DOMAIN runs \subseteq 1..started
  /\ \A id \in DOMAIN runs : StoredRun(id, runs[id])
  /\ DOMAIN active = Threads
  /\ \A t \in Threads : active[t] # NoRun => RunningRun(active[t])
  /\ DOMAIN calls \subseteq (1..started) \X Steps
  /\ \A c \in DOMAIN calls : calls[c] \in Nat

\* A run id belongs to one run.
OwnIds ==
  /\ \A t \in Threads : active[t] # NoRun => active[t].id \notin DOMAIN runs
  /\ \A t, u \in Threads : active[t] # NoRun /\ active[u] # NoRun /\ active[t].id = active[u].id => t = u

\* What the executor was called for: steps whose dependencies succeeded, gated
\* ones only with an approval.
CallsAllowed(r) ==
  \A s \in Steps : CallsOf(<<r.id, s>>) > 0 =>
    /\ \A d \in StepDef[s].depends_on : Outcome(r, d, "success")
    /\ ~r.dry_run /\ StepDef[s].tier + StepDef[s].listed > 0 => s \in r.approved

\* The attempts reported are the calls made.
CallsReported(r) ==
  \A i \in DOMAIN r.results :
    LET n == CallsOf(<<r.id, r.results[i].step>>)
    IN  r.results[i].attempts = n /\ (n > 0 => n <= StepDef[r.results[i].step].retries + 1)

\* An approval leads from a stored run of the same playbook to this one.
Resumed(r) ==
  r.approved # {} => /\ r.ancestor \in DOMAIN runs /\ r.ancestor < r.id
                     /\ runs[r.ancestor].playbook = r.playbook

\* Of a run that is being built: which results it has, and how often the
\* executor was called for a step that is pending.
InProgress(r) ==
  /\ \A i \in DOMAIN r.results :
       /\ r.results[i].step \in Steps /\ r.results[i].step \notin Range(r.pending)
       /\ r.results[i].status \in {"success", "awaiting_approval"}
       /\ r.results[i].status = "success" => r.results[i].step \in r.completed
       /\ r.results[i].status = "awaiting_approval" =>
            r.results[i].attempts = 0 /\ r.results[i].step \in r.approval_required
  /\ \A s \in r.completed : Outcome(r, s, "success")
  /\ \A s \in r.approval_required : Outcome(r, s, "awaiting_approval")
  /\ \A s \in Range(StepsOf[r.playbook]) : s \in Range(r.pending) \/ \E i \in DOMAIN r.results : r.results[i].step = s
  /\ \A s \in Range(r.pending) :
       CallsOf(<<r.id, s>>) = IF r.scan # <<>> /\ s = Head(r.scan) THEN r.attempts ELSE 0

\* A stored run is found under its key unless an approval gave the key up.
Found == \A id \in DOMAIN runs : id \in cleared \/ runs[id].key \in DOMAIN index

RunInv(r) == CallsAllowed(r) /\ CallsReported(r) /\ Resumed(r)

\* The status of one stored run.
StatusOf(id) ==
  LET r == runs[id]
  IN  /\ r.status = "completed" => \A s \in Range(StepsOf[r.playbook]) : Outcome(r, s, "success")
      /\ r.status = "awaiting_approval" =>
           /\ r.approval_required # {}
           /\ \A s \in r.approval_required : Outcome(r, s, "awaiting_approval") /\ CallsOf(<<id, s>>) = 0
      /\ r.status = "failed" => \E s \in Steps \cup {"dag"} : Outcome(r, s, "failed")

PInv ==
  /\ Types /\ OwnIds /\ Found /\ IndexConsistent
  /\ \A id \in DOMAIN runs : RunInv(runs[id]) /\ StatusOf(id)
  /\ \A t \in Threads : active[t] # NoRun => RunInv(active[t]) /\ InProgress(active[t])
  /\ OneRunPerKeyInSequence

-----------------------------------------------------------------------------
(* Steps of a playbook                                                      *)

\* A step taken from the front of a list without duplicates.
LEMMA TailFacts ==
  ASSUME NEW S, NEW q \in Seq(S), q # <<>>, IsInjective(q)
  PROVE  /\ Head(q) \in S /\ Head(q) \in Range(q)
         /\ Tail(q) \in Seq(S) /\ IsInjective(Tail(q))
         /\ Range(Tail(q)) \subseteq Range(q) /\ Head(q) \notin Range(Tail(q))
         /\ Tail(q) # <<>> => Head(Tail(q)) \in Range(Tail(q))
<1> PICK r, n : r = Tail(q) /\ n = Len(q)
  OBVIOUS
<1>1. /\ n \in Nat /\ n > 0 /\ DOMAIN q = 1..n /\ Head(q) = q[1] /\ 1 \in 1..n /\ q[1] \in S
      /\ r \in Seq(S) /\ DOMAIN r = 1..(n - 1) /\ \A i \in 1..(n - 1) : r[i] = q[i + 1]
  OBVIOUS
<1>2. \A i \in 1..(n - 1) : i + 1 \in 1..n /\ i + 1 # 1
  BY <1>1
<1>3. \A i, j \in 1..(n - 1) : i + 1 = j + 1 => i = j
  BY <1>1
<1>4. IsInjective(r)
  BY <1>1, <1>2, <1>3 DEF IsInjective
<1>5. Range(r) \subseteq Range(q) /\ q[1] \notin Range(r) /\ q[1] \in Range(q)
  BY <1>1, <1>2 DEF IsInjective, Range
<1>6. r # <<>> => Head(r) \in Range(r)
  BY <1>1 DEF Range
<1>7. QED
  BY <1>1, <1>4, <1>5, <1>6

\* del pending[step_id].
LEMMA RemoveFacts ==
  ASSUME NEW S, NEW q \in Seq(S), IsInjective(q), NEW e \in Range(q)
  PROVE  /\ RemoveFirst(q, e) \in Seq(S) /\ IsInjective(RemoveFirst(q, e))
         /\ Range(RemoveFirst(q, e)) = Range(q) \ {e}
<1> PICK n : n = Len(q)
  OBVIOUS
<1>1. n \in Nat /\ DOMAIN q = 1..n
  OBVIOUS
<1>2. PICK k \in 1..n : q[k] = e
  BY <1>1 DEF Range
<1>3. \A i \in 1..n : q[i] = e => i = k
  BY <1>1, <1>2 DEF IsInjective
<1>4. SelectInSeq(q, LAMBDA v : v = e) = k
  <2> DEFINE I == {i \in 1..n : q[i] = e}
  <2>1. I = {k}
    BY <1>2, <1>3
  <2>2. Min({k}) = k
    BY <1>1 DEF Min
  <2>3. QED
    BY <2>1, <2>2 DEF SelectInSeq
<1>5. RemoveFirst(q, e) = SubSeq(q, 1, k - 1) \o SubSeq(q, k + 1, n)
  BY <1>2, <1>4 DEF RemoveFirst, RemoveAt
<1> PICK r : r = RemoveFirst(q, e)
  OBVIOUS
<1>8. r \in Seq(S) /\ DOMAIN r = 1..(n - 1) /\ \A i \in 1..(n - 1) : r[i] = IF i < k THEN q[i] ELSE q[i + 1]
  <2>1. k - 1 \in Int /\ k + 1 \in Int /\ n \in Int /\ n - (k + 1) + 1 = n - k /\ (k - 1) - 1 + 1 = k - 1
    BY <1>1, <1>2
  <2>2. \A i \in 1..n : q[i] \in S
    OBVIOUS
  <2>3. PICK a, b : /\ a \in Seq(S) /\ Len(a) = k - 1 /\ \A i \in 1..(k - 1) : a[i] = q[i]
                    /\ b \in Seq(S) /\ Len(b) = n - k /\ \A i \in 1..(n - k) : b[i] = q[k + i]
                    /\ RemoveFirst(q, e) = a \o b
    <3>1. SubSeq(q, 1, k - 1) \in Seq(S) /\ Len(SubSeq(q, 1, k - 1)) = k - 1 /\ \A i \in 1..(k - 1) : SubSeq(q, 1, k - 1)[i] = q[i]
      BY <2>1, <2>2, <1>1, SubSeqProperties
    <3>2. SubSeq(q, k + 1, n) \in Seq(S) /\ Len(SubSeq(q, k + 1, n)) = n - k /\ \A i \in 1..(n - k) : SubSeq(q, k + 1, n)[i] = q[k + i]
      BY <2>1, <2>2, <1>1, SubSeqProperties
    <3>3. QED
      BY <3>1, <3>2, <1>5
  <2>4. /\ a \o b \in Seq(S) /\ Len(a \o b) = (k - 1) + (n - k)
        /\ \A i \in 1..((k - 1) + (n - k)) : (a \o b)[i] = IF i <= k - 1 THEN a[i] ELSE b[i - (k - 1)]
    <3>1. a \in Seq(S) /\ b \in Seq(S)
      BY <2>3
    <3>2. /\ a \o b \in Seq(S) /\ Len(a \o b) = Len(a) + Len(b)
          /\ \A i \in 1..(Len(a) + Len(b)) : (a \o b)[i] = IF i <= Len(a) THEN a[i] ELSE b[i - Len(a)]
      BY <3>1, ConcatProperties
    <3>3. Len(a) = k - 1 /\ Len(b) = n - k
      BY <2>3
    <3>4. QED
      BY <3>2, <3>3
  <2>5. (k - 1) + (n - k) = n - 1
    BY <1>1
  <2>6. /\ r \in Seq(S) /\ DOMAIN r = 1..(n - 1)
        /\ \A i \in 1..(n - 1) : r[i] = IF i <= k - 1 THEN a[i] ELSE b[i - (k - 1)]
    BY <2>3, <2>4, <2>5
  <2>7. ASSUME NEW i \in 1..(n - 1) PROVE r[i] = IF i < k THEN q[i] ELSE q[i + 1]
    <3>1. CASE i < k
      <4>1. i \in 1..(k - 1) /\ i <= k - 1
        BY <1>1, <3>1
      <4>2. QED
        BY <4>1, <3>1, <2>3, <2>6
    <3>2. CASE ~(i < k)
      <4>1. ~(i <= k - 1) /\ i - (k - 1) \in 1..(n - k) /\ k + (i - (k - 1)) = i + 1
        BY <1>1, <3>2
      <4>2. QED
        BY <4>1, <3>2, <2>3, <2>6
    <3>3. QED
      BY <3>1, <3>2
  <2>8. QED
    BY <2>6, <2>7
<1>10. \A i \in 1..(n - 1) : (i < k => i \in 1..n /\ i # k) /\ (~(i < k) => i + 1 \in 1..n /\ i + 1 # k)
  BY <1>1
<1>11. \A i, j \in 1..(n - 1) : r[i] = r[j] => i = j
  <2> SUFFICES ASSUME NEW i \in 1..(n - 1), NEW j \in 1..(n - 1), r[i] = r[j] PROVE i = j
    OBVIOUS
  <2>1. \A x, y \in 1..n : q[x] = q[y] => x = y
    BY <1>1 DEF IsInjective
  <2>2. (IF i < k THEN i ELSE i + 1) = (IF j < k THEN j ELSE j + 1)
    BY <2>1, <1>8, <1>10
  <2>3. QED
    BY <2>2, <1>1
<1>12. \A i \in 1..n : i # k => \E j \in 1..(n - 1) : r[j] = q[i]
  <2> SUFFICES ASSUME NEW i \in 1..n, i # k PROVE \E j \in 1..(n - 1) : r[j] = q[i]
    OBVIOUS
  <2>1. CASE i < k
    <3>1. i \in 1..(n - 1)
      BY <1>1, <2>1
    <3>2. QED
      BY <3>1, <2>1, <1>8
  <2>2. CASE ~(i < k)
    <3>1. i - 1 \in 1..(n - 1) /\ ~(i - 1 < k) /\ (i - 1) + 1 = i
      BY <1>1, <2>2
    <3>2. QED
      BY <3>1, <1>8
  <2>3. QED
    BY <2>1, <2>2
<1>13. \A x \in Range(r) : x \in Range(q) \ {e}
  <2> SUFFICES ASSUME NEW x \in Range(r) PROVE x \in Range(q) /\ x # e
    OBVIOUS
  <2>1. PICK i \in 1..(n - 1) : x = r[i]
    BY <1>8 DEF Range
  <2>2. \E j \in 1..n : j # k /\ x = q[j]
    BY <2>1, <1>8, <1>10
  <2>3. QED
    BY <2>2, <1>1, <1>3 DEF Range
<1>14. \A x \in Range(q) \ {e} : x \in Range(r)
  <2> SUFFICES ASSUME NEW x \in Range(q), x # e PROVE x \in Range(r)
    OBVIOUS
  <2>1. PICK i \in 1..n : x = q[i]
    BY <1>1 DEF Range
  <2>2. PICK j \in 1..(n - 1) : r[j] = x
    BY <2>1, <1>2, <1>12
  <2>3. QED
    BY <2>2, <1>8 DEF Range
<1>15. Range(r) = Range(q) \ {e}
  BY <1>13, <1>14
<1>16. IsInjective(r)
  BY <1>8, <1>11 DEF IsInjective
<1>17. QED
  BY <1>5, <1>8, <1>15, <1>16

\* The policy asks for an approval of tier 1 and tier 2 actions only.
LEMMA PolicyFacts ==
  ASSUME NEW s \in Steps
  PROVE  /\ StepDef[s].tier + StepDef[s].listed > 0 <=> evaluate_action(s) = "REQUIRE_APPROVAL"
         /\ StepDef[s].retries \in Nat /\ StepDef[s].depends_on \subseteq Steps
<1>1. StepDef[s].tier \in 0..2 /\ StepDef[s].listed \in 0..2 /\ StepDef[s].retries \in Nat /\ StepDef[s].depends_on \subseteq Steps
  BY PlaybookAssumption
<1>2. evaluate_action(s) = "REQUIRE_APPROVAL" <=>
        StepDef[s].listed = 2 \/ StepDef[s].tier = 2 \/ StepDef[s].listed = 1 \/ StepDef[s].tier = 1
  BY DEF evaluate_action
<1>3. QED
  BY <1>1, <1>2

-----------------------------------------------------------------------------
(* The runs a step does not touch                                           *)

LEMMA CallsNat ==
  ASSUME Types, NEW c
  PROVE  CallsOf(c) \in Nat
BY DEF Types, CallsOf

\* The executor is called once more for a step.
LEMMA CallMoves ==
  ASSUME Types, NEW i \in 1..started, NEW s \in Steps, started' = started,
         calls' = Put(calls, <<i, s>>, CallsOf(<<i, s>>) + 1)
  PROVE  /\ CallsOf(<<i, s>>)' = CallsOf(<<i, s>>) + 1
         /\ \A c : c # <<i, s>> => CallsOf(c)' = CallsOf(c)
         /\ DOMAIN calls' \subseteq (1..started) \X Steps /\ \A c \in DOMAIN calls' : calls'[c] \in Nat
<1> PICK d, n : d = <<i, s>> /\ n = CallsOf(d) + 1
  OBVIOUS
<1>1. n \in Nat /\ d \in (1..started) \X Steps /\ calls' = Put(calls, d, n)
  BY CallsNat
<1>2. DOMAIN calls' = DOMAIN calls \cup {d} /\ \A c \in DOMAIN calls' : calls'[c] = IF c = d THEN n ELSE calls[c]
  BY <1>1 DEF Put
<1>3. CallsOf(d)' = n /\ \A c : c # d => CallsOf(c)' = CallsOf(c)
  BY <1>2 DEF CallsOf
<1>4. DOMAIN calls' \subseteq (1..started) \X Steps /\ \A c \in DOMAIN calls' : calls'[c] \in Nat
  BY <1>1, <1>2 DEF Types
<1>5. QED
  BY <1>3, <1>4

\* Stored runs stay as they are.
Kept == \A id \in DOMAIN runs : id \in DOMAIN runs' /\ runs'[id] = runs[id]

SameCalls(i) == \A s : CallsOf(<<i, s>>)' = CallsOf(<<i, s>>)

LEMMA RunInvKept ==
  ASSUME NEW r, Kept, SameCalls(r.id), RunInv(r)
  PROVE  RunInv(r)'
<1>1. CallsAllowed(r)'
  BY DEF RunInv, CallsAllowed, SameCalls, Outcome
<1>2. CallsReported(r)'
  BY DEF RunInv, CallsReported, SameCalls
<1>3. Resumed(r)'
  BY DEF RunInv, Resumed, Kept
<1>4. QED
  BY <1>1, <1>2, <1>3 DEF RunInv

LEMMA InProgressKept ==
  ASSUME NEW r, SameCalls(r.id), InProgress(r)
  PROVE  InProgress(r)'
BY DEF InProgress, SameCalls, Outcome

LEMMA StatusKept ==
  ASSUME NEW id \in DOMAIN runs, Kept, SameCalls(id), StatusOf(id)
  PROVE  StatusOf(id)'
BY DEF StatusOf, Kept, SameCalls, Outcome

\* The stored form of a run has its id, key, rivals, results and approvals.
LEMMA PublicFacts ==
  ASSUME NEW r
  PROVE  /\ Public(r).id = r.id /\ Public(r).key = r.key /\ Public(r).rivals = r.rivals
         /\ Public(r).results = r.results /\ Public(r).dry_run = r.dry_run /\ Public(r).approved = r.approved
         /\ Public(r).ancestor = r.ancestor /\ Public(r).playbook = r.playbook /\ Public(r).status = r.status
         /\ Public(r).approval_required = r.approval_required
BY DEF Public

LEMMA PublicRunInv ==
  ASSUME NEW r, NEW x, x = Public(r)
  PROVE  /\ RunInv(x) <=> RunInv(r)
         /\ RunInv(x)' <=> RunInv(r)'
         /\ \A s, st : Outcome(x, s, st) <=> Outcome(r, s, st)
<1>1. /\ x.id = r.id /\ x.results = r.results /\ x.dry_run = r.dry_run /\ x.approved = r.approved
      /\ x.ancestor = r.ancestor /\ x.playbook = r.playbook
  BY PublicFacts
<1>2. \A s, st : Outcome(x, s, st) <=> Outcome(r, s, st)
  BY <1>1 DEF Outcome
<1>3. RunInv(x) <=> RunInv(r)
  BY <1>1, <1>2 DEF RunInv, CallsAllowed, CallsReported, Resumed
<1>4. RunInv(x)' <=> RunInv(r)'
  BY <1>1 DEF RunInv, CallsAllowed, CallsReported, Resumed, Outcome
<1>5. QED
  BY <1>2, <1>3, <1>4

\* Every run of a set with the ids, keys and rivals of another keeps to the order.
LEMMA SequenceKept ==
  ASSUME OneRunPerKeyInSequence, cleared \subseteq cleared',
         \A r \in AllRuns' : \E x \in AllRuns : x.id = r.id /\ x.key = r.key /\ x.rivals = r.rivals
  PROVE  OneRunPerKeyInSequence'
<1> SUFFICES ASSUME NEW r \in AllRuns', NEW q \in AllRuns', r.key = q.key, r.id < q.id
             PROVE  r.id \in cleared' \cup q.rivals
  BY DEF OneRunPerKeyInSequence
<1>1. PICK x \in AllRuns : x.id = r.id /\ x.key = r.key /\ x.rivals = r.rivals
  OBVIOUS
<1>2. PICK y \in AllRuns : y.id = q.id /\ y.key = q.key /\ y.rivals = q.rivals
  OBVIOUS
<1>3. x.id \in cleared \cup y.rivals
  BY <1>1, <1>2 DEF OneRunPerKeyInSequence
<1>4. QED
  BY <1>1, <1>2, <1>3

\* What a step of thread t leaves alone: the other threads' runs and the calls
\* made for other runs than the one with id i.
Elsewhere(t, i) ==
  /\ DOMAIN active' = Threads /\ \A u \in Threads : u # t => active'[u] = active[u]
  /\ \A c : c[1] # i => CallsOf(c)' = CallsOf(c)
  /\ DOMAIN calls' \subseteq (1..started') \X Steps /\ \A c \in DOMAIN calls' : calls'[c] \in Nat

LEMMA SameCallsElsewhere ==
  ASSUME NEW t, NEW i, Elsewhere(t, i), NEW j, j # i
  PROVE  SameCalls(j)
<1> SUFFICES ASSUME NEW s PROVE CallsOf(<<j, s>>)' = CallsOf(<<j, s>>)
  BY DEF SameCalls
<1>1. <<j, s>>[1] # i
  OBVIOUS
<1>2. QED
  BY <1>1 DEF Elsewhere

LEMMA NotNoRun ==
  ASSUME NEW r, r.id \in Nat \ {0}
  PROVE  r # NoRun
BY DEF NoRun

\* The fields of the runs of other threads and of the stored runs.
LEMMA OthersKept ==
  ASSUME PInv, NEW t \in Threads, active[t] # NoRun, Elsewhere(t, active[t].id), Kept, started' = started
  PROVE  /\ \A id \in DOMAIN runs : id # active[t].id /\ RunInv(runs[id])' /\ StatusOf(id)'
         /\ \A u \in Threads : u # t /\ active'[u] # NoRun =>
              /\ active[u] # NoRun /\ active'[u] = active[u] /\ active[u].id # active[t].id
              /\ RunningRun(active[u])' /\ RunInv(active[u])' /\ InProgress(active[u])'
<1>1. ASSUME NEW id \in DOMAIN runs PROVE id # active[t].id /\ RunInv(runs[id])' /\ StatusOf(id)'
  <2>1. id # active[t].id
    BY DEF PInv, OwnIds
  <2>2. runs[id].id = id
    BY DEF PInv, Types, StoredRun
  <2>3. SameCalls(id)
    BY <2>1, SameCallsElsewhere
  <2>4. RunInv(runs[id]) /\ StatusOf(id)
    BY DEF PInv
  <2>5. PICK x : x = runs[id]
    OBVIOUS
  <2>6. RunInv(x)'
    BY <2>2, <2>3, <2>4, <2>5, RunInvKept
  <2>7. x = runs'[id]
    BY <2>5 DEF Kept
  <2>8. RunInv(runs[id])'
    BY <2>6, <2>7
  <2>9. QED
    BY <2>1, <2>3, <2>4, <2>8, StatusKept
<1>2. ASSUME NEW u \in Threads, u # t, active'[u] # NoRun
      PROVE  /\ active[u] # NoRun /\ active'[u] = active[u] /\ active[u].id # active[t].id
             /\ RunningRun(active[u])' /\ RunInv(active[u])' /\ InProgress(active[u])'
  <2>1. active'[u] = active[u] /\ active[u] # NoRun
    BY <1>2 DEF Elsewhere
  <2>2. active[u].id # active[t].id
    BY <1>2, <2>1 DEF PInv, OwnIds
  <2>3. PICK x : x = active[u]
    OBVIOUS
  <2>4. SameCalls(x.id)
    BY <2>2, <2>3, SameCallsElsewhere
  <2>5. RunningRun(x) /\ RunInv(x) /\ InProgress(x)
    BY <2>1, <2>3 DEF PInv, Types
  <2>6. RunInv(x)' /\ InProgress(x)'
    BY <2>4, <2>5, RunInvKept, InProgressKept
  <2>7. RunningRun(x)'
    BY <2>5 DEF RunningRun
  <2>8. x = active'[u]
    BY <2>1, <2>3
  <2>9. QED
    BY <2>1, <2>2, <2>6, <2>7, <2>8
<1>3. QED
  BY <1>1, <1>2

\* A thread goes on with its run.
LEMMA BuildStep ==
  ASSUME PInv, NEW t \in Threads, active[t] # NoRun, Elsewhere(t, active[t].id),
         UNCHANGED <<runs, index, started, cleared>>,
         NEW r, active'[t] = r, r.id = active[t].id, r.key = active[t].key, r.rivals = active[t].rivals,
         RunningRun(r), RunInv(r)', InProgress(r)'
  PROVE  PInv'
<1>1. Kept
  BY DEF Kept
<1>2. /\ \A id \in DOMAIN runs : id # active[t].id /\ RunInv(runs[id])' /\ StatusOf(id)'
      /\ \A u \in Threads : u # t /\ active'[u] # NoRun =>
           /\ active[u] # NoRun /\ active'[u] = active[u] /\ active[u].id # active[t].id
           /\ RunningRun(active[u])' /\ RunInv(active[u])' /\ InProgress(active[u])'
  BY <1>1, OthersKept
<1>3. RunningRun(r)' /\ r.id \in Nat \ {0}
  BY DEF RunningRun
<1>4. ASSUME NEW u \in Threads, active'[u] # NoRun
      PROVE  RunningRun(active[u])' /\ RunInv(active[u])' /\ InProgress(active[u])'
  BY <1>2, <1>3, <1>4
<1>5. Types'
  <2>1. \A id \in DOMAIN runs' : StoredRun(id, runs'[id])
    BY DEF PInv, Types
  <2>2. QED
    BY <1>4, <2>1 DEF PInv, Types, Elsewhere, StoredRun
<1>6. OwnIds'
  <2>1. \A u \in Threads : active'[u] # NoRun => active[u] # NoRun /\ active'[u].id = active[u].id
    BY <1>2
  <2>2. QED
    BY <2>1 DEF PInv, OwnIds
<1>7. Found' /\ IndexConsistent'
  BY DEF PInv, Found, IndexConsistent
<1>8. \A id \in DOMAIN runs' : RunInv(runs[id])' /\ StatusOf(id)'
  BY <1>2
<1>9. OneRunPerKeyInSequence'
  <2>1. ASSUME NEW x \in AllRuns' PROVE \E y \in AllRuns : y.id = x.id /\ y.key = x.key /\ y.rivals = x.rivals
    <3>1. CASE \E id \in DOMAIN runs' : x = runs'[id]
      BY <3>1 DEF AllRuns
    <3>2. CASE \E u \in Threads : active'[u] # NoRun /\ x = Public(active[u])'
      <4>1. PICK u \in Threads : active'[u] # NoRun /\ x = Public(active[u])'
        BY <3>2
      <4>2. active[u] # NoRun /\ active'[u].id = active[u].id /\ active'[u].key = active[u].key /\ active'[u].rivals = active[u].rivals
        BY <1>2, <4>1
      <4>3. Public(active[u]) \in AllRuns
        BY <4>2 DEF AllRuns, Running
      <4>4. QED
        BY <4>1, <4>2, <4>3 DEF Public
    <3>3. QED
      BY <3>1, <3>2 DEF AllRuns, Running
  <2>2. cleared \subseteq cleared' /\ OneRunPerKeyInSequence
    BY DEF PInv
  <2>3. QED
    BY <2>1, <2>2, SequenceKept
<1>10. QED
  BY <1>4, <1>5, <1>6, <1>7, <1>8, <1>9 DEF PInv

\* A run ends and is stored.
LEMMA StoreStep ==
  ASSUME PInv, NEW t \in Threads, active[t] # NoRun, Elsewhere(t, active[t].id),
         UNCHANGED <<started, cleared>>,
         NEW r, Store(t, r), r.id = active[t].id, r.key = active[t].key, r.rivals = active[t].rivals,
         StoredRun(r.id, Public(r)), RunInv(r)',
         runs' = Put(runs, r.id, Public(r)) => StatusOf(r.id)'
  PROVE  PInv'
<1> PICK i, x : i = r.id /\ x = Public(r)
  OBVIOUS
<1>1. /\ runs' = Put(runs, i, x) /\ index' = Put(index, r.key, i)
      /\ active' = [active EXCEPT ![t] = NoRun] /\ DOMAIN active = Threads
  BY DEF Store, PInv, Types
<1>2. /\ DOMAIN runs' = DOMAIN runs \cup {i} /\ runs'[i] = x /\ \A id \in DOMAIN runs : id # i => runs'[id] = runs[id]
      /\ DOMAIN index' = DOMAIN index \cup {r.key} /\ index'[r.key] = i
      /\ \A k \in DOMAIN index : k # r.key => index'[k] = index[k]
      /\ active'[t] = NoRun
  BY <1>1 DEF Put
<1>3. i \notin DOMAIN runs /\ i \in 1..started /\ x.id = i /\ x.key = r.key /\ x.rivals = r.rivals
  <2>1. RunningRun(active[t])
    BY DEF PInv, Types
  <2>2. QED
    BY <2>1, PublicFacts DEF PInv, OwnIds, RunningRun
<1>4. Kept
  BY <1>2, <1>3 DEF Kept
<1>5. /\ \A id \in DOMAIN runs : id # active[t].id /\ RunInv(runs[id])' /\ StatusOf(id)'
      /\ \A u \in Threads : u # t /\ active'[u] # NoRun =>
           /\ active[u] # NoRun /\ active'[u] = active[u] /\ active[u].id # active[t].id
           /\ RunningRun(active[u])' /\ RunInv(active[u])' /\ InProgress(active[u])'
  BY <1>4, OthersKept
<1>6. \A u \in Threads : active'[u] # NoRun =>
        /\ u # t /\ active[u] # NoRun /\ active'[u] = active[u] /\ active[u].id # i
        /\ RunningRun(active[u])' /\ RunInv(active[u])' /\ InProgress(active[u])'
  BY <1>2, <1>5
<1>7. RunInv(runs[i])' /\ StatusOf(i)'
  <2>1. RunInv(x)'
    BY PublicRunInv
  <2>2. RunInv(runs[i])'
    BY <2>1, <1>2
  <2>3. StatusOf(i)'
    BY <1>1
  <2>4. QED
    BY <2>2, <2>3
<1>8. Types'
  <2>1. \A id \in DOMAIN runs' : StoredRun(id, runs'[id])
    BY <1>2 DEF PInv, Types
  <2>2. \A id \in DOMAIN runs' : StoredRun(id, runs[id])'
    BY <2>1 DEF StoredRun
  <2>3. DOMAIN runs' \subseteq 1..started
    BY <1>2, <1>3 DEF PInv, Types
  <2>4. QED
    BY <1>6, <2>2, <2>3 DEF PInv, Types, Elsewhere
<1>9. OwnIds'
  BY <1>2, <1>6 DEF PInv, OwnIds
<1>10. Found'
  BY <1>2, <1>3 DEF PInv, Found
<1>11. IndexConsistent'
  BY <1>2, <1>3 DEF PInv, IndexConsistent
<1>12. OneRunPerKeyInSequence'
  <2>1. ASSUME NEW y \in AllRuns' PROVE \E z \in AllRuns : z.id = y.id /\ z.key = y.key /\ z.rivals = y.rivals
    <3>1. CASE \E id \in DOMAIN runs : y = runs[id]
      BY <3>1 DEF AllRuns
    <3>2. CASE y = x
      <4>1. Public(active[t]) \in AllRuns
        BY DEF AllRuns, Running
      <4>2. QED
        BY <4>1, <3>2, <1>3 DEF Public
    <3>3. CASE \E u \in Threads : active'[u] # NoRun /\ y = Public(active[u])'
      <4>1. PICK u \in Threads : active'[u] # NoRun /\ y = Public(active[u])'
        BY <3>3
      <4>2. y = Public(active[u]) /\ active[u] # NoRun
        BY <1>6, <4>1 DEF Public
      <4>3. QED
        BY <4>2 DEF AllRuns, Running
    <3>4. QED
      <4>1. (\E id \in DOMAIN runs' : y = runs'[id]) \/ (\E u \in Threads : active'[u] # NoRun /\ y = Public(active[u])')
        BY DEF AllRuns, Running
      <4>2. QED
        BY <4>1, <3>1, <3>2, <3>3, <1>2
  <2>2. cleared \subseteq cleared' /\ OneRunPerKeyInSequence
    BY DEF PInv
  <2>3. QED
    BY <2>1, <2>2, SequenceKept
<1>13. QED
  BY <1>2, <1>5, <1>6, <1>7, <1>8, <1>9, <1>10, <1>11, <1>12 DEF PInv

\* run() begins: the stored run is returned, or a new run starts.
LEMMA RunStep ==
  ASSUME PInv, NEW t \in Threads, NEW p \in Playbooks, NEW dry \in BOOLEAN, NEW key,
         NEW approved \in SUBSET Approvable, NEW ancestor \in 0..MaxRuns, NEW idx,
         run(t, p, dry, key, approved, ancestor, idx),
         DOMAIN idx \subseteq DOMAIN index, \A k \in DOMAIN idx : idx[k] = index[k],
         cleared \subseteq cleared',
         \A id \in DOMAIN runs : runs[id].key \in DOMAIN idx \/ id \in cleared',
         approved # {} => ancestor \in DOMAIN runs /\ runs[ancestor].playbook = p
  PROVE  PInv'
<1>1. UNCHANGED <<runs, calls>> /\ index' = idx /\ active[t] = NoRun /\ DOMAIN active = Threads
  BY DEF run, PInv, Types
<1>2. Kept /\ \A j : SameCalls(j)
  BY <1>1 DEF Kept, SameCalls, CallsOf
<1>3. started' \in 0..MaxRuns /\ started <= started'
  <2>1. started \in 0..MaxRuns /\ MaxRuns \in Nat
    BY PlaybookAssumption DEF PInv, Types
  <2>2. CASE started' = started
    BY <2>1, <2>2
  <2>3. CASE started < MaxRuns /\ started' = started + 1
    BY <2>1, <2>3
  <2>4. QED
    BY <2>2, <2>3 DEF run
<1>4. 1..started \subseteq 1..started'
  <2>1. started \in Nat /\ started' \in Nat
    BY <1>3 DEF PInv, Types
  <2>2. \A i \in 1..started : i \in 1..started'
    BY <1>3, <2>1
  <2>3. QED
    BY <2>2
<1>5. \A id \in DOMAIN runs' : StoredRun(id, runs[id])' /\ RunInv(runs[id])' /\ StatusOf(id)' /\ id \in 1..started
  <2> SUFFICES ASSUME NEW id \in DOMAIN runs PROVE StoredRun(id, runs[id])' /\ RunInv(runs[id])' /\ StatusOf(id)' /\ id \in 1..started
    BY <1>1
  <2>1. StoredRun(id, runs[id]) /\ RunInv(runs[id]) /\ StatusOf(id) /\ id \in 1..started
    BY DEF PInv, Types
  <2>2. PICK x : x = runs[id] /\ x = runs'[id]
    BY <1>1
  <2>3. RunInv(x)' /\ StoredRun(id, x)'
    BY <1>2, <2>1, <2>2, RunInvKept DEF StoredRun
  <2>4. QED
    BY <1>2, <2>1, <2>2, <2>3, StatusKept
<1>6. \A u \in Threads : active[u] # NoRun =>
        \A x : x = active[u] => RunningRun(x)' /\ RunInv(x)' /\ InProgress(x)' /\ x.id \in 1..started
  <2> SUFFICES ASSUME NEW u \in Threads, active[u] # NoRun, NEW x, x = active[u]
               PROVE  RunningRun(x)' /\ RunInv(x)' /\ InProgress(x)' /\ x.id \in 1..started
    OBVIOUS
  <2>1. RunningRun(x) /\ RunInv(x) /\ InProgress(x)
    BY DEF PInv, Types
  <2>2. RunInv(x)' /\ InProgress(x)'
    BY <1>2, <2>1, RunInvKept, InProgressKept
  <2>3. RunningRun(x)' /\ x.id \in 1..started
    BY <1>4, <2>1 DEF RunningRun
  <2>4. QED
    BY <2>2, <2>3
<1>7. DOMAIN calls' \subseteq (1..started') \X Steps /\ \A c \in DOMAIN calls' : calls'[c] \in Nat
  BY <1>1, <1>4 DEF PInv, Types
<1>8. Found'
  BY <1>1 DEF Found
<1>9. IndexConsistent'
  BY <1>1 DEF PInv, IndexConsistent
<1>10. CASE key \in DOMAIN idx
  <2>1. active' = active /\ started' = started
    BY <1>10 DEF run
  <2>2. \A u \in Threads : active'[u] # NoRun => RunningRun(active[u])' /\ RunInv(active[u])' /\ InProgress(active[u])'
    <3> SUFFICES ASSUME NEW u \in Threads, active[u] # NoRun PROVE RunningRun(active[u])' /\ RunInv(active[u])' /\ InProgress(active[u])'
      BY <2>1
    <3>1. PICK x : x = active[u] /\ x = active'[u]
      BY <2>1
    <3>2. QED
      BY <3>1, <1>6
  <2>3. Types'
    BY <1>1, <1>3, <1>4, <1>5, <1>7, <2>1, <2>2 DEF Types
  <2>4. OwnIds'
    BY <1>1, <2>1 DEF PInv, OwnIds
  <2>5. OneRunPerKeyInSequence'
    <3>1. \A r \in AllRuns' : r \in AllRuns
      BY <1>1, <2>1 DEF AllRuns, Running, Public
    <3>2. OneRunPerKeyInSequence
      BY DEF PInv
    <3>3. QED
      BY <3>1, <3>2, SequenceKept
  <2>6. QED
    BY <1>5, <1>8, <1>9, <2>2, <2>3, <2>4, <2>5 DEF PInv
<1>11. CASE key \notin DOMAIN idx
  <2> PICK n, r : n = started + 1 /\ r = NewRun(n, p, dry, key, approved, ancestor)
    OBVIOUS
  <2>1. started < MaxRuns /\ started' = n /\ active' = [active EXCEPT ![t] = r]
    BY <1>11 DEF run
  <2>2. /\ n \in 1..started' /\ n \notin 1..started /\ n \in Nat \ {0} /\ started \in Nat
        /\ \A i \in 1..started : i < n /\ ~(n < i)
    BY <2>1 DEF PInv, Types
  <2>3. active'[t] = r /\ DOMAIN active' = Threads /\ \A u \in Threads : u # t => active'[u] = active[u]
    BY <1>1, <2>1
  <2>4. /\ r.id = n /\ r.rivals = {active[u].id : u \in Threads} /\ r.playbook = p /\ r.status = "running"
        /\ r.dry_run = dry /\ r.key = key /\ r.approved = approved /\ r.ancestor = ancestor /\ r.results = <<>>
        /\ r.approval_required = {} /\ r.completed = {} /\ r.pending = StepsOf[p] /\ r.scan = StepsOf[p] /\ r.attempts = 0
        /\ DOMAIN r = Locals
    BY DEF NewRun, Locals
  <2>5. StepsOf[p] \in Seq(Steps) /\ IsInjective(StepsOf[p])
    BY PlaybookAssumption
  <2>6. RunningRun(r)'
    <3>1. <<>> \in Results
      BY DEF Results
    <3>2. QED
      BY <2>2, <2>4, <2>5, <3>1 DEF RunningRun
  <2>7. \A s : CallsOf(<<n, s>>)' = 0
    <3> SUFFICES ASSUME NEW s PROVE <<n, s>> \notin DOMAIN calls'
      BY DEF CallsOf
    <3>1. <<n, s>> \notin (1..started) \X Steps
      BY <2>2
    <3>2. QED
      BY <1>1, <3>1 DEF PInv, Types
  <2>8. RunInv(r)'
    <3>1. CallsAllowed(r)'
      BY <2>4, <2>7 DEF CallsAllowed
    <3>2. CallsReported(r)'
      BY <2>4 DEF CallsReported
    <3>3. Resumed(r)'
      <4>1. approved # {} => ancestor \in 1..started
        BY DEF PInv, Types
      <4>2. QED
        BY <1>1, <2>2, <2>4, <4>1 DEF Resumed
    <3>4. QED
      BY <3>1, <3>2, <3>3 DEF RunInv
  <2>9. InProgress(r)'
    BY <2>4, <2>7 DEF InProgress
  <2>10. \A u \in Threads : active'[u] # NoRun => RunningRun(active[u])' /\ RunInv(active[u])' /\ InProgress(active[u])'
    <3> SUFFICES ASSUME NEW u \in Threads, active'[u] # NoRun PROVE RunningRun(active[u])' /\ RunInv(active[u])' /\ InProgress(active[u])'
      OBVIOUS
    <3>1. CASE u = t
      BY <3>1, <2>3, <2>6, <2>8, <2>9
    <3>2. CASE u # t
      <4>1. PICK x : x = active[u] /\ x = active'[u]
        BY <3>2, <2>3
      <4>2. QED
        BY <4>1, <1>6
    <3>3. QED
      BY <3>1, <3>2
  <2>11. Types'
    BY <1>1, <1>3, <1>4, <1>5, <1>7, <2>3, <2>10 DEF Types
  <2>12. OwnIds'
    <3>1. \A u \in Threads : u # t /\ active'[u] # NoRun => active'[u].id # n /\ active[u] # NoRun /\ active'[u] = active[u]
      BY <1>6, <2>2, <2>3
    <3>2. n \notin DOMAIN runs'
      BY <1>5, <2>2
    <3>3. \A u \in Threads : active'[u] # NoRun => active'[u].id \notin DOMAIN runs'
      BY <1>1, <2>3, <2>4, <3>1, <3>2 DEF PInv, OwnIds
    <3>4. \A u, v \in Threads : active'[u] # NoRun /\ active'[v] # NoRun /\ active'[u].id = active'[v].id => u = v
      BY <2>3, <2>4, <3>1 DEF PInv, OwnIds
    <3>5. QED
      BY <3>3, <3>4 DEF OwnIds
  <2>13. OneRunPerKeyInSequence'
    <3> PICK y : y = Public(r)
      OBVIOUS
    <3>1. y.id = n /\ y.key = key /\ y.rivals = {active[u].id : u \in Threads}
      BY <2>4, PublicFacts
    <3>2. ASSUME NEW x \in AllRuns', x # y
          PROVE  /\ x \in AllRuns /\ x.id \in 1..started
                 /\ x.key = key => x.id \in cleared' \cup y.rivals
      <4>1. CASE \E id \in DOMAIN runs : x = runs[id]
        <5>1. PICK id \in DOMAIN runs : x = runs[id]
          BY <4>1
        <5>2. x.id = id /\ id \in 1..started
          BY <5>1 DEF PInv, Types, StoredRun
        <5>3. x.key = key => id \in cleared'
          BY <5>1, <1>11
        <5>4. QED
          BY <5>1, <5>2, <5>3 DEF AllRuns
      <4>2. CASE \E u \in Threads : active'[u] # NoRun /\ x = Public(active[u])'
        <5>1. PICK u \in Threads : active'[u] # NoRun /\ x = Public(active[u])'
          BY <4>2
        <5>2. u # t
          BY <2>3, <3>2, <5>1 DEF Public
        <5>3. active[u] # NoRun /\ x = Public(active[u])
          BY <2>3, <5>1, <5>2 DEF Public
        <5>4. x.id = active[u].id /\ active[u].id \in 1..started
          BY <5>3, <1>6, PublicFacts
        <5>5. x \in AllRuns
          BY <5>3 DEF AllRuns, Running
        <5>6. QED
          BY <3>1, <5>4, <5>5
      <4>3. QED
        BY <1>1, <4>1, <4>2 DEF AllRuns, Running
    <3>3. ASSUME NEW x \in AllRuns', NEW z \in AllRuns', x.key = z.key, x.id < z.id
          PROVE  x.id \in cleared' \cup z.rivals
      <4>1. CASE x = y
        <5>1. z # y => z.id \in 1..started
          BY <3>2
        <5>2. QED
          BY <3>1, <3>3, <4>1, <5>1, <2>2
      <4>2. CASE x # y /\ z = y
        BY <3>1, <3>2, <3>3, <4>2
      <4>3. CASE x # y /\ z # y
        <5>1. x \in AllRuns /\ z \in AllRuns /\ OneRunPerKeyInSequence
          BY <3>2, <4>3 DEF PInv
        <5>2. QED
          BY <3>3, <5>1 DEF OneRunPerKeyInSequence
      <4>4. QED
        BY <4>1, <4>2, <4>3
    <3>4. QED
      BY <3>3 DEF OneRunPerKeyInSequence
  <2>14. QED
    BY <1>5, <1>8, <1>9, <2>10, <2>11, <2>12, <2>13 DEF PInv
<1>12. QED
  BY <1>10, <1>11

-----------------------------------------------------------------------------
(* The steps of a run                                                       *)

\* The step a pass is at, and what is known of it.
LEMMA CurrentFacts ==
  ASSUME PInv, NEW t \in Threads, InPass(t)
  PROVE  /\ active[t] # NoRun /\ RunningRun(active[t]) /\ RunInv(active[t]) /\ InProgress(active[t])
         /\ Current(t) \in Steps /\ Current(t) \in Range(active[t].pending) /\ Current(t) \in Range(active[t].scan)
         /\ CallsOf(<<active[t].id, Current(t)>>) = active[t].attempts
         /\ active[t].attempts \in Nat /\ active[t].attempts <= StepDef[Current(t)].retries
         /\ ~Ready(t) \/ Gated(t) => active[t].attempts = 0
<1> PICK r, s : r = active[t] /\ s = Current(t)
  OBVIOUS
<1>1. r # NoRun /\ r.scan # <<>> /\ s = Head(r.scan)
  BY DEF InPass, Running, Current
<1>2. RunningRun(r) /\ RunInv(r) /\ InProgress(r)
  BY <1>1 DEF PInv, Types
<1>3. r.scan \in Seq(Steps) /\ IsInjective(r.scan) /\ Range(r.scan) \subseteq Range(r.pending) /\ r.attempts \in Nat
  BY <1>2 DEF RunningRun
<1>4. s \in Steps /\ s \in Range(r.scan) /\ s \in Range(r.pending)
  BY <1>1, <1>3, TailFacts
<1>5. CallsOf(<<r.id, s>>) = r.attempts
  BY <1>1, <1>2, <1>4 DEF InProgress
<1>6. r.attempts <= StepDef[s].retries
  <2>1. r.attempts > 0 => r.attempts <= StepDef[s].retries
    BY <1>1, <1>2 DEF RunningRun
  <2>2. StepDef[s].retries \in Nat
    BY <1>4, PolicyFacts
  <2>3. QED
    BY <2>1, <2>2, <1>3
<1>7. ASSUME r.attempts # 0 PROVE Ready(t) /\ ~Gated(t)
  <2>1. CallsOf(<<r.id, s>>) > 0
    BY <1>3, <1>5, <1>7
  <2>2. /\ \A d \in StepDef[s].depends_on : Outcome(r, d, "success")
        /\ ~r.dry_run /\ StepDef[s].tier + StepDef[s].listed > 0 => s \in r.approved
    BY <1>2, <1>4, <2>1 DEF RunInv, CallsAllowed
  <2>3. \A d : Outcome(r, d, "success") => d \in r.completed
    BY <1>2 DEF InProgress, Outcome
  <2>4. Ready(t)
    BY <2>2, <2>3 DEF Ready
  <2>5. ~Gated(t)
    BY <2>2, <1>4, PolicyFacts DEF Gated
  <2>6. QED
    BY <2>4, <2>5
<1>8. QED
  BY <1>1, <1>2, <1>3, <1>4, <1>5, <1>6, <1>7

\* What the run is once the current step is done with.
LeftFields(r, s, status, n, l) ==
  /\ DOMAIN l = Locals
  /\ l.id = r.id /\ l.rivals = r.rivals /\ l.playbook = r.playbook /\ l.dry_run = r.dry_run
  /\ l.key = r.key /\ l.approved = r.approved /\ l.ancestor = r.ancestor /\ l.attempts = 0
  /\ l.results = Append(r.results, [step |-> s, status |-> status, attempts |-> n])
  /\ l.results \in Results

LeftLists(r, s, l) ==
  /\ l.status = r.status
  /\ l.scan \in Seq(Steps) /\ IsInjective(l.scan) /\ l.pending \in Seq(Steps) /\ IsInjective(l.pending)
  /\ Range(l.scan) \subseteq Range(l.pending) /\ Range(l.pending) = Range(r.pending) \ {s}

LEMMA LeaveFacts ==
  ASSUME PInv, NEW t \in Threads, InPass(t), NEW status \in Statuses, NEW n \in Nat,
         NEW l, l = Leave(t, status, n), NEW r, r = active[t], NEW s, s = Current(t)
  PROVE  LeftFields(r, s, status, n, l) /\ LeftLists(r, s, l)
         /\ l.approval_required = r.approval_required /\ l.completed = r.completed
<1>1. RunningRun(r) /\ s \in Steps /\ s \in Range(r.pending) /\ r.scan # <<>> /\ s = Head(r.scan)
  BY CurrentFacts DEF InPass, Current
<1>2. DOMAIN r = Locals
  BY <1>1 DEF RunningRun
<1>3. /\ DOMAIN l = Locals
      /\ l.id = r.id /\ l.rivals = r.rivals /\ l.playbook = r.playbook /\ l.status = r.status /\ l.dry_run = r.dry_run
      /\ l.key = r.key /\ l.approved = r.approved /\ l.ancestor = r.ancestor
      /\ l.approval_required = r.approval_required /\ l.completed = r.completed /\ l.attempts = 0
      /\ l.results = Append(r.results, [step |-> s, status |-> status, attempts |-> n])
      /\ l.scan = Tail(r.scan) /\ l.pending = RemoveFirst(r.pending, s)
  BY <1>2 DEF Leave, Locals
<1>4. /\ r.scan \in Seq(Steps) /\ IsInjective(r.scan) /\ Range(r.scan) \subseteq Range(r.pending)
      /\ r.pending \in Seq(Steps) /\ IsInjective(r.pending) /\ r.results \in Results
  BY <1>1 DEF RunningRun
<1>5. l.scan \in Seq(Steps) /\ IsInjective(l.scan) /\ Range(l.scan) \subseteq Range(r.scan) /\ s \notin Range(l.scan)
  BY <1>1, <1>3, <1>4, TailFacts
<1>6. l.pending \in Seq(Steps) /\ IsInjective(l.pending) /\ Range(l.pending) = Range(r.pending) \ {s}
  BY <1>1, <1>3, <1>4, RemoveFacts
<1>7. l.results \in Results
  <2>1. [step |-> s, status |-> status, attempts |-> n] \in [step : Steps \cup {"dag"}, status : Statuses, attempts : Nat]
    BY <1>1
  <2>2. QED
    BY <2>1, <1>3, <1>4 DEF Results
<1>8. QED
  BY <1>3, <1>4, <1>5, <1>6, <1>7 DEF LeftFields, LeftLists

\* An entry more in the results.
LEMMA AppendFacts ==
  ASSUME NEW q \in Results, NEW e
  PROVE  /\ DOMAIN q = 1..Len(q) /\ DOMAIN Append(q, e) = 1..(Len(q) + 1)
         /\ \A i \in DOMAIN q : i \in DOMAIN Append(q, e) /\ Append(q, e)[i] = q[i]
         /\ Len(q) + 1 \in DOMAIN Append(q, e) /\ Append(q, e)[Len(q) + 1] = e
         /\ \A i \in DOMAIN Append(q, e) : i \in DOMAIN q \/ Append(q, e)[i] = e
<1> PICK T : q \in Seq(T)
  BY DEF Results
<1>1. q \in Seq(T \cup {e}) /\ e \in T \cup {e} /\ Len(q) \in Nat /\ DOMAIN q = 1..Len(q)
  OBVIOUS
<1>2. DOMAIN Append(q, e) = 1..(Len(q) + 1) /\ (\A i \in 1..Len(q) : Append(q, e)[i] = q[i]) /\ Append(q, e)[Len(q) + 1] = e
  BY <1>1
<1>3. (\A i \in 1..Len(q) : i \in 1..(Len(q) + 1)) /\ Len(q) + 1 \in 1..(Len(q) + 1)
      /\ \A i \in 1..(Len(q) + 1) : i \in 1..Len(q) \/ i = Len(q) + 1
  BY <1>1
<1>4. QED
  BY <1>1, <1>2, <1>3

\* The number of calls made for the current step of t's run by now is n.
Tried(t, r, c, n) ==
  /\ InPass(t) /\ r = active[t] /\ c = Current(t) /\ Elsewhere(t, r.id)
  /\ n \in Nat /\ n <= StepDef[c].retries + 1 /\ (n > 0 => Ready(t) /\ ~Gated(t))
  /\ CallsOf(<<r.id, c>>)' = n
  /\ \A s : s # c => CallsOf(<<r.id, s>>)' = CallsOf(<<r.id, s>>)

\* What holds of a run whose current step got an entry.
LEMMA LeftRun ==
  ASSUME PInv, NEW t \in Threads, NEW r, NEW c, NEW n, Tried(t, r, c, n),
         NEW status, NEW l, LeftFields(r, c, status, n, l), Kept
  PROVE  /\ RunInv(l)'
         /\ \A s, st : Outcome(r, s, st) => Outcome(l, s, st)
         /\ Outcome(l, c, status)
         /\ \A i \in DOMAIN l.results : \/ i \in DOMAIN r.results /\ l.results[i] = r.results[i]
                                        \/ l.results[i] = [step |-> c, status |-> status, attempts |-> n]
         /\ \A i \in DOMAIN r.results : i \in DOMAIN l.results /\ l.results[i] = r.results[i]
<1> PICK e : e = [step |-> c, status |-> status, attempts |-> n]
  OBVIOUS
<1>0. /\ InPass(t) /\ r = active[t] /\ c = Current(t) /\ n \in Nat /\ (n > 0 => Ready(t) /\ ~Gated(t))
      /\ CallsOf(<<r.id, c>>)' = n /\ n <= StepDef[c].retries + 1
      /\ \A s : s # c => CallsOf(<<r.id, s>>)' = CallsOf(<<r.id, s>>)
      /\ l.id = r.id /\ l.dry_run = r.dry_run /\ l.approved = r.approved /\ l.ancestor = r.ancestor /\ l.playbook = r.playbook
      /\ l.results = Append(r.results, e)
  BY DEF Tried, LeftFields
<1>1. RunningRun(r) /\ RunInv(r) /\ InProgress(r) /\ c \in Steps /\ c \in Range(r.pending) /\ r.results \in Results
  BY <1>0, CurrentFacts DEF RunningRun
<1>2. /\ \A i \in DOMAIN r.results : i \in DOMAIN l.results /\ l.results[i] = r.results[i]
      /\ \E i \in DOMAIN l.results : l.results[i] = e
      /\ \A i \in DOMAIN l.results : (i \in DOMAIN r.results /\ l.results[i] = r.results[i]) \/ l.results[i] = e
  <2> PICK q, p : q = r.results /\ p = Append(q, e)
    OBVIOUS
  <2>1. /\ \A i \in DOMAIN q : i \in DOMAIN p /\ p[i] = q[i]
        /\ Len(q) + 1 \in DOMAIN p /\ p[Len(q) + 1] = e
        /\ \A i \in DOMAIN p : i \in DOMAIN q \/ p[i] = e
    BY <1>1, AppendFacts
  <2>2. l.results = p
    BY <1>0
  <2>3. QED
    BY <2>1, <2>2
<1>3. \A s, st : Outcome(r, s, st) => Outcome(l, s, st)
  BY <1>2 DEF Outcome
<1>4. Outcome(l, c, status)
  BY <1>2 DEF Outcome
<1>5. CallsAllowed(l)'
  <2> SUFFICES ASSUME NEW s \in Steps, CallsOf(<<l.id, s>>)' > 0
               PROVE  /\ \A d \in StepDef[s].depends_on : Outcome(l, d, "success")
                      /\ ~l.dry_run /\ StepDef[s].tier + StepDef[s].listed > 0 => s \in l.approved
    BY <1>0 DEF CallsAllowed, Outcome
  <2>1. CASE s = c
    <3>1. Ready(t) /\ ~Gated(t)
      BY <2>1, <1>0
    <3>2. \A d \in StepDef[s].depends_on : Outcome(r, d, "success")
      BY <3>1, <2>1, <1>1, <1>0 DEF Ready, InProgress
    <3>3. ~r.dry_run /\ StepDef[s].tier + StepDef[s].listed > 0 => s \in r.approved
      BY <3>1, <2>1, <1>0, PolicyFacts DEF Gated
    <3>4. QED
      BY <3>2, <3>3, <1>3, <1>0
  <2>2. CASE s # c
    <3>1. CallsOf(<<r.id, s>>) > 0
      BY <2>2, <1>0
    <3>2. QED
      BY <3>1, <1>1, <1>3, <1>0 DEF RunInv, CallsAllowed
  <2>3. QED
    BY <2>1, <2>2
<1>6. CallsReported(l)'
  <2> SUFFICES ASSUME NEW i \in DOMAIN l.results
               PROVE  LET k == CallsOf(<<l.id, l.results[i].step>>)'
                      IN  l.results[i].attempts = k /\ (k > 0 => k <= StepDef[l.results[i].step].retries + 1)
    BY DEF CallsReported
  <2>1. CASE l.results[i] = e
    BY <2>1, <1>0
  <2>2. CASE i \in DOMAIN r.results /\ l.results[i] = r.results[i]
    <3>1. r.results[i].step # c
      BY <2>2, <1>1 DEF InProgress
    <3> PICK b, k : b = r.results[i].step /\ k = CallsOf(<<r.id, b>>)
      OBVIOUS
    <3>2. r.results[i].attempts = k /\ (k > 0 => k <= StepDef[b].retries + 1)
      BY <2>2, <1>1 DEF RunInv, CallsReported
    <3>3. CallsOf(<<l.id, b>>)' = k /\ l.results[i].step = b
      BY <3>1, <2>2, <1>0
    <3>4. QED
      BY <3>2, <3>3, <2>2
  <2>3. QED
    BY <2>1, <2>2, <1>2
<1>7. Resumed(l)'
  BY <1>1, <1>0 DEF RunInv, Resumed, Kept
<1>8. RunInv(l)'
  BY <1>5, <1>6, <1>7 DEF RunInv
<1>9. QED
  BY <1>2, <1>3, <1>4, <1>8

-----------------------------------------------------------------------------
(* The actions                                                              *)

LEMMA InitSound == Init => PInv
<1> SUFFICES ASSUME Init PROVE PInv
  OBVIOUS
<1>1. /\ DOMAIN runs = {} /\ DOMAIN index = {} /\ DOMAIN calls = {} /\ started = 0 /\ DOMAIN active = Threads
      /\ \A t \in Threads : active[t] = NoRun
  BY DEF Init
<1>2. Types
  BY <1>1, PlaybookAssumption DEF Types
<1>3. AllRuns = {}
  BY <1>1 DEF AllRuns, Running
<1>4. QED
  BY <1>1, <1>2, <1>3 DEF PInv, OwnIds, Found, IndexConsistent, OneRunPerKeyInSequence

LEMMA RunPlaybookStep ==
  ASSUME PInv, NEW t \in Threads, NEW p \in Playbooks, NEW dry \in BOOLEAN, NEW k, RunPlaybook(t, p, dry, k)
  PROVE  PInv'
<1> PICK key, none : key = <<k>> /\ none = {}
  OBVIOUS
<1>1. run(t, p, dry, key, none, 0, index) /\ cleared' = cleared
  BY DEF RunPlaybook
<1>2. none \in SUBSET Approvable /\ 0 \in 0..MaxRuns
  BY PlaybookAssumption
<1>3. \A id \in DOMAIN runs : runs[id].key \in DOMAIN index \/ id \in cleared'
  BY <1>1 DEF PInv, Found
<1>4. QED
  BY <1>1, <1>2, <1>3, RunStep

\* The approval takes the prior run's key out of the index, with it the only
\* stored runs that are not found any more.
LEMMA ApproveRunStep ==
  ASSUME PInv, NEW t \in Threads, NEW id \in DOMAIN runs, NEW ids \in ApproveIds, ApproveRun(t, id, ids)
  PROVE  PInv'
<1> PICK prior, step_ids : prior = runs[id] /\ step_ids = IF ids = {} THEN prior.approval_required ELSE ids
  OBVIOUS
<1> PICK key, approved, idx : key = Append(prior.key, step_ids) /\ approved = step_ids \cup prior.approval_required
                              /\ idx = Without(index, prior.key)
  OBVIOUS
<1>1. /\ run(t, prior.playbook, prior.dry_run, key, approved, id, idx)
      /\ cleared' = cleared \cup {i \in DOMAIN runs : runs[i].key = prior.key}
  BY DEF ApproveRun
<1>2. StoredRun(id, prior) /\ id \in 0..MaxRuns
  <2>1. StoredRun(id, prior) /\ id \in 1..started /\ started \in 0..MaxRuns
    BY DEF PInv, Types
  <2>2. QED
    BY <2>1, PlaybookAssumption
<1>3. prior.playbook \in Playbooks /\ prior.dry_run \in BOOLEAN /\ approved \in SUBSET Approvable
  BY <1>2 DEF StoredRun, Approvable
<1>4. DOMAIN idx = DOMAIN index \ {prior.key} /\ \A k \in DOMAIN idx : idx[k] = index[k]
  BY DEF Without
<1>5. \A i \in DOMAIN runs : runs[i].key \in DOMAIN idx \/ i \in cleared'
  BY <1>1, <1>4 DEF PInv, Found
<1>6. QED
  BY <1>1, <1>2, <1>3, <1>4, <1>5, RunStep

\* No executor is called.
LEMMA QuietElsewhere ==
  ASSUME PInv, NEW t \in Threads, NEW r, active' = [active EXCEPT ![t] = r], calls' = calls, started' = started
  PROVE  Elsewhere(t, active[t].id) /\ active'[t] = r /\ \A c : CallsOf(c)' = CallsOf(c)
BY DEF PInv, Types, Elsewhere, CallsOf

\* The executor is called for the current step.
LEMMA CallElsewhere ==
  ASSUME PInv, NEW t \in Threads, CallExecutor(t), started' = started,
         DOMAIN active' = Threads, \A u \in Threads : u # t => active'[u] = active[u],
         NEW i, i = active[t].id, NEW s, s = Current(t)
  PROVE  /\ Elsewhere(t, i)
         /\ CallsOf(<<i, s>>)' = active[t].attempts + 1
         /\ \A x : x # s => CallsOf(<<i, x>>)' = CallsOf(<<i, x>>)
         /\ active[t].attempts + 1 <= StepDef[s].retries + 1
<1>1. calls' = Put(calls, <<i, s>>, CallsOf(<<i, s>>) + 1) /\ InPass(t)
  BY DEF CallExecutor
<1>2. i \in 1..started /\ s \in Steps /\ CallsOf(<<i, s>>) = active[t].attempts /\ active[t].attempts \in Nat
      /\ active[t].attempts <= StepDef[s].retries /\ StepDef[s].retries \in Nat
  BY <1>1, CurrentFacts, PolicyFacts DEF RunningRun
<1>3. /\ CallsOf(<<i, s>>)' = CallsOf(<<i, s>>) + 1
      /\ \A c : c # <<i, s>> => CallsOf(c)' = CallsOf(c)
      /\ DOMAIN calls' \subseteq (1..started) \X Steps /\ \A c \in DOMAIN calls' : calls'[c] \in Nat
  BY <1>1, <1>2, CallMoves DEF PInv
<1>5. \A c : c[1] # i => c # <<i, s>>
  OBVIOUS
<1>6. Elsewhere(t, i)
  BY <1>3, <1>5 DEF Elsewhere
<1>7. \A x : x # s => <<i, x>> # <<i, s>>
  OBVIOUS
<1>8. QED
  BY <1>2, <1>3, <1>6, <1>7

LEMMA SkipStepStep ==
  ASSUME PInv, NEW t \in Threads, SkipStep(t)
  PROVE  PInv'
<1> PICK r, l : r = active[t] /\ l = [r EXCEPT !.scan = Tail(@)]
  OBVIOUS
<1>1. InPass(t) /\ ~Ready(t) /\ UNCHANGED <<runs, index, started, calls, cleared>>
  BY DEF SkipStep, history
<1>2. /\ r # NoRun /\ RunningRun(r) /\ RunInv(r) /\ InProgress(r) /\ r.attempts = 0 /\ r.scan # <<>>
      /\ CallsOf(<<r.id, Head(r.scan)>>) = 0
  BY <1>1, CurrentFacts DEF InPass, Current
<1>3. DOMAIN r = Locals /\ DOMAIN active = Threads
  BY <1>2 DEF RunningRun, PInv, Types
<1>4. active' = [active EXCEPT ![t] = l]
  BY <1>3 DEF SkipStep
<1>5. Elsewhere(t, r.id) /\ active'[t] = l /\ \A c : CallsOf(c)' = CallsOf(c)
  BY <1>1, <1>4, QuietElsewhere
<1>6. /\ DOMAIN l = Locals /\ l.scan = Tail(r.scan)
      /\ l.id = r.id /\ l.rivals = r.rivals /\ l.playbook = r.playbook /\ l.status = r.status /\ l.dry_run = r.dry_run
      /\ l.key = r.key /\ l.approved = r.approved /\ l.ancestor = r.ancestor /\ l.results = r.results
      /\ l.approval_required = r.approval_required /\ l.completed = r.completed /\ l.attempts = 0 /\ l.pending = r.pending
  BY <1>2, <1>3 DEF Locals
<1>7. RunningRun(l)
  <2>1. l.scan \in Seq(Steps) /\ IsInjective(l.scan) /\ Range(l.scan) \subseteq Range(r.scan)
    BY <1>2, <1>6, TailFacts DEF RunningRun
  <2>2. QED
    BY <1>2, <1>6, <2>1 DEF RunningRun
<1>8. RunInv(l)'
  <2>1. RunInv(l)
    BY <1>2, <1>6 DEF RunInv, CallsAllowed, CallsReported, Resumed, Outcome
  <2>2. QED
    BY <1>1, <1>5, <2>1, RunInvKept DEF Kept, SameCalls
<1>9. InProgress(l)'
  <2>1. InProgress(l)
    BY <1>2, <1>6 DEF InProgress, Outcome
  <2>2. QED
    BY <1>5, <2>1, InProgressKept DEF SameCalls
<1>10. QED
  BY <1>1, <1>2, <1>5, <1>6, <1>7, <1>8, <1>9, BuildStep

LEMMA NextPassStep ==
  ASSUME PInv, NEW t \in Threads, NextPass(t)
  PROVE  PInv'
<1> PICK r, l : r = active[t] /\ l = [r EXCEPT !.scan = r.pending, !.progress = FALSE]
  OBVIOUS
<1>1. r # NoRun /\ r.scan = <<>> /\ UNCHANGED <<runs, index, started, calls, cleared>>
  BY DEF NextPass, Running, history
<1>2. RunningRun(r) /\ RunInv(r) /\ InProgress(r) /\ DOMAIN active = Threads
  BY <1>1 DEF PInv, Types
<1>3. DOMAIN r = Locals /\ r.attempts = 0
  BY <1>1, <1>2 DEF RunningRun
<1>4. active' = [active EXCEPT ![t] = l]
  BY <1>2, <1>3 DEF NextPass
<1>5. Elsewhere(t, r.id) /\ active'[t] = l /\ \A c : CallsOf(c)' = CallsOf(c)
  BY <1>1, <1>4, QuietElsewhere
<1>6. /\ DOMAIN l = Locals /\ l.scan = r.pending
      /\ l.id = r.id /\ l.rivals = r.rivals /\ l.playbook = r.playbook /\ l.status = r.status /\ l.dry_run = r.dry_run
      /\ l.key = r.key /\ l.approved = r.approved /\ l.ancestor = r.ancestor /\ l.results = r.results
      /\ l.approval_required = r.approval_required /\ l.completed = r.completed /\ l.attempts = 0 /\ l.pending = r.pending
  BY <1>3 DEF Locals
<1>7. RunningRun(l)
  BY <1>2, <1>6 DEF RunningRun
<1>8. RunInv(l)'
  <2>1. RunInv(l)
    BY <1>2, <1>6 DEF RunInv, CallsAllowed, CallsReported, Resumed, Outcome
  <2>2. QED
    BY <1>1, <1>5, <2>1, RunInvKept DEF Kept, SameCalls
<1>9. InProgress(l)'
  <2>1. InProgress(l)
    BY <1>1, <1>2, <1>6 DEF InProgress, Outcome
  <2>2. QED
    BY <1>5, <2>1, InProgressKept DEF SameCalls
<1>10. QED
  BY <1>1, <1>2, <1>5, <1>6, <1>7, <1>8, <1>9, BuildStep

LEMMA StepRetriesStep ==
  ASSUME PInv, NEW t \in Threads, StepRetries(t)
  PROVE  PInv'
<1> PICK r, l, c : r = active[t] /\ l = [r EXCEPT !.attempts = @ + 1] /\ c = Current(t)
  OBVIOUS
<1>1. /\ CallExecutor(t) /\ MayRetry(t) /\ UNCHANGED <<runs, index, started, cleared>>
      /\ InPass(t) /\ Ready(t) /\ ~Gated(t) /\ r.scan # <<>> /\ c = Head(r.scan)
  BY DEF StepRetries, CallExecutor, InPass, Current
<1>2. /\ r # NoRun /\ RunningRun(r) /\ RunInv(r) /\ InProgress(r) /\ r.attempts \in Nat
      /\ c \in Steps /\ c \in Range(r.pending)
  BY <1>1, CurrentFacts
<1>3. DOMAIN r = Locals /\ DOMAIN active = Threads
  BY <1>2 DEF RunningRun, PInv, Types
<1>4. active' = [active EXCEPT ![t] = l]
  BY <1>3 DEF StepRetries
<1>5. /\ Elsewhere(t, r.id) /\ active'[t] = l
      /\ CallsOf(<<r.id, c>>)' = r.attempts + 1
      /\ \A s : s # c => CallsOf(<<r.id, s>>)' = CallsOf(<<r.id, s>>)
  <2> PICK i : i = r.id
    OBVIOUS
  <2>1. i = active[t].id /\ c = Current(t) /\ started' = started /\ CallExecutor(t)
    BY <1>1
  <2>2. DOMAIN active' = Threads /\ active'[t] = l /\ \A u \in Threads : u # t => active'[u] = active[u]
    BY <1>3, <1>4
  <2>3. /\ Elsewhere(t, i)
        /\ CallsOf(<<i, c>>)' = active[t].attempts + 1
        /\ \A s : s # c => CallsOf(<<i, s>>)' = CallsOf(<<i, s>>)
    BY <2>1, <2>2, CallElsewhere
  <2>4. QED
    BY <2>2, <2>3
<1>6. /\ DOMAIN l = Locals /\ l.scan = r.scan /\ l.attempts = r.attempts + 1
      /\ l.id = r.id /\ l.rivals = r.rivals /\ l.playbook = r.playbook /\ l.status = r.status /\ l.dry_run = r.dry_run
      /\ l.key = r.key /\ l.approved = r.approved /\ l.ancestor = r.ancestor /\ l.results = r.results
      /\ l.approval_required = r.approval_required /\ l.completed = r.completed /\ l.pending = r.pending
  BY <1>3 DEF Locals
<1>7. RunningRun(l)
  <2>1. l.attempts \in Nat /\ l.attempts <= StepDef[Head(l.scan)].retries
    BY <1>1, <1>2, <1>6 DEF MayRetry
  <2>2. QED
    BY <1>1, <1>2, <1>6, <2>1 DEF RunningRun
<1>8. RunInv(l)'
  <2>1. CallsAllowed(l)'
    <3> SUFFICES ASSUME NEW s \in Steps, CallsOf(<<r.id, s>>)' > 0
                 PROVE  /\ \A d \in StepDef[s].depends_on : Outcome(r, d, "success")
                        /\ ~r.dry_run /\ StepDef[s].tier + StepDef[s].listed > 0 => s \in r.approved
      BY <1>6 DEF CallsAllowed, Outcome
    <3>1. CASE s = c
      <4>1. \A d \in StepDef[s].depends_on : Outcome(r, d, "success")
        BY <3>1, <1>1, <1>2 DEF Ready, InProgress
      <4>2. ~r.dry_run /\ StepDef[s].tier + StepDef[s].listed > 0 => s \in r.approved
        BY <3>1, <1>1, PolicyFacts DEF Gated
      <4>3. QED
        BY <4>1, <4>2
    <3>2. CASE s # c
      BY <3>2, <1>2, <1>5 DEF RunInv, CallsAllowed
    <3>3. QED
      BY <3>1, <3>2
  <2>2. CallsReported(l)'
    <3>1. \A i \in DOMAIN r.results : r.results[i].step # c
      BY <1>2 DEF InProgress
    <3>2. CallsReported(r)
      BY <1>2 DEF RunInv
    <3>3. QED
      BY <1>5, <1>6, <3>1, <3>2 DEF CallsReported
  <2>3. Resumed(l)'
    BY <1>1, <1>2, <1>6 DEF RunInv, Resumed
  <2>4. QED
    BY <2>1, <2>2, <2>3 DEF RunInv
<1>9. InProgress(l)'
  <2>1. \A s \in Range(r.pending) : CallsOf(<<r.id, s>>)' = IF s = c THEN r.attempts + 1 ELSE 0
    BY <1>1, <1>2, <1>5 DEF InProgress
  <2>2. \A s, st : Outcome(l, s, st) <=> Outcome(r, s, st)
    BY <1>6 DEF Outcome
  <2>3. /\ \A s \in r.completed : Outcome(l, s, "success")
        /\ \A s \in r.approval_required : Outcome(l, s, "awaiting_approval")
    BY <1>2, <2>2 DEF InProgress
  <2>4. QED
    BY <1>1, <1>2, <1>6, <2>1, <2>3 DEF InProgress, Outcome
<1>10. QED
  BY <1>1, <1>2, <1>5, <1>6, <1>7, <1>8, <1>9, BuildStep

\* The current step leaves the run's lists with an entry: it has succeeded after
\* n calls, or it waits for an approval and was not tried.
Entered(r, c, status, n, l) ==
  \/ /\ status = "success" /\ l.completed = r.completed \cup {c} /\ l.approval_required = r.approval_required
  \/ /\ status = "awaiting_approval" /\ n = 0
     /\ l.completed = r.completed /\ l.approval_required = r.approval_required \cup {c}

LEMMA EntryStep ==
  ASSUME PInv, NEW t \in Threads, UNCHANGED <<runs, index, started, cleared>>,
         NEW r, NEW c, NEW n, Tried(t, r, c, n),
         NEW status, NEW l, LeftFields(r, c, status, n, l), LeftLists(r, c, l), Entered(r, c, status, n, l),
         active'[t] = l
  PROVE  PInv'
<1>1. /\ InPass(t) /\ r = active[t] /\ c = Current(t) /\ Elsewhere(t, r.id)
      /\ \A s : s # c => CallsOf(<<r.id, s>>)' = CallsOf(<<r.id, s>>)
  BY DEF Tried
<1>2. /\ r # NoRun /\ RunningRun(r) /\ RunInv(r) /\ InProgress(r)
      /\ c \in Steps /\ c \in Range(r.pending) /\ r.scan # <<>> /\ c = Head(r.scan)
  BY <1>1, CurrentFacts DEF InPass, Current
<1>3. /\ l.id = r.id /\ l.rivals = r.rivals /\ l.playbook = r.playbook /\ l.key = r.key
      /\ Range(l.pending) = Range(r.pending) \ {c}
  BY DEF LeftFields, LeftLists
<1>4. RunningRun(l)
  BY <1>2 DEF RunningRun, LeftFields, LeftLists, Entered
<1>5. Kept
  BY DEF Kept
<1>6. /\ RunInv(l)'
      /\ \A s, st : Outcome(r, s, st) => Outcome(l, s, st)
      /\ Outcome(l, c, status)
      /\ \A i \in DOMAIN l.results : \/ i \in DOMAIN r.results /\ l.results[i] = r.results[i]
                                     \/ l.results[i] = [step |-> c, status |-> status, attempts |-> n]
      /\ \A i \in DOMAIN r.results : i \in DOMAIN l.results /\ l.results[i] = r.results[i]
  BY <1>5, LeftRun
<1>7. InProgress(l)'
  <2>1. ASSUME NEW i \in DOMAIN l.results
        PROVE  /\ l.results[i].step \in Steps /\ l.results[i].step \notin Range(l.pending)
               /\ l.results[i].status \in {"success", "awaiting_approval"}
               /\ l.results[i].status = "success" => l.results[i].step \in l.completed
               /\ l.results[i].status = "awaiting_approval" =>
                    l.results[i].attempts = 0 /\ l.results[i].step \in l.approval_required
    <3>1. CASE l.results[i] = [step |-> c, status |-> status, attempts |-> n]
      BY <3>1, <1>2, <1>3 DEF Entered
    <3>2. CASE i \in DOMAIN r.results /\ l.results[i] = r.results[i]
      BY <3>2, <1>2, <1>3 DEF InProgress, Entered
    <3>3. QED
      BY <3>1, <3>2, <1>6
  <2>2. (\A s \in l.completed : Outcome(l, s, "success")) /\ \A s \in l.approval_required : Outcome(l, s, "awaiting_approval")
    BY <1>2, <1>6 DEF InProgress, Entered
  <2>3. \A s \in Range(StepsOf[l.playbook]) : s \in Range(l.pending) \/ \E i \in DOMAIN l.results : l.results[i].step = s
    <3> SUFFICES ASSUME NEW s \in Range(StepsOf[r.playbook]), s \notin Range(l.pending)
                 PROVE  \E i \in DOMAIN l.results : l.results[i].step = s
      BY <1>3
    <3>1. CASE s = c
      BY <3>1, <1>6 DEF Outcome
    <3>2. CASE s # c
      BY <3>2, <1>2, <1>3, <1>6 DEF InProgress
    <3>3. QED
      BY <3>1, <3>2
  <2>4. \A s \in Range(l.pending) : CallsOf(<<l.id, s>>)' = 0
    BY <1>1, <1>2, <1>3 DEF InProgress
  <2>5. l.attempts = 0
    BY DEF LeftFields
  <2>6. QED
    BY <2>1, <2>2, <2>3, <2>4, <2>5 DEF InProgress, Outcome
<1>8. QED
  BY <1>1, <1>2, <1>3, <1>4, <1>6, <1>7, BuildStep

LEMMA AwaitApprovalStep ==
  ASSUME PInv, NEW t \in Threads, AwaitApproval(t)
  PROVE  PInv'
<1> PICK r, c, k : r = active[t] /\ c = Current(t) /\ k = Leave(t, "awaiting_approval", 0)
  OBVIOUS
<1> PICK l : l = [k EXCEPT !.approval_required = @ \cup {c}]
  OBVIOUS
<1>1. /\ InPass(t) /\ UNCHANGED <<runs, index, started, calls, cleared>> /\ active' = [active EXCEPT ![t] = l]
      /\ Gated(t)
  BY DEF AwaitApproval, history
<1>2. Elsewhere(t, r.id) /\ active'[t] = l /\ \A x : CallsOf(x)' = CallsOf(x)
  BY <1>1, QuietElsewhere
<1>3. "awaiting_approval" \in Statuses /\ 0 \in Nat
  BY DEF Statuses
<1>4. /\ LeftFields(r, c, "awaiting_approval", 0, k) /\ LeftLists(r, c, k)
      /\ k.approval_required = r.approval_required /\ k.completed = r.completed
  BY <1>1, <1>3, LeaveFacts
<1>5. DOMAIN k = Locals
  BY <1>4 DEF LeftFields
<1>6. /\ DOMAIN l = Locals /\ \A f \in Locals \ {"approval_required"} : l[f] = k[f]
      /\ l.completed = r.completed /\ l.approval_required = r.approval_required \cup {c}
  BY <1>4, <1>5 DEF Locals
<1>7. LeftFields(r, c, "awaiting_approval", 0, l) /\ LeftLists(r, c, l) /\ Entered(r, c, "awaiting_approval", 0, l)
  BY <1>4, <1>6 DEF LeftFields, LeftLists, Entered, Locals
<1>8. Tried(t, r, c, 0)
  <2>1. CallsOf(<<r.id, c>>) = 0 /\ StepDef[c].retries \in Nat
    BY <1>1, CurrentFacts, PolicyFacts
  <2>2. QED
    BY <1>1, <1>2, <2>1 DEF Tried
<1>9. QED
  BY <1>1, <1>2, <1>7, <1>8, EntryStep

\* The executor was called once more for the current step.
LEMMA CallTried ==
  ASSUME PInv, NEW t \in Threads, CallExecutor(t), started' = started,
         DOMAIN active' = Threads, \A u \in Threads : u # t => active'[u] = active[u],
         NEW r, r = active[t], NEW c, c = Current(t), NEW n, n = r.attempts + 1
  PROVE  Tried(t, r, c, n) /\ InPass(t) /\ n \in Nat
<1> PICK i : i = r.id
  OBVIOUS
<1>1. InPass(t) /\ Ready(t) /\ ~Gated(t) /\ i = active[t].id
  BY DEF CallExecutor
<1>2. /\ Elsewhere(t, i)
      /\ CallsOf(<<i, c>>)' = active[t].attempts + 1
      /\ \A s : s # c => CallsOf(<<i, s>>)' = CallsOf(<<i, s>>)
      /\ active[t].attempts + 1 <= StepDef[c].retries + 1
  BY <1>1, CallElsewhere
<1>3. r.attempts \in Nat
  BY <1>1, CurrentFacts
<1>4. n \in Nat
  BY <1>3
<1>5. QED
  BY <1>1, <1>2, <1>4 DEF Tried

LEMMA SuccessStep ==
  ASSUME PInv, NEW t \in Threads, CallExecutor(t), Success(t), UNCHANGED <<runs, index, started>>
  PROVE  PInv'
<1> PICK r, c, n : r = active[t] /\ c = Current(t) /\ n = r.attempts + 1
  OBVIOUS
<1> PICK k : k = Leave(t, "success", n)
  OBVIOUS
<1> PICK l : l = [k EXCEPT !.completed = @ \cup {c}]
  OBVIOUS
<1>1. cleared' = cleared /\ active' = [active EXCEPT ![t] = l] /\ DOMAIN active = Threads
  BY DEF CallExecutor, Success, PInv, Types
<1>2. DOMAIN active' = Threads /\ active'[t] = l /\ \A u \in Threads : u # t => active'[u] = active[u]
  BY <1>1
<1>3. Tried(t, r, c, n) /\ InPass(t) /\ n \in Nat
  BY <1>2, CallTried
<1>4. "success" \in Statuses
  BY DEF Statuses
<1>5. /\ LeftFields(r, c, "success", n, k) /\ LeftLists(r, c, k)
      /\ k.approval_required = r.approval_required /\ k.completed = r.completed
  BY <1>3, <1>4, LeaveFacts
<1>6. DOMAIN k = Locals
  BY <1>5 DEF LeftFields
<1>7. /\ DOMAIN l = Locals /\ \A f \in Locals \ {"completed"} : l[f] = k[f]
      /\ l.completed = r.completed \cup {c} /\ l.approval_required = r.approval_required
  BY <1>5, <1>6 DEF Locals
<1>8. LeftFields(r, c, "success", n, l) /\ LeftLists(r, c, l) /\ Entered(r, c, "success", n, l)
  BY <1>5, <1>7 DEF LeftFields, LeftLists, Entered, Locals
<1>9. QED
  BY <1>1, <1>2, <1>3, <1>8, EntryStep

\* The fields of a run that is about to be stored.
Storable(r, l) ==
  /\ l.id = r.id /\ l.rivals = r.rivals /\ l.playbook = r.playbook /\ l.dry_run = r.dry_run
  /\ l.key = r.key /\ l.approved = r.approved /\ l.ancestor = r.ancestor /\ l.results \in Results
  /\ l.approval_required = r.approval_required /\ l.status \in {"completed", "failed", "awaiting_approval"}

LEMMA StorableFacts ==
  ASSUME NEW r, RunningRun(r), NEW l, Storable(r, l)
  PROVE  StoredRun(l.id, Public(l))
<1> PICK x : x = Public(l)
  OBVIOUS
<1>1. /\ x.id = l.id /\ x.results = l.results /\ x.dry_run = l.dry_run /\ x.approved = l.approved /\ x.status = l.status
      /\ x.ancestor = l.ancestor /\ x.playbook = l.playbook /\ x.approval_required = l.approval_required
  BY PublicFacts
<1>2. StoredRun(l.id, x)
  BY <1>1 DEF Storable, RunningRun, StoredRun, Approvable
<1>3. QED
  BY <1>2

\* The status of a run agrees with its steps.
Ended(l) ==
  /\ l.status = "completed" => \A s \in Range(StepsOf[l.playbook]) : Outcome(l, s, "success")
  /\ l.status = "awaiting_approval" =>
       /\ l.approval_required # {}
       /\ \A s \in l.approval_required : Outcome(l, s, "awaiting_approval") /\ CallsOf(<<l.id, s>>) = 0
  /\ l.status = "failed" => \E s \in Steps \cup {"dag"} : Outcome(l, s, "failed")

LEMMA StoringStep ==
  ASSUME PInv, NEW t \in Threads, NEW r, r = active[t], r # NoRun, Elsewhere(t, r.id), UNCHANGED <<started, cleared>>,
         NEW l, Store(t, l), Storable(r, l), RunInv(l)', Ended(l)'
  PROVE  PInv'
<1>1. StoredRun(l.id, Public(l)) /\ l.id = active[t].id /\ l.key = active[t].key /\ l.rivals = active[t].rivals
  BY StorableFacts DEF PInv, Types, Storable
<1>2. ASSUME runs' = Put(runs, l.id, Public(l)) PROVE StatusOf(l.id)'
  <2> PICK i, x : i = l.id /\ x = Public(l)
    OBVIOUS
  <2>1. runs'[i] = x
    BY <1>2 DEF Put
  <2>2. x.results = l.results /\ x.status = l.status /\ x.playbook = l.playbook /\ x.approval_required = l.approval_required
    BY PublicFacts
  <2>3. StatusOf(i)'
    BY <2>1, <2>2 DEF StatusOf, Ended, Outcome
  <2>4. QED
    BY <2>3
<1>3. QED
  BY <1>1, <1>2, StoreStep

\* The last attempt failed, and the run with this entry is stored.
LEMMA FailureStored ==
  ASSUME PInv, NEW t \in Threads, UNCHANGED <<started, cleared>>,
         NEW r, NEW c, NEW n, Tried(t, r, c, n),
         NEW status, status = "failed", NEW l, LeftFields(r, c, status, n, l),
         l.status = status, l.approval_required = r.approval_required, Store(t, l)
  PROVE  PInv'
<1>1. InPass(t) /\ r = active[t] /\ c = Current(t) /\ Elsewhere(t, r.id)
  BY DEF Tried
<1>2. r # NoRun /\ RunningRun(r) /\ c \in Steps /\ r.id \notin DOMAIN runs
  BY <1>1, CurrentFacts DEF PInv, OwnIds
<1>3. Storable(r, l)
  BY DEF Storable, LeftFields
<1>4. Kept
  BY <1>2, <1>3 DEF Kept, Store, Storable, Put
<1>5. RunInv(l)' /\ Outcome(l, c, status)
  BY <1>4, LeftRun
<1>6. Ended(l)'
  BY <1>2, <1>5 DEF Ended, Outcome
<1>7. QED
  BY <1>1, <1>2, <1>3, <1>5, <1>6, StoringStep

LEMMA StepFailsStep ==
  ASSUME PInv, NEW t \in Threads, StepFails(t)
  PROVE  PInv'
<1> PICK r, c, n, status : r = active[t] /\ c = Current(t) /\ n = r.attempts + 1 /\ status = "failed"
  OBVIOUS
<1> PICK k : k = Leave(t, status, n)
  OBVIOUS
<1> PICK l : l = [k EXCEPT !.status = status]
  OBVIOUS
<1>1. CallExecutor(t) /\ Store(t, l) /\ UNCHANGED <<started, cleared>> /\ DOMAIN active = Threads
  BY DEF StepFails, CallExecutor, PInv, Types
<1>2. DOMAIN active' = Threads /\ \A u \in Threads : u # t => active'[u] = active[u]
  BY <1>1 DEF Store
<1>3. Tried(t, r, c, n) /\ InPass(t) /\ n \in Nat
  BY <1>1, <1>2, CallTried
<1>4. status \in Statuses
  BY DEF Statuses
<1>5. LeftFields(r, c, status, n, k) /\ k.approval_required = r.approval_required
  BY <1>3, <1>4, LeaveFacts
<1>6. DOMAIN k = Locals
  BY <1>5 DEF LeftFields
<1>7. DOMAIN l = Locals /\ l.status = status /\ \A f \in Locals \ {"status"} : l[f] = k[f]
  BY <1>6 DEF Locals
<1>8. LeftFields(r, c, status, n, l) /\ l.approval_required = r.approval_required
  BY <1>5, <1>7 DEF LeftFields, Locals
<1>9. l.status = status /\ Store(t, l) /\ UNCHANGED <<started, cleared>> /\ Tried(t, r, c, n)
  BY <1>1, <1>3, <1>7
<1>10. QED
  BY <1>8, <1>9, FailureStored

\* The results of a run none of whose pending steps can start.
StuckResults(r, p) ==
  /\ p \in Results
  /\ \A i \in DOMAIN r.results : i \in DOMAIN p /\ p[i] = r.results[i]
  /\ \E i \in DOMAIN p : p[i].step = "dag" /\ p[i].status = "failed"
  /\ \A i \in DOMAIN p : (i \in DOMAIN r.results /\ p[i] = r.results[i]) \/ (p[i].step = "dag" /\ p[i].attempts = 0)

\* How a run ends: it waits for approvals, is stuck, or every step succeeded.
LEMMA ConcludeFacts ==
  ASSUME PInv, NEW t \in Threads, NEW r, r = active[t], r # NoRun, NEW l, l = Conclude(r)
  PROVE  Storable(r, l) /\ RunInv(l) /\ Ended(l)
<1>1. RunningRun(r) /\ RunInv(r) /\ InProgress(r) /\ DOMAIN r = Locals /\ r.results \in Results
  BY DEF PInv, Types, RunningRun
<1>2. CASE r.approval_required # {}
  <2>1. l = [r EXCEPT !.status = "awaiting_approval"]
    BY <1>2 DEF Conclude
  <2>2. l.status = "awaiting_approval" /\ \A f \in Locals \ {"status"} : l[f] = r[f]
    BY <1>1, <2>1 DEF Locals
  <2>3. Storable(r, l)
    BY <1>1, <2>2 DEF Storable, Locals
  <2>4. l.results = r.results
    BY <2>2 DEF Locals
  <2>5. RunInv(l)
    BY <1>1, <2>3, <2>4 DEF Storable, RunInv, CallsAllowed, CallsReported, Resumed, Outcome
  <2>6. ASSUME NEW s \in r.approval_required PROVE Outcome(r, s, "awaiting_approval") /\ CallsOf(<<r.id, s>>) = 0
    <3>1. Outcome(r, s, "awaiting_approval")
      BY <1>1 DEF InProgress
    <3>2. PICK i \in DOMAIN r.results : r.results[i].step = s /\ r.results[i].status = "awaiting_approval"
      BY <3>1 DEF Outcome
    <3>3. r.results[i].attempts = 0
      BY <1>1, <3>2 DEF InProgress
    <3>4. QED
      BY <1>1, <3>1, <3>2, <3>3 DEF RunInv, CallsReported
  <2>7. Ended(l)
    BY <1>2, <2>2, <2>3, <2>4, <2>6 DEF Ended, Storable, Outcome
  <2>8. QED
    BY <2>3, <2>5, <2>7
<1>3. CASE r.approval_required = {} /\ r.pending # <<>>
  <2>0. PICK p : StuckResults(r, p) /\ l = [r EXCEPT !.status = "failed", !.results = p]
    <3> PICK e, q, a : e = [step |-> "dag", status |-> "failed", attempts |-> 0] /\ q = r.results /\ a = Append(q, e)
      OBVIOUS
    <3>1. l = [r EXCEPT !.status = "failed", !.results = a]
      BY <1>3 DEF Conclude
    <3>2. e \in [step : Steps \cup {"dag"}, status : Statuses, attempts : Nat]
      BY DEF Statuses
    <3>3. a \in Results
      BY <1>1, <3>2 DEF Results
    <3>4. /\ \A i \in DOMAIN q : i \in DOMAIN a /\ a[i] = q[i]
          /\ Len(q) + 1 \in DOMAIN a /\ a[Len(q) + 1] = e
          /\ \A i \in DOMAIN a : i \in DOMAIN q \/ a[i] = e
      BY <1>1, AppendFacts
    <3>5. e.step = "dag" /\ e.status = "failed" /\ e.attempts = 0
      OBVIOUS
    <3>6. /\ \A i \in DOMAIN r.results : i \in DOMAIN a /\ a[i] = r.results[i]
          /\ \E i \in DOMAIN a : a[i].step = "dag" /\ a[i].status = "failed"
          /\ \A i \in DOMAIN a : (i \in DOMAIN r.results /\ a[i] = r.results[i]) \/ (a[i].step = "dag" /\ a[i].attempts = 0)
      <4>1. \A i \in DOMAIN q : i \in DOMAIN a /\ a[i] = q[i]
        BY <3>4
      <4>2. \E i \in DOMAIN a : a[i].step = "dag" /\ a[i].status = "failed"
        <5>1. \E i \in DOMAIN a : a[i] = e
          BY <3>4
        <5>2. QED
          BY <5>1, <3>5
      <4>3. \A i \in DOMAIN a : (i \in DOMAIN q /\ a[i] = q[i]) \/ a[i] = e
        BY <3>4
      <4>4. \A i \in DOMAIN a : (i \in DOMAIN q /\ a[i] = q[i]) \/ (a[i].step = "dag" /\ a[i].attempts = 0)
        BY <4>3, <3>5
      <4>5. QED
        BY <4>1, <4>2, <4>4
    <3>7. StuckResults(r, a)
      BY <3>3, <3>6 DEF StuckResults
    <3>8. QED
      BY <3>1, <3>7
  <2>1. /\ p \in Results
        /\ \A i \in DOMAIN r.results : i \in DOMAIN p /\ p[i] = r.results[i]
        /\ \E i \in DOMAIN p : p[i].step = "dag" /\ p[i].status = "failed"
        /\ \A i \in DOMAIN p : (i \in DOMAIN r.results /\ p[i] = r.results[i]) \/ (p[i].step = "dag" /\ p[i].attempts = 0)
    BY <2>0 DEF StuckResults
  <2>2. l.status = "failed" /\ l.results = p /\ \A f \in Locals \ {"status", "results"} : l[f] = r[f]
    BY <1>1, <2>0 DEF Locals
  <2>3. Storable(r, l)
    BY <1>1, <2>1, <2>2 DEF Storable, Locals
  <2>4. CallsAllowed(l)
    <3>1. \A s, st : Outcome(r, s, st) => Outcome(l, s, st)
      BY <2>1, <2>2 DEF Outcome
    <3>2. CallsAllowed(r)
      BY <1>1 DEF RunInv
    <3>3. QED
      BY <2>3, <3>1, <3>2 DEF CallsAllowed, Storable
  <2>5. CallsReported(l)
    <3>1. CallsOf(<<r.id, "dag">>) = 0
      <4>1. <<r.id, "dag">> \notin DOMAIN calls
        BY PlaybookAssumption DEF PInv, Types
      <4>2. QED
        BY <4>1 DEF CallsOf
    <3>2. CallsReported(r)
      BY <1>1 DEF RunInv
    <3>3. l.id = r.id
      BY <2>3 DEF Storable
    <3> SUFFICES ASSUME NEW i \in DOMAIN p
                 PROVE  LET m == CallsOf(<<r.id, p[i].step>>)
                        IN  p[i].attempts = m /\ (m > 0 => m <= StepDef[p[i].step].retries + 1)
      BY <2>2, <3>3 DEF CallsReported
    <3>4. CASE p[i].step = "dag" /\ p[i].attempts = 0
      BY <3>1, <3>4
    <3>5. CASE i \in DOMAIN r.results /\ p[i] = r.results[i]
      BY <3>2, <3>5 DEF CallsReported
    <3>6. QED
      BY <3>4, <3>5, <2>1
  <2>6. RunInv(l)
    BY <1>1, <2>3, <2>4, <2>5 DEF RunInv, Resumed, Storable
  <2>7. Outcome(l, "dag", "failed")
    BY <2>1, <2>2 DEF Outcome
  <2>8. Ended(l)
    BY <2>2, <2>7 DEF Ended
  <2>9. QED
    BY <2>3, <2>6, <2>8
<1>4. CASE r.approval_required = {} /\ r.pending = <<>>
  <2>1. l = [r EXCEPT !.status = "completed"]
    BY <1>4 DEF Conclude
  <2>2. l.status = "completed" /\ \A f \in Locals \ {"status"} : l[f] = r[f]
    BY <1>1, <2>1 DEF Locals
  <2>3. Storable(r, l)
    BY <1>1, <2>2 DEF Storable, Locals
  <2>4. l.results = r.results
    BY <2>2 DEF Locals
  <2>5. RunInv(l)
    BY <1>1, <2>3, <2>4 DEF Storable, RunInv, CallsAllowed, CallsReported, Resumed, Outcome
  <2>6. ASSUME NEW s \in Range(StepsOf[r.playbook]) PROVE Outcome(r, s, "success")
    <3>1. s \notin Range(r.pending)
      BY <1>4 DEF Range
    <3>2. PICK i \in DOMAIN r.results : r.results[i].step = s
      BY <1>1, <3>1 DEF InProgress
    <3>3. r.results[i].status = "success"
      BY <1>1, <1>4, <3>2 DEF InProgress
    <3>4. QED
      BY <3>2, <3>3 DEF Outcome
  <2>7. Ended(l)
    BY <2>2, <2>3, <2>4, <2>6 DEF Ended, Storable, Outcome
  <2>8. QED
    BY <2>3, <2>5, <2>7
<1>5. QED
  BY <1>2, <1>3, <1>4

LEMMA FinishRunStep ==
  ASSUME PInv, NEW t \in Threads, FinishRun(t)
  PROVE  PInv'
<1> PICK r, l : r = active[t] /\ l = Conclude(r)
  OBVIOUS
<1>1. r # NoRun /\ Store(t, l) /\ UNCHANGED <<started, calls, cleared>>
  BY DEF FinishRun, Running, history
<1>2. Storable(r, l) /\ RunInv(l) /\ Ended(l)
  BY <1>1, ConcludeFacts
<1>3. Elsewhere(t, r.id) /\ \A x : CallsOf(x)' = CallsOf(x)
  BY <1>1, QuietElsewhere DEF Store
<1>4. r.id \notin DOMAIN runs
  BY <1>1 DEF PInv, OwnIds
<1>5. Kept
  BY <1>1, <1>2, <1>4 DEF Kept, Store, Storable, Put
<1>6. RunInv(l)' /\ Ended(l)'
  BY <1>2, <1>3, <1>5, RunInvKept DEF SameCalls, Ended, Outcome
<1>7. QED
  BY <1>1, <1>2, <1>3, <1>6, StoringStep

-----------------------------------------------------------------------------
(* The theorems                                                             *)

LEMMA WorkStep ==
  ASSUME PInv, NEW t \in Threads, Work(t)
  PROVE  PInv'
<1>1. CASE SkipStep(t)
  BY <1>1, SkipStepStep
<1>2. CASE AwaitApproval(t)
  BY <1>2, AwaitApprovalStep
<1>3. CASE StepSucceeds(t)
  BY <1>3, SuccessStep DEF StepSucceeds
<1>4. CASE StepRetries(t)
  BY <1>4, StepRetriesStep
<1>5. CASE StepFails(t)
  BY <1>5, StepFailsStep
<1>6. CASE StepFailsSilently(t)
  BY <1>6, SuccessStep DEF StepFailsSilently
<1>7. CASE NextPass(t)
  BY <1>7, NextPassStep
<1>8. CASE FinishRun(t)
  BY <1>8, FinishRunStep
<1>9. QED
  BY <1>1, <1>2, <1>3, <1>4, <1>5, <1>6, <1>7, <1>8 DEF Work

LEMMA PlaybookStep == PInv /\ [Next]_vars => PInv'
<1> SUFFICES ASSUME PInv, [Next]_vars PROVE PInv'
  OBVIOUS
<1>1. CASE UNCHANGED vars
  <2>1. runs' = runs /\ index' = index /\ active' = active /\ started' = started /\ calls' = calls /\ cleared' = cleared
    BY <1>1 DEF vars, history
  <2>2. Kept /\ \A i : SameCalls(i)
    BY <2>1 DEF Kept, SameCalls, CallsOf
  <2>3. \A id \in DOMAIN runs' : StoredRun(id, runs[id])' /\ RunInv(runs[id])' /\ StatusOf(id)'
    <3> SUFFICES ASSUME NEW id \in DOMAIN runs PROVE StoredRun(id, runs[id])' /\ RunInv(runs[id])' /\ StatusOf(id)'
      BY <2>1
    <3> PICK x : x = runs[id] /\ x = runs'[id]
      BY <2>1
    <3>1. StoredRun(id, x) /\ RunInv(x) /\ StatusOf(id)
      BY DEF PInv, Types
    <3>2. RunInv(x)' /\ StatusOf(id)' /\ StoredRun(id, x)'
      BY <2>2, <3>1, RunInvKept, StatusKept DEF StoredRun
    <3>3. QED
      BY <3>2
  <2>4. \A t \in Threads : active'[t] # NoRun => RunningRun(active[t])' /\ RunInv(active[t])' /\ InProgress(active[t])'
    <3> SUFFICES ASSUME NEW t \in Threads, active[t] # NoRun
                 PROVE  RunningRun(active[t])' /\ RunInv(active[t])' /\ InProgress(active[t])'
      BY <2>1
    <3> PICK x : x = active[t] /\ x = active'[t]
      BY <2>1
    <3>1. RunningRun(x) /\ RunInv(x) /\ InProgress(x)
      BY DEF PInv, Types
    <3>2. RunInv(x)' /\ InProgress(x)'
      BY <2>2, <3>1, RunInvKept, InProgressKept
    <3>3. RunningRun(x)'
      BY <2>1, <3>1 DEF RunningRun
    <3>4. QED
      BY <3>2, <3>3
  <2>5. Types'
    BY <2>1, <2>3, <2>4 DEF PInv, Types
  <2>6. OwnIds' /\ Found' /\ IndexConsistent'
    BY <2>1 DEF PInv, OwnIds, Found, IndexConsistent
  <2>7. OneRunPerKeyInSequence'
    BY <2>1 DEF PInv, OneRunPerKeyInSequence, AllRuns, Running, Public
  <2>8. QED
    BY <2>3, <2>4, <2>5, <2>6, <2>7 DEF PInv
<1>2. ASSUME NEW t \in Threads, NEW p \in Playbooks, NEW dry \in BOOLEAN, NEW k \in Keys \cup {p}, RunPlaybook(t, p, dry, k)
      PROVE  PInv'
  BY <1>2, RunPlaybookStep
<1>3. ASSUME NEW t \in Threads, NEW id \in DOMAIN runs, NEW ids \in ApproveIds, ApproveRun(t, id, ids)
      PROVE  PInv'
  BY <1>3, ApproveRunStep
<1>4. ASSUME NEW t \in Threads, Work(t) PROVE PInv'
  BY <1>4, WorkStep
<1>5. QED
  BY <1>1, <1>2, <1>3, <1>4 DEF Next

(* Whatever the playbooks and however the request threads interleave, a run *)
(* that is being built and every stored run are as PInv says.               *)
THEOREM PlaybookInvariant == Spec => []PInv
<1>1. Init => PInv
  BY InitSound
<1>2. PInv /\ [Next]_vars => PInv'
  BY PlaybookStep
<1>3. QED
  BY <1>1, <1>2, PTL DEF Spec

\* Every run there is satisfies the invariant of one run.
LEMMA EveryRun ==
  ASSUME PInv, NEW r \in AllRuns
  PROVE  RunInv(r)
<1>1. CASE \E id \in DOMAIN runs : r = runs[id]
  BY <1>1 DEF PInv
<1>2. CASE \E t \in Threads : active[t] # NoRun /\ r = Public(active[t])
  <2>1. PICK t \in Threads : active[t] # NoRun /\ r = Public(active[t])
    BY <1>2
  <2>2. PICK x : x = active[t]
    OBVIOUS
  <2>3. RunInv(x) /\ r = Public(x)
    BY <2>1, <2>2 DEF PInv
  <2>4. QED
    BY <2>3, PublicRunInv
<1>3. QED
  BY <1>1, <1>2 DEF AllRuns, Running

(* In every run, stored or in progress, of any playbook, the executor has   *)
(* been called for a tier 1 or tier 2 action only if the step was approved  *)
(* on an earlier stored run of the same playbook (evaluate_action, run and  *)
(* approve of PlaybookEngine).                                              *)
THEOREM ApprovalsRespected == Spec => []GatedOnlyAfterApproval
<1>1. PInv => GatedOnlyAfterApproval
  <2> SUFFICES ASSUME PInv, NEW r \in AllRuns, NEW s \in Steps, ~r.dry_run,
                      StepDef[s].tier + StepDef[s].listed > 0, CallsOf(<<r.id, s>>) > 0
               PROVE  /\ r.ancestor \in DOMAIN runs /\ r.ancestor < r.id
                      /\ runs[r.ancestor].playbook = r.playbook /\ s \in r.approved
    BY DEF GatedOnlyAfterApproval
  <2>1. RunInv(r)
    BY EveryRun
  <2>2. s \in r.approved
    BY <2>1 DEF RunInv, CallsAllowed
  <2>3. QED
    BY <2>1, <2>2 DEF RunInv, Resumed
<1>2. QED
  BY <1>1, PlaybookInvariant, PTL

(* Two runs with one idempotency key: the later one began while the first   *)
(* was in progress or after an approval gave the key up (run, _store).      *)
THEOREM KeysInSequence == Spec => []OneRunPerKeyInSequence
<1>1. PInv => OneRunPerKeyInSequence
  BY DEF PInv
<1>2. QED
  BY <1>1, PlaybookInvariant, PTL

(* The steps of a run are tried in the order of their dependencies, within  *)
(* the bound on their retries, and its results, its status and the index of *)
(* keys say what happened (run, _store).                                    *)
THEOREM RunsReported == Spec => []RunsSound
<1>1. PInv => TypeOK
  <2> SUFFICES ASSUME PInv PROVE TypeOK
    OBVIOUS
  <2>1. \A t \in Threads : Running(t) => RunningRun(active[t])
    BY DEF PInv, Types, Running
  <2>2. QED
    BY <2>1 DEF PInv, Types, TypeOK, RunningRun
<1>2. PInv => DependencyOrder
  BY EveryRun DEF DependencyOrder, RunInv, CallsAllowed
<1>3. PInv => StatusSound
  <2> SUFFICES ASSUME PInv, NEW id \in DOMAIN runs
               PROVE  LET r == runs[id]
                      IN  CASE r.status = "completed" ->
                                 \A s \in Range(StepsOf[r.playbook]) : Outcome(r, s, "success")
                            [] r.status = "awaiting_approval" ->
                                 /\ r.approval_required # {}
                                 /\ \A s \in r.approval_required :
                                      Outcome(r, s, "awaiting_approval") /\ CallsOf(<<id, s>>) = 0
                            [] r.status = "failed" ->
                                 \E s \in Steps \cup {"dag"} : Outcome(r, s, "failed")
    BY DEF StatusSound
  <2> PICK r : r = runs[id]
    OBVIOUS
  <2>1. r.status \in {"completed", "failed", "awaiting_approval"}
    BY DEF PInv, Types, StoredRun
  <2>2. StatusOf(id)
    BY DEF PInv
  <2>3. /\ r.status = "completed" => \A s \in Range(StepsOf[r.playbook]) : Outcome(r, s, "success")
        /\ r.status = "awaiting_approval" =>
             /\ r.approval_required # {}
             /\ \A s \in r.approval_required : Outcome(r, s, "awaiting_approval") /\ CallsOf(<<id, s>>) = 0
        /\ r.status = "failed" => \E s \in Steps \cup {"dag"} : Outcome(r, s, "failed")
    BY <2>2 DEF StatusOf
  <2>4. QED
    BY <2>1, <2>3
<1>4. PInv => AttemptsBounded
  BY EveryRun DEF AttemptsBounded, RunInv, CallsReported
<1>5. PInv => IndexConsistent
  BY DEF PInv
<1>6. PInv => RunsSound
  BY <1>1, <1>2, <1>3, <1>4, <1>5 DEF RunsSound
<1>7. QED
  BY <1>6, PlaybookInvariant, PTL
=============================================================================
