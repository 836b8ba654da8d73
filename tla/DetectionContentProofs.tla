----------------------- MODULE DetectionContentProofs -----------------------
(***************************************************************************)
(* Proofs about what detection works with: the rules (RuleLifecycle, part  *)
(* 1) and the indicators of compromise (Indicators, part 2), for any       *)
(* number of request threads, rules, datasets, versions, revisions and     *)
(* jobs, and of sessions, indicator types, times to live and requests.     *)
(*                                                                         *)
(* Both inductive invariants say what a request that is being served       *)
(* knows, and which of it still holds when other requests overlap it: of   *)
(* an indicator that no two open requests have touched, a session has read *)
(* what the table still says.                                              *)
(***************************************************************************)
EXTENDS RuleLifecycle, Indicators, SequenceTheorems, WellFoundedInduction, TLAPS

-----------------------------------------------------------------------------
(* Part 1. Rules: the inductive invariant                                   *)

RuleRequest ==
  [pc : {"gate", "move", "commit"}, rule : Rules, want : Statuses \cup {"history"},
   gated : BOOLEAN, rows : SUBSET Revision]

JobRequest ==
  [pc : {"job", "verdict"}, covers : SUBSET Rules, passed : BOOLEAN, todo : SUBSET Rules,
   forCandidate : BOOLEAN]

Job == [covers : SUBSET Rules, passed : BOOLEAN]

Requests ==
  /\ sess \in [Sessions -> {Idle} \cup RuleRequest \cup JobRequest]
  /\ jobs \in Seq(Job)
  /\ \A s \in Sessions : sess[s] \in RuleRequest /\ sess[s].want = "history" => sess[s].pc = "commit"

\* What a passing job covered is known in every place the gate looks at or
\* has been passed for.
Replayed ==
  /\ \A r \in Rules : rulePass[r] => r \in everPassed
  /\ \A s \in Sessions :
       /\ sess[s] \in JobRequest /\ sess[s].pc = "verdict" /\ sess[s].passed => sess[s].covers \subseteq everPassed
       /\ sess[s] \in RuleRequest =>
            /\ sess[s].pc # "gate" /\ sess[s].gated => sess[s].rule \in everPassed
            /\ \A x \in sess[s].rows : x.gated => x.rule \in everPassed

\* The session's job is among the jobs, and its open verdicts are of rules it covers.
JobKept ==
  \A s \in Sessions : sess[s] \in JobRequest =>
    /\ sess[s].todo \subseteq sess[s].covers
    /\ sess[s].pc = "job" => sess[s].todo = sess[s].covers
    /\ sess[s].pc = "verdict" =>
         \E i \in DOMAIN jobs : jobs[i] = [covers |-> sess[s].covers, passed |-> sess[s].passed]

\* All rows there are, committed or not; a time belongs to one row of a rule.
Rows == revisions \cup UNION {sess[s].rows : s \in {t \in Sessions : sess[t] \in RuleRequest}}

TimesUnique ==
  /\ \A x \in Rows : x.at <= clock
  /\ \A x, y \in Rows : x.rule = y.rule /\ x.at = y.at => x = y

Follows(R) ==
  \A x, y \in R :
    /\ x.rule = y.rule /\ x.at < y.at /\ y.from # "catalog"
    /\ \A z \in R : z.rule = x.rule => ~(x.at < z.at /\ z.at < y.at)
    => y.status \in ALLOWED_TRANSITIONS[x.status]

\* While requests do not overlap: one is served at a time, its rows are newer
\* than the committed ones, and with them the history follows the transitions.
SerialHistory ==
  serial =>
    /\ \A s, t \in Sessions : s # t => sess[s] = Idle \/ sess[t] = Idle
    /\ Follows(revisions)
    /\ \A s \in Sessions : sess[s] \in RuleRequest =>
         /\ \A x \in revisions, y \in sess[s].rows : x.at < y.at
         /\ Follows(Seen(s))

IsLatest(r, i) ==
  i \in DOMAIN jobs /\ r \in jobs[i].covers /\ \A j \in DOMAIN jobs : r \in jobs[j].covers => j <= i

\* While requests do not overlap: a job that is giving its verdicts is the last
\* one, and the gate lags behind the latest job only for the rules it has left.
SerialGate ==
  serial =>
    /\ \A s \in Sessions : sess[s] \in JobRequest /\ sess[s].pc = "verdict" =>
         /\ Len(jobs) > 0
         /\ jobs[Len(jobs)] = [covers |-> sess[s].covers, passed |-> sess[s].passed]
    /\ \A r \in Rules, i \in DOMAIN jobs :
         IsLatest(r, i) =>
           \/ rulePass[r] = jobs[i].passed
           \/ \E s \in Sessions : sess[s] \in JobRequest /\ sess[s].pc = "verdict" /\ r \in sess[s].todo

RInv ==
  /\ TypeOK /\ Requests
  /\ Replayed /\ PromotionReplayed
  /\ JobKept /\ OpenGateHasJob
  /\ TimesUnique /\ SerialHistory
  /\ SerialGate

-----------------------------------------------------------------------------
(* Numbers and requests                                                     *)

LEMMA LargestNumber ==
  ASSUME NEW n \in Nat, NEW T \in SUBSET (0..n), T # {}
  PROVE  \E x \in T : \A y \in T : y <= x
<1> DEFINE D == {n - y : y \in T}
           R == OpToRel(<, Nat)
<1>1. D \in SUBSET Nat /\ D # {}
  <2>1. \A y \in T : n - y \in Nat
    OBVIOUS
  <2>2. QED
    BY <2>1
<1>2. IsWellFoundedOn(R, Nat)
  BY NatLessThanWellFounded, Zenon
<1>3. \E d \in D : \A c \in D : <<c, d>> \notin R
  <2> HIDE DEF D, R
  <2> QED BY <1>1, <1>2, WFMin
<1>4. PICK d \in D : \A c \in D : ~(c < d)
  BY <1>3, <1>1 DEF OpToRel
<1>5. PICK x \in T : d = n - x
  BY <1>4
<1>6. \A y \in T : ~(n - y < n - x)
  BY <1>4, <1>5
<1>7. QED
  BY <1>6

LEMMA Kinds ==
  /\ \A o \in RuleRequest :
       /\ o # Idle /\ o \notin JobRequest
       /\ o.pc \in {"gate", "move", "commit"} /\ o.rule \in Rules /\ o.want \in Statuses \cup {"history"}
       /\ o.gated \in BOOLEAN /\ o.rows \subseteq Revision
  /\ \A o \in JobRequest :
       /\ o # Idle /\ o \notin RuleRequest
       /\ o.pc \in {"job", "verdict"} /\ o.covers \subseteq Rules /\ o.todo \subseteq Rules
       /\ o.passed \in BOOLEAN /\ o.forCandidate \in BOOLEAN
  /\ Idle \notin RuleRequest /\ Idle \notin JobRequest /\ Idle.pc = "idle"
<1>1. \A o \in RuleRequest :
        /\ o.pc \in {"gate", "move", "commit"} /\ o.rule \in Rules /\ o.want \in Statuses \cup {"history"}
        /\ o.gated \in BOOLEAN /\ o.rows \subseteq Revision
  BY DEF RuleRequest
<1>2. \A o \in JobRequest :
        /\ o.pc \in {"job", "verdict"} /\ o.covers \subseteq Rules /\ o.todo \subseteq Rules
        /\ o.passed \in BOOLEAN /\ o.forCandidate \in BOOLEAN
  BY DEF JobRequest
<1>3. Idle.pc = "idle"
  BY DEF Idle
<1>4. QED
  BY <1>1, <1>2, <1>3

\* A session is idle or serves a request of one kind, and its pc tells which.
LEMMA SessionKind ==
  ASSUME Requests, NEW s \in Sessions
  PROVE  /\ sess[s] = Idle \/ sess[s] \in RuleRequest \/ sess[s] \in JobRequest
         /\ sess[s].pc \in {"gate", "move", "commit"} <=> sess[s] \in RuleRequest
         /\ sess[s].pc \in {"job", "verdict"} <=> sess[s] \in JobRequest
<1>1. sess[s] \in {Idle} \cup RuleRequest \cup JobRequest
  BY DEF Requests
<1>2. QED
  BY <1>1, Kinds

LEMMA SessionSet ==
  ASSUME Requests, NEW s \in Sessions, NEW n \in {Idle} \cup RuleRequest \cup JobRequest,
         sess' = [sess EXCEPT ![s] = n]
  PROVE  /\ sess'[s] = n /\ \A t \in Sessions \ {s} : sess'[t] = sess[t]
         /\ sess' \in [Sessions -> {Idle} \cup RuleRequest \cup JobRequest]
<1>1. sess \in [Sessions -> {Idle} \cup RuleRequest \cup JobRequest]
  BY DEF Requests
<1>2. QED
  BY <1>1

\* The parts of TypeOK that do not follow from Requests.
TypeRest ==
  /\ revisions \subseteq Revision
  /\ deployed \in 1..MaxVersion
  /\ rulePass \in [Rules -> BOOLEAN]
  /\ candidate \in {"none", "proposed", "replayed", "rejected"}
  /\ clock \in 0..MaxRevisions
  /\ begun \in 0..MaxJobs
  /\ serial \in BOOLEAN

Visible ==
  \A s \in Sessions : sess[s] \in RuleRequest => \E x \in Seen(s) : x.rule = sess[s].rule

LEMMA TypeSplit ==
  ASSUME Requests, JobKept
  PROVE  TypeOK <=> TypeRest /\ Visible
<1>1. ASSUME NEW s \in Sessions
      PROVE  /\ sess[s].pc \in {"idle", "gate", "move", "commit", "job", "verdict"}
             /\ sess[s].pc \in {"gate", "move", "commit"} => sess[s].rows \subseteq Revision
             /\ sess[s].pc \in {"gate", "move", "commit"} <=> sess[s] \in RuleRequest
             /\ sess[s].pc = "verdict" => sess[s].todo \subseteq sess[s].covers
  <2>1. /\ sess[s] = Idle \/ sess[s] \in RuleRequest \/ sess[s] \in JobRequest
        /\ sess[s].pc \in {"gate", "move", "commit"} <=> sess[s] \in RuleRequest
    BY SessionKind
  <2>2. CASE sess[s] = Idle
    BY <2>1, <2>2, Kinds
  <2>3. CASE sess[s] \in RuleRequest
    BY <2>1, <2>3, Kinds
  <2>4. CASE sess[s] \in JobRequest
    BY <2>1, <2>4, Kinds DEF JobKept
  <2>5. QED
    BY <2>1, <2>2, <2>3, <2>4
<1>2. QED
  BY <1>1 DEF TypeOK, TypeRest, Visible

OneAtATime == serial => \A s, t \in Sessions : s # t => sess[s] = Idle \/ sess[t] = Idle

\* The invariant in the parts that the steps below are taken apart into.
Shape == Requests /\ TypeRest /\ Visible /\ OneAtATime
Promotion == Replayed /\ PromotionReplayed
Verdicts == JobKept /\ OpenGateHasJob /\ SerialGate
Histories == TimesUnique /\ SerialHistory

LEMMA InvParts == RInv <=> Shape /\ Promotion /\ Verdicts /\ Histories
<1>1. RInv => Shape /\ Promotion /\ Verdicts /\ Histories
  BY TypeSplit DEF RInv, Shape, Promotion, Verdicts, Histories, OneAtATime, SerialHistory
<1>2. Shape /\ Promotion /\ Verdicts /\ Histories => RInv
  BY TypeSplit DEF RInv, Shape, Promotion, Verdicts, Histories
<1>3. QED
  BY <1>1, <1>2

-----------------------------------------------------------------------------
(* What most steps leave alone                                              *)

\* No request begins.
LEMMA NoneBegins ==
  ASSUME OneAtATime, serial' = serial, \A t \in Sessions : sess[t] = Idle => sess'[t] = Idle
  PROVE  OneAtATime'
  BY DEF OneAtATime

\* Only request s begins.
LEMMA OneBegins ==
  ASSUME OneAtATime, NEW s \in Sessions, Overlap(s), \A t \in Sessions \ {s} : sess'[t] = sess[t]
  PROVE  OneAtATime'
  BY DEF OneAtATime, Overlap

\* The jobs and the gate stay, and a session that leaves its job has given
\* all its verdicts.
LEMMA VerdictsKept ==
  ASSUME Shape, Verdicts, UNCHANGED <<jobs, rulePass>>, serial' => serial,
         \A t \in Sessions : sess'[t] \in JobRequest => \/ sess'[t] = sess[t]
                                                        \/ sess'[t].pc = "job" /\ sess'[t].todo = sess'[t].covers,
         \A t \in Sessions : sess[t] \in JobRequest /\ sess'[t] # sess[t] => sess[t].todo = {}
  PROVE  Verdicts'
<1>1. JobKept'
  <2> SUFFICES ASSUME NEW t \in Sessions, sess'[t] \in JobRequest
               PROVE  /\ sess'[t].todo \subseteq sess'[t].covers
                      /\ sess'[t].pc = "job" => sess'[t].todo = sess'[t].covers
                      /\ sess'[t].pc = "verdict" =>
                           \E i \in DOMAIN jobs : jobs[i] = [covers |-> sess'[t].covers, passed |-> sess'[t].passed]
    BY DEF JobKept
  <2>1. CASE sess'[t] = sess[t]
    BY <2>1 DEF Verdicts, JobKept
  <2>2. CASE sess'[t].pc = "job" /\ sess'[t].todo = sess'[t].covers
    BY <2>2
  <2>3. QED
    BY <2>1, <2>2
<1>2. OpenGateHasJob'
  BY DEF Verdicts, OpenGateHasJob
<1>3. SerialGate'
  <2> SUFFICES ASSUME serial'
               PROVE  /\ \A s \in Sessions : sess'[s] \in JobRequest /\ sess'[s].pc = "verdict" =>
                           /\ Len(jobs) > 0
                           /\ jobs[Len(jobs)] = [covers |-> sess'[s].covers, passed |-> sess'[s].passed]
                      /\ \A r \in Rules, i \in DOMAIN jobs :
                           IsLatest(r, i) =>
                             \/ rulePass[r] = jobs[i].passed
                             \/ \E s \in Sessions : sess'[s] \in JobRequest /\ sess'[s].pc = "verdict" /\ r \in sess'[s].todo
    BY DEF SerialGate, IsLatest
  <2>1. SerialGate /\ serial
    BY DEF Verdicts
  <2>2. \A s \in Sessions : sess'[s] \in JobRequest /\ sess'[s].pc = "verdict" => sess'[s] = sess[s]
    OBVIOUS
  <2>3. \A s \in Sessions, r \in Rules : sess[s] \in JobRequest /\ r \in sess[s].todo => sess'[s] = sess[s]
    OBVIOUS
  <2>4. QED
    BY <2>1, <2>2, <2>3 DEF SerialGate
<1>4. QED
  BY <1>1, <1>2, <1>3 DEF Verdicts

\* The rows stay, in the database and in the sessions that go on.
LEMMA HistoriesKept ==
  ASSUME Histories, OneAtATime', UNCHANGED <<revisions, clock>>, serial' => serial,
         \A t \in Sessions : sess'[t] \in RuleRequest => sess[t] \in RuleRequest /\ sess'[t].rows = sess[t].rows
  PROVE  Histories'
<1>1. Rows' \subseteq Rows
  BY DEF Rows
<1>2. TimesUnique'
  BY <1>1 DEF Histories, TimesUnique
<1>3. SerialHistory'
  <2> SUFFICES ASSUME serial'
               PROVE  /\ Follows(revisions)
                      /\ \A s \in Sessions : sess'[s] \in RuleRequest =>
                           /\ \A x \in revisions, y \in sess'[s].rows : x.at < y.at
                           /\ Follows(revisions \cup sess'[s].rows)
    BY DEF SerialHistory, OneAtATime, Seen, Follows
  <2>1. QED
    BY DEF Histories, SerialHistory, Seen
<1>4. QED
  BY <1>2, <1>3 DEF Histories

\* Nothing new is gated, and nothing that passed is forgotten.
LEMMA PromotionKept ==
  ASSUME Promotion, revisions' = revisions, everPassed \subseteq everPassed',
         \A r \in Rules : rulePass'[r] => rulePass[r],
         \A t \in Sessions : sess'[t] \in JobRequest /\ sess'[t].pc = "verdict" =>
           sess[t] \in JobRequest /\ sess[t].pc = "verdict" /\ sess'[t].passed = sess[t].passed /\ sess'[t].covers = sess[t].covers,
         \A t \in Sessions : sess'[t] \in RuleRequest =>
           \/ sess'[t] = sess[t]
           \/ /\ sess'[t].gated => sess'[t].pc = "gate"
              /\ \A x \in sess'[t].rows : ~x.gated
  PROVE  Promotion'
<1>1. \A r \in Rules : rulePass'[r] => r \in everPassed'
  BY DEF Promotion, Replayed
<1>2. ASSUME NEW t \in Sessions, sess'[t] \in JobRequest, sess'[t].pc = "verdict", sess'[t].passed
      PROVE  sess'[t].covers \subseteq everPassed'
  <2>1. sess[t] \in JobRequest /\ sess[t].pc = "verdict" /\ sess[t].passed /\ sess'[t].covers = sess[t].covers
    BY <1>2
  <2>2. QED
    BY <2>1 DEF Promotion, Replayed
<1>3. ASSUME NEW t \in Sessions, sess'[t] \in RuleRequest
      PROVE  /\ sess'[t].pc # "gate" /\ sess'[t].gated => sess'[t].rule \in everPassed'
             /\ \A x \in sess'[t].rows : x.gated => x.rule \in everPassed'
  <2>1. CASE sess'[t] = sess[t]
    BY <2>1, <1>3 DEF Promotion, Replayed
  <2>2. CASE sess'[t] # sess[t]
    BY <2>2, <1>3
  <2>3. QED
    BY <2>1, <2>2
<1>4. Replayed'
  BY <1>1, <1>2, <1>3 DEF Replayed
<1>5. PromotionReplayed'
  BY DEF Promotion, PromotionReplayed
<1>6. QED
  BY <1>4, <1>5 DEF Promotion

-----------------------------------------------------------------------------
(* The steps                                                                *)

All == Shape /\ Promotion /\ Verdicts /\ Histories

\* A request ends and leaves no rows: Rollback, and the end of a job.
LEMMA Ends ==
  ASSUME All, NEW s \in Sessions, sess' = [sess EXCEPT ![s] = Idle],
         UNCHANGED <<revisions, deployed, jobs, rulePass, everPassed, clock, begun, serial>>,
         candidate' \in {"none", "proposed", "replayed", "rejected"},
         sess[s] \in JobRequest => sess[s].todo = {}
  PROVE  All'
<1>1. Requests /\ Shape /\ Promotion /\ Verdicts /\ Histories
  BY DEF All, Shape
<1>2. /\ sess'[s] = Idle /\ \A t \in Sessions \ {s} : sess'[t] = sess[t]
      /\ sess' \in [Sessions -> {Idle} \cup RuleRequest \cup JobRequest]
  BY <1>1, SessionSet
<1>3. \A t \in Sessions : sess'[t] \in RuleRequest \/ sess'[t] \in JobRequest => sess'[t] = sess[t]
  BY <1>2, Kinds
<1>4. Shape'
  <2>1. Requests'
    BY <1>1, <1>2, <1>3 DEF Requests
  <2>2. TypeRest'
    BY <1>1 DEF Shape, TypeRest
  <2>3. Visible'
    BY <1>1, <1>3 DEF Shape, Visible, Seen
  <2>4. OneAtATime'
    BY <1>1, <1>2, NoneBegins DEF Shape
  <2>5. QED
    BY <2>1, <2>2, <2>3, <2>4 DEF Shape
<1>5. Promotion'
  BY <1>1, <1>3, PromotionKept
<1>6. Verdicts'
  BY <1>1, <1>2, <1>3, VerdictsKept
<1>7. Histories'
  BY <1>1, <1>3, <1>4, HistoriesKept DEF Shape
<1>8. QED
  BY <1>4, <1>5, <1>6, <1>7 DEF All

\* The process restarts.
LEMMA Restarts ==
  ASSUME All, NEW v \in 1..MaxVersion, Restart(v)
  PROVE  All'
<1>1. Requests /\ Shape /\ Promotion /\ Verdicts /\ Histories
  BY DEF All, Shape
<1>2. /\ deployed' = v /\ sess' = [s \in Sessions |-> Idle]
      /\ jobs' = <<>> /\ rulePass' = [r \in Rules |-> FALSE] /\ candidate' = "none"
      /\ UNCHANGED <<revisions, clock, begun, everPassed, serial>>
  BY DEF Restart
<1>3. \A t \in Sessions : sess'[t] = Idle /\ sess'[t] \notin RuleRequest /\ sess'[t] \notin JobRequest
  BY <1>2, Kinds
<1>4. Shape'
  <2>1. Requests'
    BY <1>2, <1>3 DEF Requests
  <2>2. TypeRest'
    BY <1>1, <1>2 DEF Shape, TypeRest
  <2>3. Visible' /\ OneAtATime'
    BY <1>3 DEF Visible, OneAtATime
  <2>4. QED
    BY <2>1, <2>2, <2>3 DEF Shape
<1>5. Promotion'
  <2>1. \A r \in Rules : ~rulePass'[r]
    BY <1>2
  <2>2. QED
    BY <1>1, <1>2, <1>3, <2>1, PromotionKept
<1>6. Verdicts'
  BY <1>2, <1>3 DEF Verdicts, JobKept, OpenGateHasJob, SerialGate
<1>7. Histories'
  BY <1>1, <1>2, <1>3, <1>4, HistoriesKept DEF Shape
<1>8. QED
  BY <1>4, <1>5, <1>6, <1>7 DEF All

\* Nothing that the invariant is about changes.
LEMMA Stutters ==
  ASSUME All, UNCHANGED <<revisions, sess, deployed, jobs, rulePass, clock, begun, everPassed, serial>>,
         candidate' \in {"none", "proposed", "replayed", "rejected"}
  PROVE  All'
<1>1. Requests /\ Shape /\ Promotion /\ Verdicts /\ Histories
  BY DEF All, Shape
<1>2. Shape'
  BY <1>1 DEF Shape, Requests, TypeRest, Visible, Seen, OneAtATime
<1>3. Promotion' /\ Verdicts'
  BY <1>1, PromotionKept, VerdictsKept
<1>4. Histories'
  BY <1>1, <1>2, HistoriesKept DEF Shape
<1>5. QED
  BY <1>2, <1>3, <1>4 DEF All

\* The gate opens for a promotion.
LEMMA GateOpens ==
  ASSUME All, NEW s \in Sessions, sess[s].pc = "gate", rulePass[sess[s].rule],
         sess' = [sess EXCEPT ![s].pc = "move"],
         UNCHANGED <<revisions, deployed, lab, clock, begun, serial>>
  PROVE  All'
<1>1. Requests /\ Shape /\ Promotion /\ Verdicts /\ Histories /\ Replayed /\ TypeRest
  BY DEF All, Shape, Promotion
<1>2. UNCHANGED <<jobs, rulePass, candidate, everPassed>>
  BY DEF lab
<1>3. sess[s] \in RuleRequest
  BY <1>1, SessionKind
<1>4. PICK n : n = [sess[s] EXCEPT !.pc = "move"]
  OBVIOUS
<1>5. /\ n \in RuleRequest /\ n.pc = "move" /\ n.rule = sess[s].rule /\ n.gated = sess[s].gated
      /\ n.rows = sess[s].rows /\ n.want = sess[s].want /\ n.rule \in Rules /\ sess[s].want # "history"
  <2>1. sess[s].want # "history"
    BY <1>1, <1>3 DEF Requests
  <2>2. QED
    BY <1>3, <1>4, <2>1 DEF RuleRequest
<1>6. /\ sess'[s] = n /\ \A t \in Sessions \ {s} : sess'[t] = sess[t]
      /\ sess' \in [Sessions -> {Idle} \cup RuleRequest \cup JobRequest]
  BY <1>1, <1>4, <1>5, SessionSet
<1>7. n \notin JobRequest /\ n # Idle /\ sess[s] # Idle /\ sess[s] \notin JobRequest
  BY <1>3, <1>5, Kinds
<1>8. Shape'
  <2>1. Requests'
    <3>1. \A t \in Sessions : sess'[t] \in RuleRequest /\ sess'[t].want = "history" => sess'[t].pc = "commit"
      BY <1>1, <1>5, <1>6 DEF Requests
    <3>2. QED
      BY <1>1, <1>2, <1>6, <3>1 DEF Requests
  <2>2. TypeRest'
    BY <1>1, <1>2 DEF Shape, TypeRest
  <2>3. Visible'
    BY <1>1, <1>3, <1>5, <1>6 DEF Shape, Visible, Seen
  <2>4. OneAtATime'
    BY <1>1, <1>6, <1>7, NoneBegins DEF Shape
  <2>5. QED
    BY <2>1, <2>2, <2>3, <2>4 DEF Shape
<1>9. Promotion'
  <2>1. n.rule \in everPassed /\ \A x \in n.rows : x.gated => x.rule \in everPassed
    BY <1>1, <1>3, <1>5 DEF Replayed
  <2>2. Replayed'
    BY <1>1, <1>2, <1>6, <1>7, <2>1 DEF Replayed
  <2>3. QED
    BY <1>1, <2>2 DEF Promotion, PromotionReplayed, lab
<1>10. Verdicts'
  BY <1>1, <1>2, <1>6, <1>7, VerdictsKept
<1>11. Histories'
  BY <1>1, <1>3, <1>5, <1>6, <1>8, HistoriesKept DEF Shape
<1>12. QED
  BY <1>8, <1>9, <1>10, <1>11 DEF All

\* The scenarios of a job have run.
LEMMA JobBegins ==
  ASSUME All, NEW s \in Sessions, NEW covers \in Datasets, NEW passed \in BOOLEAN, NEW cand \in BOOLEAN,
         RunScenarios(s, covers, passed, cand)
  PROVE  All'
<1>1. Requests /\ Shape /\ Promotion /\ Verdicts /\ Histories
  BY DEF All, Shape
<1>2. PICK n : n = [pc |-> "job", covers |-> covers, passed |-> passed, todo |-> covers, forCandidate |-> cand]
  OBVIOUS
<1>3. /\ sess[s] = Idle /\ begun < MaxJobs /\ begun' = begun + 1 /\ sess' = [sess EXCEPT ![s] = n]
      /\ Overlap(s) /\ UNCHANGED <<revisions, deployed, clock, jobs, rulePass, candidate, everPassed>>
  BY <1>2 DEF RunScenarios, lab
<1>4. n \in JobRequest /\ n.pc = "job" /\ n.todo = n.covers
  BY <1>2, LifecycleAssumption DEF JobRequest
<1>5. /\ sess'[s] = n /\ \A t \in Sessions \ {s} : sess'[t] = sess[t]
      /\ sess' \in [Sessions -> {Idle} \cup RuleRequest \cup JobRequest]
  BY <1>1, <1>3, <1>4, SessionSet
<1>6. n \notin RuleRequest /\ n # Idle /\ sess[s] \notin JobRequest
  BY <1>3, <1>4, Kinds
<1>7. serial' => serial
  BY <1>3 DEF Overlap
<1>8. Shape'
  <2>1. Requests'
    BY <1>1, <1>3, <1>5, <1>6 DEF Requests
  <2>2. TypeRest'
    BY <1>1, <1>3, LifecycleAssumption DEF Shape, TypeRest, Overlap
  <2>3. Visible'
    BY <1>1, <1>3, <1>5, <1>6 DEF Shape, Visible, Seen
  <2>4. OneAtATime'
    BY <1>1, <1>3, <1>5, OneBegins DEF Shape
  <2>5. QED
    BY <2>1, <2>2, <2>3, <2>4 DEF Shape
<1>9. Promotion'
  BY <1>1, <1>3, <1>4, <1>5, <1>6, PromotionKept
<1>10. Verdicts'
  BY <1>1, <1>3, <1>4, <1>5, <1>6, <1>7, VerdictsKept
<1>11. Histories'
  BY <1>1, <1>3, <1>5, <1>6, <1>7, <1>8, HistoriesKept DEF Shape
<1>12. QED
  BY <1>8, <1>9, <1>10, <1>11 DEF All

\* The job is kept.
LEMMA JobKeeps ==
  ASSUME All, NEW s \in Sessions, KeepJob(s)
  PROVE  All'
<1>1. /\ Requests /\ Shape /\ Promotion /\ Verdicts /\ Histories /\ JobKept /\ OpenGateHasJob /\ SerialGate
      /\ OneAtATime /\ Replayed
  BY DEF All, Shape, Verdicts, Promotion
<1>2. PICK o, n, job : /\ o = sess[s] /\ n = [o EXCEPT !.pc = "verdict"]
                       /\ job = [covers |-> o.covers, passed |-> o.passed]
  OBVIOUS
<1>3. /\ o.pc = "job" /\ jobs' = Append(jobs, job)
      /\ everPassed' = (IF o.passed THEN everPassed \cup o.covers ELSE everPassed)
      /\ sess' = [sess EXCEPT ![s] = n]
      /\ UNCHANGED <<revisions, deployed, rulePass, candidate, clock, begun, serial>>
  BY <1>2 DEF KeepJob
<1>4. o \in JobRequest /\ o # Idle /\ o \notin RuleRequest
  BY <1>1, <1>2, <1>3, SessionKind, Kinds
<1>5. /\ n \in JobRequest /\ n.pc = "verdict" /\ n.covers = o.covers /\ n.passed = o.passed
      /\ n.todo = o.todo /\ job \in Job /\ job.covers = o.covers /\ job.passed = o.passed
  BY <1>2, <1>4 DEF JobRequest, Job
<1>6. /\ sess'[s] = n /\ \A t \in Sessions \ {s} : sess'[t] = sess[t]
      /\ sess' \in [Sessions -> {Idle} \cup RuleRequest \cup JobRequest]
  BY <1>1, <1>3, <1>5, SessionSet
<1>7. n \notin RuleRequest /\ n # Idle
  BY <1>5, Kinds
<1>8. /\ jobs \in Seq(Job) /\ jobs' \in Seq(Job) /\ Len(jobs) \in Nat /\ Len(jobs') = Len(jobs) + 1
      /\ DOMAIN jobs = 1..Len(jobs) /\ DOMAIN jobs' = 1..(Len(jobs) + 1)
      /\ \A i \in 1..Len(jobs) : jobs'[i] = jobs[i] /\ i \in 1..(Len(jobs) + 1)
      /\ jobs'[Len(jobs) + 1] = job
      /\ \A i \in 1..(Len(jobs) + 1) : i \in 1..Len(jobs) \/ i = Len(jobs) + 1
  <2>1. jobs \in Seq(Job)
    BY <1>1 DEF Requests
  <2>2. QED
    BY <2>1, <1>3, <1>5
<1>9. Shape'
  <2>1. Requests'
    BY <1>1, <1>6, <1>7, <1>8 DEF Requests
  <2>2. TypeRest'
    BY <1>1, <1>3 DEF Shape, TypeRest
  <2>3. Visible'
    BY <1>1, <1>3, <1>6, <1>7 DEF Shape, Visible, Seen
  <2>4. OneAtATime'
    BY <1>1, <1>2, <1>3, <1>4, <1>6, NoneBegins
  <2>5. QED
    BY <2>1, <2>2, <2>3, <2>4 DEF Shape
<1>10. Promotion'
  <2>1. everPassed \subseteq everPassed' /\ n.passed => n.covers \subseteq everPassed'
    BY <1>3, <1>5
  <2>2. Replayed'
    BY <1>1, <1>3, <1>6, <1>7, <2>1 DEF Replayed
  <2>3. PromotionReplayed'
    BY <1>1, <1>3, <2>1 DEF Promotion, PromotionReplayed
  <2>4. QED
    BY <2>2, <2>3 DEF Promotion
<1>11. JobKept' /\ OpenGateHasJob'
  <2>1. ASSUME NEW t \in Sessions, sess'[t] \in JobRequest
        PROVE  /\ sess'[t].todo \subseteq sess'[t].covers
               /\ sess'[t].pc = "job" => sess'[t].todo = sess'[t].covers
               /\ sess'[t].pc = "verdict" =>
                    \E i \in DOMAIN jobs' : jobs'[i] = [covers |-> sess'[t].covers, passed |-> sess'[t].passed]
    <3>1. CASE t = s
      <4>1. o.todo = o.covers
        BY <1>1, <1>2, <1>3, <1>4 DEF JobKept
      <4>2. Len(jobs) + 1 \in DOMAIN jobs'
        BY <1>8
      <4>3. QED
        BY <3>1, <4>1, <4>2, <1>2, <1>5, <1>6, <1>8
    <3>2. CASE t # s
      <4>1. sess'[t] = sess[t]
        BY <3>2, <1>6
      <4>2. QED
        BY <4>1, <2>1, <1>1, <1>8 DEF JobKept
    <3>3. QED
      BY <3>1, <3>2
  <2>2. OpenGateHasJob'
    BY <1>1, <1>3, <1>8 DEF OpenGateHasJob
  <2>3. QED
    BY <2>1, <2>2 DEF JobKept
<1>12. SerialGate'
  <2> SUFFICES ASSUME serial'
               PROVE  /\ \A t \in Sessions : sess'[t] \in JobRequest /\ sess'[t].pc = "verdict" =>
                           /\ Len(jobs') > 0
                           /\ jobs'[Len(jobs')] = [covers |-> sess'[t].covers, passed |-> sess'[t].passed]
                      /\ \A r \in Rules, i \in DOMAIN jobs' :
                           IsLatest(r, i)' =>
                             \/ rulePass'[r] = jobs'[i].passed
                             \/ \E t \in Sessions : sess'[t] \in JobRequest /\ sess'[t].pc = "verdict" /\ r \in sess'[t].todo
    BY DEF SerialGate
  <2>1. \A t \in Sessions \ {s} : sess[t] = Idle /\ sess'[t] = Idle /\ sess[t] \notin JobRequest
    BY <1>1, <1>2, <1>3, <1>4, <1>6, Kinds DEF OneAtATime
  <2>2. ASSUME NEW t \in Sessions, sess'[t] \in JobRequest
        PROVE  /\ Len(jobs') > 0
               /\ jobs'[Len(jobs')] = [covers |-> sess'[t].covers, passed |-> sess'[t].passed]
    <3>1. t = s
      BY <2>1, <2>2, Kinds
    <3>2. QED
      BY <3>1, <1>2, <1>5, <1>6, <1>8
  <2>3. ASSUME NEW r \in Rules, NEW i \in DOMAIN jobs', IsLatest(r, i)', r \notin n.todo
        PROVE  rulePass'[r] = jobs'[i].passed
    <3>1. r \notin job.covers
      BY <2>3, <1>1, <1>2, <1>3, <1>4, <1>5 DEF JobKept
    <3>2. i \in DOMAIN jobs
      BY <2>3, <3>1, <1>8 DEF IsLatest
    <3>3. IsLatest(r, i)
      BY <2>3, <3>2, <1>8 DEF IsLatest
    <3>4. \A t \in Sessions : sess[t] \in JobRequest => sess[t].pc # "verdict"
      BY <2>1, <1>2, <1>3
    <3>5. rulePass[r] = jobs[i].passed
      BY <3>2, <3>3, <3>4, <1>1, <1>3 DEF SerialGate
    <3>6. QED
      BY <3>2, <3>5, <1>3, <1>8
  <2>4. QED
    BY <2>2, <2>3, <1>5, <1>6
<1>13. Histories'
  BY <1>1, <1>3, <1>6, <1>7, <1>9, HistoriesKept DEF Shape
<1>14. QED
  BY <1>9, <1>10, <1>11, <1>12, <1>13 DEF All, Verdicts

\* The job gives its verdict on one rule.
LEMMA VerdictGiven ==
  ASSUME All, NEW s \in Sessions, NEW r \in Rules, SetRulePass(s, r)
  PROVE  All'
<1>1. /\ Requests /\ Shape /\ Promotion /\ Verdicts /\ Histories /\ JobKept /\ OpenGateHasJob /\ SerialGate
      /\ OneAtATime /\ Replayed /\ TypeRest /\ rulePass \in [Rules -> BOOLEAN]
  BY DEF All, Shape, Verdicts, Promotion, TypeRest
<1>2. PICK o, n : o = sess[s] /\ n = [o EXCEPT !.todo = @ \ {r}]
  OBVIOUS
<1>3. /\ o.pc = "verdict" /\ r \in o.todo
      /\ rulePass' = [rulePass EXCEPT ![r] = o.passed]
      /\ sess' = [sess EXCEPT ![s] = n]
      /\ UNCHANGED <<revisions, deployed, jobs, candidate, everPassed, clock, begun, serial>>
  BY <1>2 DEF SetRulePass, Verdict
<1>4. o \in JobRequest /\ o # Idle /\ o \notin RuleRequest /\ o.passed \in BOOLEAN
  BY <1>1, <1>2, <1>3, SessionKind, Kinds
<1>5. /\ n \in JobRequest /\ n.pc = "verdict" /\ n.covers = o.covers /\ n.passed = o.passed
      /\ n.todo = o.todo \ {r}
  BY <1>2, <1>3, <1>4 DEF JobRequest
<1>6. /\ sess'[s] = n /\ \A t \in Sessions \ {s} : sess'[t] = sess[t]
      /\ sess' \in [Sessions -> {Idle} \cup RuleRequest \cup JobRequest]
  BY <1>1, <1>3, <1>5, SessionSet
<1>7. n \notin RuleRequest /\ n # Idle
  BY <1>5, Kinds
<1>8. /\ rulePass' \in [Rules -> BOOLEAN] /\ rulePass'[r] = o.passed
      /\ \A q \in Rules \ {r} : rulePass'[q] = rulePass[q]
  BY <1>1, <1>3, <1>4
<1>9. r \in o.covers /\ \E i \in DOMAIN jobs : jobs[i] = [covers |-> o.covers, passed |-> o.passed]
  BY <1>1, <1>2, <1>3, <1>4 DEF JobKept
<1>10. Shape'
  <2>1. Requests'
    BY <1>1, <1>3, <1>6, <1>7 DEF Requests
  <2>2. TypeRest'
    BY <1>1, <1>3, <1>8 DEF TypeRest
  <2>3. Visible'
    BY <1>1, <1>3, <1>6, <1>7 DEF Shape, Visible, Seen
  <2>4. OneAtATime'
    BY <1>1, <1>2, <1>3, <1>4, <1>6, NoneBegins
  <2>5. QED
    BY <2>1, <2>2, <2>3, <2>4 DEF Shape
<1>11. Promotion'
  <2>1. o.passed => o.covers \subseteq everPassed
    BY <1>1, <1>2, <1>3, <1>4 DEF Replayed
  <2>2. \A q \in Rules : rulePass'[q] => q \in everPassed
    BY <2>1, <1>1, <1>8, <1>9 DEF Replayed
  <2>3. Replayed'
    BY <1>1, <1>3, <1>5, <1>6, <1>7, <2>1, <2>2 DEF Replayed
  <2>4. QED
    BY <1>1, <1>3, <2>3 DEF Promotion, PromotionReplayed
<1>12. JobKept' /\ OpenGateHasJob'
  <2>1. JobKept'
    BY <1>1, <1>2, <1>3, <1>4, <1>5, <1>6 DEF JobKept
  <2>2. OpenGateHasJob'
    BY <1>1, <1>3, <1>8, <1>9 DEF OpenGateHasJob
  <2>3. QED
    BY <2>1, <2>2
<1>13. SerialGate'
  <2> SUFFICES ASSUME serial'
               PROVE  /\ \A t \in Sessions : sess'[t] \in JobRequest /\ sess'[t].pc = "verdict" =>
                           /\ Len(jobs) > 0
                           /\ jobs[Len(jobs)] = [covers |-> sess'[t].covers, passed |-> sess'[t].passed]
                      /\ \A q \in Rules, i \in DOMAIN jobs :
                           IsLatest(q, i) =>
                             \/ rulePass'[q] = jobs[i].passed
                             \/ \E t \in Sessions : sess'[t] \in JobRequest /\ sess'[t].pc = "verdict" /\ q \in sess'[t].todo
    BY <1>3 DEF SerialGate, IsLatest
  <2>1. serial /\ SerialGate
    BY <1>1, <1>3
  <2>2. /\ Len(jobs) > 0 /\ jobs[Len(jobs)] = [covers |-> o.covers, passed |-> o.passed]
    BY <2>1, <1>2, <1>3, <1>4 DEF SerialGate
  <2>3. \A t \in Sessions : sess'[t] \in JobRequest /\ sess'[t].pc = "verdict" =>
           /\ Len(jobs) > 0
           /\ jobs[Len(jobs)] = [covers |-> sess'[t].covers, passed |-> sess'[t].passed]
    BY <2>1, <2>2, <1>5, <1>6 DEF SerialGate
  <2>4. ASSUME NEW i \in DOMAIN jobs, IsLatest(r, i) PROVE rulePass'[r] = jobs[i].passed
    <3>1. jobs \in Seq(Job) /\ DOMAIN jobs = 1..Len(jobs) /\ Len(jobs) \in Nat
      BY <1>1 DEF Requests
    <3>2. Len(jobs) \in DOMAIN jobs /\ r \in jobs[Len(jobs)].covers
      BY <3>1, <2>2, <1>9
    <3>3. i = Len(jobs)
      BY <3>1, <3>2, <2>4 DEF IsLatest
    <3>4. QED
      BY <3>3, <2>2, <1>8
  <2>5. ASSUME NEW q \in Rules \ {r}, NEW i \in DOMAIN jobs, IsLatest(q, i), rulePass'[q] # jobs[i].passed
        PROVE  \E t \in Sessions : sess'[t] \in JobRequest /\ sess'[t].pc = "verdict" /\ q \in sess'[t].todo
    <3>1. PICK t \in Sessions : sess[t] \in JobRequest /\ sess[t].pc = "verdict" /\ q \in sess[t].todo
      BY <2>1, <2>5, <1>8 DEF SerialGate
    <3>2. sess'[t] \in JobRequest /\ sess'[t].pc = "verdict" /\ q \in sess'[t].todo
      BY <3>1, <1>2, <1>5, <1>6
    <3>3. QED
      BY <3>2
  <2>6. QED
    BY <2>3, <2>4, <2>5
<1>14. Histories'
  BY <1>1, <1>3, <1>6, <1>7, <1>10, HistoriesKept DEF Shape
<1>15. QED
  BY <1>10, <1>11, <1>12, <1>13, <1>14 DEF All, Verdicts

-----------------------------------------------------------------------------
(* Steps that add rows                                                      *)

LEMMA RevisionFields ==
  ASSUME NEW x \in Revision
  PROVE  /\ x.rule \in Rules /\ x.version \in 1..MaxVersion /\ x.status \in Statuses /\ x.at \in Nat
         /\ x.at \in 1..MaxRevisions /\ x.from \in Statuses \cup {"catalog"} /\ x.gated \in BOOLEAN
  BY LifecycleAssumption DEF Revision

LEMMA RowsTyped ==
  ASSUME Requests, TypeRest
  PROVE  Rows \subseteq Revision /\ \A s \in Sessions : sess[s] \in RuleRequest => Seen(s) \subseteq Rows
  BY Kinds DEF Rows, TypeRest, Seen

\* Rows of the next instant, one per rule, keep the times apart.
LEMMA TimesAdded ==
  ASSUME Requests, TypeRest, TimesUnique, NEW New \in SUBSET Revision,
         Rows' \subseteq Rows \cup New,
         \A x \in New : x.at = clock + 1,
         \A x, y \in New : x.rule = y.rule => x = y,
         IF New = {} THEN clock' = clock ELSE clock' = clock + 1
  PROVE  TimesUnique'
<1>1. clock \in Nat /\ clock' \in Nat /\ clock <= clock' /\ \A x \in New : x.at <= clock'
  BY LifecycleAssumption DEF TypeRest
<1>2. \A x \in Rows : x.at \in Nat /\ x.at <= clock
  BY RowsTyped, RevisionFields DEF TimesUnique
<1>3. \A x \in Rows' : x.at <= clock'
  BY <1>1, <1>2
<1>4. \A x \in Rows, y \in New : x.at # y.at
  BY <1>1, <1>2
<1>5. \A x, y \in Rows' : x.rule = y.rule /\ x.at = y.at => x = y
  BY <1>4 DEF TimesUnique
<1>6. QED
  BY <1>3, <1>5 DEF TimesUnique

\* A history stays one when rows of the next instant are added that the
\* catalogue introduces or that follow the latest row.
LEMMA FollowsAdded ==
  ASSUME NEW R \in SUBSET Revision, NEW c \in Nat, NEW New \in SUBSET Revision, Follows(R),
         \A x \in R : x.at <= c,
         \A y \in New : y.at = c + 1,
         \A x \in R, y \in New :
           /\ x.rule = y.rule /\ y.from # "catalog"
           /\ \A z \in R : z.rule = x.rule => z.at <= x.at
           => y.status \in ALLOWED_TRANSITIONS[x.status]
  PROVE  Follows(R \cup New)
<1> SUFFICES ASSUME NEW x \in R \cup New, NEW y \in R \cup New,
                    x.rule = y.rule, x.at < y.at, y.from # "catalog",
                    \A z \in R \cup New : z.rule = x.rule => ~(x.at < z.at /\ z.at < y.at)
             PROVE  y.status \in ALLOWED_TRANSITIONS[x.status]
  BY DEF Follows
<1>1. \A z \in R \cup New : z.at \in Nat /\ z.at <= c + 1
  BY RevisionFields
<1>2. x \in R
  BY <1>1
<1>3. CASE y \in R
  BY <1>2, <1>3 DEF Follows
<1>4. CASE y \in New
  <2>1. \A z \in R : z.rule = x.rule => z.at <= x.at
    BY <1>1, <1>4
  <2>2. QED
    BY <1>2, <1>4, <2>1
<1>5. QED
  BY <1>3, <1>4

LEMMA SyncedRows ==
  ASSUME TypeRest, Synced = {} \/ clock < MaxRevisions
  PROVE  /\ Synced \in SUBSET Revision
         /\ \A x \in Synced : x.at = clock + 1 /\ x.from = "catalog" /\ ~x.gated
         /\ \A x, y \in Synced : x.rule = y.rule => x = y
         /\ \A r \in Rules : \E x \in revisions \cup Synced : x.rule = r
<1>1. clock \in Nat /\ (clock < MaxRevisions => clock + 1 \in 1..MaxRevisions) /\ deployed \in 1..MaxVersion
  BY LifecycleAssumption DEF TypeRest
<1>2. \A x \in Synced : \E r \in Rules :
        x = [rule |-> r, version |-> deployed, status |-> "tested", at |-> clock + 1, from |-> "catalog", gated |-> FALSE]
  BY DEF Synced
<1>3. \A x \in Synced : x \in Revision
  <2>1. ASSUME NEW x \in Synced PROVE x \in Revision
    <3>1. clock + 1 \in 1..MaxRevisions
      BY <1>1
    <3>2. PICK r \in Rules :
            x = [rule |-> r, version |-> deployed, status |-> "tested", at |-> clock + 1, from |-> "catalog", gated |-> FALSE]
      BY <1>2
    <3>3. PICK c \in 1..MaxRevisions, d \in 1..MaxVersion : c = clock + 1 /\ d = deployed
      BY <1>1, <3>1
    <3>4. "tested" \in Statuses /\ "catalog" \in Statuses \cup {"catalog"} /\ FALSE \in BOOLEAN
      BY DEF Statuses
    <3>5. QED
      BY <3>2, <3>3, <3>4 DEF Revision
  <2>2. QED
    BY <2>1
<1>4. \A x \in Synced : x.at = clock + 1 /\ x.from = "catalog" /\ ~x.gated
  BY <1>2
<1>5. ASSUME NEW x \in Synced, NEW y \in Synced, x.rule = y.rule PROVE x = y
  <2>1. PICK q \in Rules :
          x = [rule |-> q, version |-> deployed, status |-> "tested", at |-> clock + 1, from |-> "catalog", gated |-> FALSE]
    BY <1>2
  <2>2. PICK r \in Rules :
          y = [rule |-> r, version |-> deployed, status |-> "tested", at |-> clock + 1, from |-> "catalog", gated |-> FALSE]
    BY <1>2
  <2>3. q = r
    BY <2>1, <2>2, <1>5
  <2>4. QED
    BY <2>1, <2>2, <2>3
<1>6. ASSUME NEW r \in Rules PROVE \E x \in revisions \cup Synced : x.rule = r
  <2>1. CASE \A x \in revisions : ~(x.rule = r /\ x.version = deployed)
    <3> DEFINE row == [rule |-> r, version |-> deployed, status |-> "tested", at |-> clock + 1,
                       from |-> "catalog", gated |-> FALSE]
    <3>1. row \in Synced /\ row.rule = r
      BY <2>1 DEF Synced
    <3>2. QED
      BY <3>1
  <2>2. CASE \E x \in revisions : x.rule = r /\ x.version = deployed
    BY <2>2
  <2>3. QED
    BY <2>1, <2>2
<1>7. QED
  BY <1>3, <1>4, <1>5, <1>6

\* A rules endpoint is called.
LEMMA RulesCalled ==
  ASSUME All, NEW s \in Sessions, NEW r \in Rules, NEW want \in Statuses \cup {"history"}, NEW gated \in BOOLEAN,
         gated => want # "history", CallRules(s, r, want, gated)
  PROVE  All'
<1>1. /\ Requests /\ Shape /\ Promotion /\ Verdicts /\ Histories /\ TypeRest /\ OneAtATime
      /\ TimesUnique /\ SerialHistory /\ Visible
  BY DEF All, Shape, Histories
<1>2. PICK n, New : /\ New = Synced
                    /\ n = [pc |-> IF gated THEN "gate" ELSE IF want = "history" THEN "commit" ELSE "move",
                            rule |-> r, want |-> want, gated |-> gated, rows |-> New]
  OBVIOUS
<1>3. /\ sess[s] = Idle
      /\ IF New = {} THEN clock' = clock ELSE clock < MaxRevisions /\ clock' = clock + 1
      /\ sess' = [sess EXCEPT ![s] = n]
      /\ Overlap(s)
      /\ UNCHANGED <<revisions, deployed, begun, jobs, rulePass, candidate, everPassed>>
  BY <1>2 DEF CallRules, lab
<1>4. /\ New \in SUBSET Revision
      /\ \A x \in New : x.at = clock + 1 /\ x.from = "catalog" /\ ~x.gated
      /\ \A x, y \in New : x.rule = y.rule => x = y
      /\ \E x \in revisions \cup New : x.rule = r
  BY <1>1, <1>2, <1>3, SyncedRows
<1>5. /\ n \in RuleRequest /\ n.rule = r /\ n.want = want /\ n.gated = gated /\ n.rows = New
      /\ n.pc = (IF gated THEN "gate" ELSE IF want = "history" THEN "commit" ELSE "move")
  BY <1>2, <1>4 DEF RuleRequest
<1>6. /\ sess'[s] = n /\ \A t \in Sessions \ {s} : sess'[t] = sess[t]
      /\ sess' \in [Sessions -> {Idle} \cup RuleRequest \cup JobRequest]
  BY <1>1, <1>3, <1>5, SessionSet
<1>7. n \notin JobRequest /\ n # Idle /\ sess[s] \notin JobRequest /\ sess[s] \notin RuleRequest
  BY <1>3, <1>5, Kinds
<1>8. serial' => serial
  BY <1>3 DEF Overlap
<1>9. clock \in Nat /\ clock \in 0..MaxRevisions /\ MaxRevisions \in Nat
  BY <1>1, LifecycleAssumption DEF TypeRest
<1>10. Shape'
  <2>1. Requests'
    <3>1. \A t \in Sessions : sess'[t] \in RuleRequest /\ sess'[t].want = "history" => sess'[t].pc = "commit"
      BY <1>1, <1>5, <1>6 DEF Requests
    <3>2. QED
      BY <1>1, <1>3, <1>6, <3>1 DEF Requests
  <2>2. TypeRest'
    <3>1. clock' \in 0..MaxRevisions
      BY <1>3, <1>9
    <3>2. QED
      BY <1>1, <1>3, <3>1 DEF TypeRest, Overlap
  <2>3. Visible'
    <3>1. ASSUME NEW t \in Sessions, sess'[t] \in RuleRequest
          PROVE  \E x \in revisions \cup sess'[t].rows : x.rule = sess'[t].rule
      <4>1. CASE t = s
        BY <4>1, <1>4, <1>5, <1>6
      <4>2. CASE t # s
        BY <4>2, <3>1, <1>1, <1>6 DEF Visible, Seen
      <4>3. QED
        BY <4>1, <4>2
    <3>2. QED
      BY <3>1, <1>3 DEF Visible, Seen
  <2>4. OneAtATime'
    BY <1>1, <1>3, <1>6, OneBegins
  <2>5. QED
    BY <2>1, <2>2, <2>3, <2>4 DEF Shape
<1>11. Promotion'
  <2>1. n.gated => n.pc = "gate"
    BY <1>5
  <2>2. \A x \in n.rows : ~x.gated
    BY <1>4, <1>5
  <2>3. QED
    BY <1>1, <1>3, <1>6, <1>7, <2>1, <2>2, PromotionKept
<1>12. Verdicts'
  BY <1>1, <1>3, <1>6, <1>7, <1>8, VerdictsKept
<1>13. TimesUnique'
  <2>1. Rows' \subseteq Rows \cup New
    BY <1>3, <1>5, <1>6 DEF Rows
  <2>2. QED
    BY <1>1, <1>3, <1>4, <2>1, TimesAdded
<1>14. SerialHistory'
  <2> SUFFICES ASSUME serial'
               PROVE  /\ Follows(revisions)
                      /\ \A t \in Sessions : sess'[t] \in RuleRequest =>
                           /\ \A x \in revisions, y \in sess'[t].rows : x.at < y.at
                           /\ Follows(revisions \cup sess'[t].rows)
    BY <1>3, <1>10 DEF SerialHistory, Shape, OneAtATime, Seen, Follows
  <2>1. Follows(revisions)
    BY <1>1, <1>8 DEF SerialHistory
  <2>2. \A t \in Sessions : sess'[t] \in RuleRequest => t = s
    BY <1>3, <1>6, Kinds DEF Overlap
  <2>3. revisions \in SUBSET Revision /\ \A x \in revisions : x.at <= clock /\ x.at \in Nat
    <3>1. revisions \in SUBSET Revision
      BY <1>1 DEF TypeRest
    <3>2. \A x \in revisions : x.at <= clock
      BY <1>1 DEF TimesUnique, Rows
    <3>3. QED
      BY <3>1, <3>2, RevisionFields
  <2>4. Follows(revisions \cup New)
    BY <2>1, <2>3, <1>4, <1>9, FollowsAdded
  <2>5. \A x \in revisions, y \in New : x.at < y.at
    BY <2>3, <1>4, <1>9
  <2>6. QED
    BY <2>1, <2>2, <2>4, <2>5, <1>5, <1>6
<1>15. QED
  BY <1>10, <1>11, <1>12, <1>13, <1>14 DEF All, Histories

\* latest_revision finds a row, and no row of the rule that the session sees is newer.
LEMMA LatestFound ==
  ASSUME Requests, TypeRest, Visible, NEW s \in Sessions, sess[s] \in RuleRequest
  PROVE  LET current == latest_revision(s, sess[s].rule)
         IN  /\ current \in Seen(s) /\ current.rule = sess[s].rule
             /\ \A y \in Seen(s) : y.rule = sess[s].rule => y.at <= current.at
<1>1. PICK S, r : S = Seen(s) /\ r = sess[s].rule
  OBVIOUS
<1>2. S \subseteq Revision
  BY <1>1, RowsTyped
<1>3. PICK w \in S : w.rule = r
  BY <1>1 DEF Visible
<1> DEFINE T == {x.at : x \in {y \in S : y.rule = r}}
<1>4. T \in SUBSET (0..MaxRevisions) /\ T # {}
  <2>1. \A x \in S : x.at \in 0..MaxRevisions
    BY <1>2, RevisionFields, LifecycleAssumption
  <2>2. QED
    BY <2>1, <1>3
<1>5. PICK m \in T : \A k \in T : k <= m
  <2> HIDE DEF T
  <2> QED BY <1>4, LargestNumber, LifecycleAssumption
<1>6. \E x \in S : x.rule = r /\ \A y \in S : y.rule = r => y.at <= x.at
  BY <1>5
<1>7. QED
  BY <1>1, <1>6 DEF latest_revision

\* set_status adds a row that follows the latest one.
LEMMA RowAdded ==
  ASSUME All, NEW s \in Sessions, NEW o, o = sess[s], o.pc = "move",
         NEW current \in Seen(s), current.rule = o.rule,
         \A y \in Seen(s) : y.rule = o.rule => y.at <= current.at,
         o.want \in ALLOWED_TRANSITIONS[current.status], clock < MaxRevisions, clock' = clock + 1,
         NEW row \in Revision, row.rule = o.rule, row.at = clock + 1, row.status = o.want, row.gated = o.gated,
         NEW n \in RuleRequest, n.rule = o.rule, n.want = o.want, n.gated = o.gated,
         n.rows = o.rows \cup {row}, n.pc = "commit",
         sess' = [sess EXCEPT ![s] = n],
         UNCHANGED <<revisions, deployed, jobs, rulePass, candidate, everPassed, begun, serial>>
  PROVE  All'
<1>1. /\ Requests /\ Shape /\ Promotion /\ Verdicts /\ Histories /\ TypeRest /\ OneAtATime
      /\ TimesUnique /\ SerialHistory /\ Visible /\ Replayed
  BY DEF All, Shape, Histories, Promotion
<1>2. o \in RuleRequest /\ o # Idle /\ o \notin JobRequest /\ o.rows \subseteq Revision
  BY <1>1, SessionKind, Kinds
<1>3. clock \in Nat /\ clock' \in 0..MaxRevisions
  BY <1>1, LifecycleAssumption DEF TypeRest
<1>4. /\ sess'[s] = n /\ \A t \in Sessions \ {s} : sess'[t] = sess[t]
      /\ sess' \in [Sessions -> {Idle} \cup RuleRequest \cup JobRequest]
  BY <1>1, SessionSet
<1>5. n \notin JobRequest /\ n # Idle
  BY Kinds
<1>6. Shape'
  <2>1. Requests'
    <3>1. \A t \in Sessions : sess'[t] \in RuleRequest /\ sess'[t].want = "history" => sess'[t].pc = "commit"
      BY <1>1, <1>4 DEF Requests
    <3>2. QED
      BY <1>1, <1>4, <3>1 DEF Requests
  <2>2. TypeRest'
    BY <1>1, <1>3 DEF TypeRest
  <2>3. Visible'
    <3>1. ASSUME NEW t \in Sessions, sess'[t] \in RuleRequest
          PROVE  \E x \in revisions \cup sess'[t].rows : x.rule = sess'[t].rule
      <4>1. CASE t = s
        BY <4>1, <1>4
      <4>2. CASE t # s
        BY <4>2, <3>1, <1>1, <1>4 DEF Visible, Seen
      <4>3. QED
        BY <4>1, <4>2
    <3>2. QED
      BY <3>1 DEF Visible, Seen
  <2>4. OneAtATime'
    BY <1>1, <1>2, <1>4, NoneBegins
  <2>5. QED
    BY <2>1, <2>2, <2>3, <2>4 DEF Shape
<1>7. Promotion'
  <2>1. o.gated => o.rule \in everPassed
    BY <1>1, <1>2 DEF Replayed
  <2>2. \A x \in n.rows : x.gated => x.rule \in everPassed
    BY <1>1, <1>2, <2>1 DEF Replayed
  <2>3. Replayed'
    BY <1>1, <1>4, <1>5, <2>1, <2>2 DEF Replayed
  <2>4. QED
    BY <1>1, <2>3 DEF Promotion, PromotionReplayed
<1>8. Verdicts'
  BY <1>1, <1>2, <1>4, <1>5, VerdictsKept
<1>9. TimesUnique'
  <2>1. Rows' \subseteq Rows \cup {row}
    BY <1>2, <1>4 DEF Rows
  <2>2. {row} \in SUBSET Revision /\ {row} # {}
    OBVIOUS
  <2>3. QED
    BY <1>1, <2>1, <2>2, TimesAdded
<1>10. SerialHistory'
  <2> SUFFICES ASSUME serial'
               PROVE  /\ Follows(revisions)
                      /\ \A t \in Sessions : sess'[t] \in RuleRequest =>
                           /\ \A x \in revisions, y \in sess'[t].rows : x.at < y.at
                           /\ Follows(revisions \cup sess'[t].rows)
    BY <1>6 DEF SerialHistory, Shape, OneAtATime, Seen, Follows
  <2>1. /\ Follows(revisions) /\ Follows(Seen(s)) /\ \A x \in revisions, y \in o.rows : x.at < y.at
        /\ \A t \in Sessions \ {s} : sess[t] = Idle
    BY <1>1, <1>2 DEF SerialHistory
  <2>2. \A t \in Sessions : sess'[t] \in RuleRequest => t = s
    BY <2>1, <1>4, Kinds
  <2>3. Seen(s) \in SUBSET Revision /\ revisions \subseteq Seen(s) /\ Seen(s) = revisions \cup o.rows
        /\ \A x \in Seen(s) : x.at \in Nat /\ x.at <= clock
    <3>1. Seen(s) \subseteq Rows /\ Rows \subseteq Revision
      BY <1>1, <1>2, RowsTyped
    <3>2. QED
      BY <3>1, <1>1, RevisionFields DEF TimesUnique, Seen
  <2>4. ASSUME NEW x \in Seen(s), x.rule = row.rule, \A z \in Seen(s) : z.rule = x.rule => z.at <= x.at
        PROVE  row.status \in ALLOWED_TRANSITIONS[x.status]
    <3>1. x.at = current.at
      BY <2>3, <2>4
    <3>2. x = current
      BY <3>1, <2>4, <1>1, <1>2, RowsTyped DEF TimesUnique
    <3>3. QED
      BY <3>2 DEF Allowed
  <2>5. Follows(Seen(s) \cup {row})
    BY <2>1, <2>3, <2>4, <1>3, FollowsAdded
  <2>6. revisions \cup n.rows = Seen(s) \cup {row}
    BY <2>3
  <2>7. \A x \in revisions, y \in n.rows : x.at < y.at
    BY <2>1, <2>3, <1>3
  <2>8. QED
    BY <2>1, <2>2, <2>5, <2>6, <2>7, <1>4
<1>11. QED
  BY <1>6, <1>7, <1>8, <1>9, <1>10 DEF All, Histories

\* The request commits: its rows join the revisions.
LEMMA Commits ==
  ASSUME All, NEW s \in Sessions, Commit(s)
  PROVE  All'
<1>1. /\ Requests /\ Shape /\ Promotion /\ Verdicts /\ Histories /\ TypeRest /\ OneAtATime
      /\ TimesUnique /\ SerialHistory /\ Visible /\ Replayed /\ PromotionReplayed
  BY DEF All, Shape, Histories, Promotion
<1>2. PICK o : o = sess[s]
  OBVIOUS
<1>3. /\ o.pc = "commit" /\ revisions' = revisions \cup o.rows /\ sess' = [sess EXCEPT ![s] = Idle]
      /\ UNCHANGED <<deployed, jobs, rulePass, candidate, everPassed, clock, begun, serial>>
  BY <1>2 DEF Commit, lab
<1>4. o \in RuleRequest /\ o # Idle /\ o \notin JobRequest /\ o.rows \subseteq Revision
  BY <1>1, <1>2, <1>3, SessionKind, Kinds
<1>5. /\ sess'[s] = Idle /\ \A t \in Sessions \ {s} : sess'[t] = sess[t]
      /\ sess' \in [Sessions -> {Idle} \cup RuleRequest \cup JobRequest]
  BY <1>1, <1>3, SessionSet
<1>6. \A t \in Sessions : sess'[t] \in RuleRequest \/ sess'[t] \in JobRequest => sess'[t] = sess[t] /\ t # s
  BY <1>5, Kinds
<1>7. Shape'
  <2>1. Requests'
    BY <1>1, <1>3, <1>5, <1>6 DEF Requests
  <2>2. TypeRest'
    BY <1>1, <1>3, <1>4 DEF TypeRest
  <2>3. Visible'
    BY <1>1, <1>3, <1>6 DEF Visible, Seen
  <2>4. OneAtATime'
    BY <1>1, <1>3, <1>5, NoneBegins
  <2>5. QED
    BY <2>1, <2>2, <2>3, <2>4 DEF Shape
<1>8. Promotion'
  <2>1. \A x \in o.rows : x.gated => x.rule \in everPassed
    BY <1>1, <1>2, <1>4 DEF Replayed
  <2>2. PromotionReplayed'
    BY <1>1, <1>3, <2>1 DEF PromotionReplayed
  <2>3. Replayed'
    BY <1>1, <1>3, <1>6 DEF Replayed
  <2>4. QED
    BY <2>2, <2>3 DEF Promotion
<1>9. Verdicts'
  BY <1>1, <1>2, <1>3, <1>4, <1>5, <1>6, VerdictsKept
<1>10. TimesUnique'
  <2>1. Rows' \subseteq Rows
    BY <1>2, <1>3, <1>4, <1>6 DEF Rows
  <2>2. QED
    BY <1>1, <1>3, <2>1 DEF TimesUnique
<1>11. SerialHistory'
  <2> SUFFICES ASSUME serial'
               PROVE  /\ Follows(revisions')
                      /\ \A t \in Sessions : sess'[t] \notin RuleRequest
    BY <1>7 DEF SerialHistory, Shape, OneAtATime, Follows
  <2>1. \A t \in Sessions : sess'[t] = Idle
    BY <1>1, <1>2, <1>3, <1>4, <1>5 DEF OneAtATime
  <2>2. Follows(Seen(s)) /\ Seen(s) = revisions'
    BY <1>1, <1>2, <1>3, <1>4 DEF SerialHistory, Seen
  <2>3. QED
    BY <2>1, <2>2, Kinds
<1>12. QED
  BY <1>7, <1>8, <1>9, <1>10, <1>11 DEF All, Histories

-----------------------------------------------------------------------------
(* The theorems                                                             *)

LEMMA InitAll == Init => All
<1> SUFFICES ASSUME Init PROVE All
  OBVIOUS
<1>1. /\ revisions = {} /\ sess = [s \in Sessions |-> Idle] /\ deployed = 1 /\ jobs = <<>>
      /\ rulePass = [r \in Rules |-> FALSE] /\ candidate = "none" /\ clock = 0 /\ begun = 0
      /\ everPassed = {} /\ serial = TRUE
  BY DEF Init
<1>2. \A t \in Sessions : sess[t] = Idle /\ sess[t] \notin RuleRequest /\ sess[t] \notin JobRequest
  BY <1>1, Kinds
<1>3. Shape
  <2>1. Requests
    BY <1>1, <1>2 DEF Requests
  <2>2. TypeRest
    BY <1>1, LifecycleAssumption DEF TypeRest
  <2>3. QED
    BY <1>2, <2>1, <2>2 DEF Shape, Visible, OneAtATime
<1>4. Promotion
  BY <1>1, <1>2 DEF Promotion, Replayed, PromotionReplayed
<1>5. Verdicts
  BY <1>1, <1>2 DEF Verdicts, JobKept, OpenGateHasJob, SerialGate
<1>6. Histories
  <2>1. Rows = {}
    BY <1>1, <1>2 DEF Rows
  <2>2. QED
    BY <1>1, <1>2, <2>1 DEF Histories, TimesUnique, SerialHistory, Follows
<1>7. QED
  BY <1>3, <1>4, <1>5, <1>6 DEF All

LEMMA NextAll == All /\ [Next]_vars => All'
<1> SUFFICES ASSUME All, [Next]_vars PROVE All'
  OBVIOUS
<1>1. Requests /\ TypeRest /\ Visible /\ candidate \in {"none", "proposed", "replayed", "rejected"}
  BY DEF All, Shape, TypeRest
<1>2. ASSUME NEW s \in Sessions, NEW r \in Rules, RuleHistory(s, r) \/ PromoteRule(s, r)
      PROVE  All'
  BY <1>2, RulesCalled DEF RuleHistory, PromoteRule, Statuses
<1>3. ASSUME NEW s \in Sessions, NEW r \in Rules, NEW status \in Statuses, ChangeStatus(s, r, status)
      PROVE  All'
  BY <1>3, RulesCalled DEF ChangeStatus
<1>4. ASSUME NEW s \in Sessions, NEW d \in Datasets, NEW passed \in BOOLEAN,
             RunJob(s, d, passed) \/ ReplayCandidate(s, d, passed)
      PROVE  All'
  BY <1>4, JobBegins DEF RunJob, ReplayCandidate
<1>5. ASSUME NEW s \in Sessions, Rollback(s), sess[s] \in RuleRequest PROVE All'
  <2>1. sess[s] \notin JobRequest
    BY <1>5, Kinds
  <2>2. QED
    BY <1>1, <1>5, <2>1, Ends DEF Rollback, lab
<1>6. ASSUME NEW s \in Sessions, Gate(s) PROVE All'
  <2>1. sess[s] \in RuleRequest
    BY <1>1, <1>6, SessionKind DEF Gate
  <2>2. CASE rulePass[sess[s].rule]
    BY <1>6, <2>2, GateOpens DEF Gate, rule_regression_passed
  <2>3. CASE ~rulePass[sess[s].rule]
    BY <1>5, <1>6, <2>1, <2>3 DEF Gate, rule_regression_passed
  <2>4. QED
    BY <2>2, <2>3
<1>7. ASSUME NEW s \in Sessions, Move(s) PROVE All'
  <2>1. PICK current, row :
          /\ current = latest_revision(s, sess[s].rule)
          /\ row = [current EXCEPT !.status = sess[s].want, !.at = clock + 1,
                                   !.from = current.status, !.gated = sess[s].gated]
    OBVIOUS
  <2>2. sess[s] \in RuleRequest
    BY <1>1, <1>7, SessionKind DEF Move
  <2>3. CASE Allowed(current.status, sess[s].want)
    <3>1. /\ sess[s].pc = "move" /\ clock < MaxRevisions /\ clock' = clock + 1
          /\ sess' = [sess EXCEPT ![s].pc = "commit", ![s].rows = @ \cup {row}]
          /\ UNCHANGED <<revisions, deployed, jobs, rulePass, candidate, everPassed, begun, serial>>
      BY <1>7, <2>1, <2>3 DEF Move, lab
    <3>2. PICK o, n : o = sess[s] /\ n = [[o EXCEPT !.pc = "commit"] EXCEPT !.rows = @ \cup {row}]
      OBVIOUS
    <3>3. /\ current \in Seen(s) /\ current.rule = o.rule /\ current \in Revision
          /\ \A y \in Seen(s) : y.rule = o.rule => y.at <= current.at
      BY <1>1, <2>1, <2>2, <3>2, LatestFound, RowsTyped
    <3>4. o.want \in Statuses /\ o.gated \in BOOLEAN
      BY <1>1, <2>2, <3>1, <3>2, Kinds DEF Requests
    <3>5. clock + 1 \in 1..MaxRevisions
      BY <1>1, <3>1, LifecycleAssumption DEF TypeRest
    <3>6. /\ row \in Revision /\ row.rule = o.rule /\ row.at = clock + 1 /\ row.status = o.want
          /\ row.gated = o.gated
      BY <2>1, <3>2, <3>3, <3>4, <3>5 DEF Revision
    <3>7. /\ n \in RuleRequest /\ n.rule = o.rule /\ n.want = o.want /\ n.gated = o.gated
          /\ n.rows = o.rows \cup {row} /\ n.pc = "commit"
      BY <2>2, <3>2, <3>6 DEF RuleRequest
    <3>8. sess' = [sess EXCEPT ![s] = n]
      BY <1>1, <3>1, <3>2 DEF Requests
    <3>9. o.want \in ALLOWED_TRANSITIONS[current.status]
      BY <2>3, <3>2 DEF Allowed
    <3>10. /\ o = sess[s] /\ o.pc = "move" /\ clock < MaxRevisions /\ clock' = clock + 1
           /\ UNCHANGED <<revisions, deployed, jobs, rulePass, candidate, everPassed, begun, serial>>
      BY <3>1, <3>2
    <3>11. QED
      BY <3>3, <3>6, <3>7, <3>8, <3>9, <3>10, RowAdded
  <2>4. CASE ~Allowed(current.status, sess[s].want)
    BY <1>5, <1>7, <2>1, <2>2, <2>4 DEF Move
  <2>5. QED
    BY <2>3, <2>4
<1>8. ASSUME NEW s \in Sessions, Commit(s) \/ KeepJob(s) PROVE All'
  BY <1>8, Commits, JobKeeps
<1>9. ASSUME NEW s \in Sessions, Abort(s) PROVE All'
  BY <1>1, <1>5, <1>9, SessionKind DEF Abort
<1>10. ASSUME NEW s \in Sessions, NEW r \in Rules, SetRulePass(s, r) PROVE All'
  BY <1>10, VerdictGiven
<1>11. ASSUME NEW s \in Sessions, EndJob(s) PROVE All'
  <2>1. candidate' \in {"none", "proposed", "replayed", "rejected"}
    BY <1>1, <1>11 DEF EndJob
  <2>2. QED
    BY <1>11, <2>1, Ends DEF EndJob
<1>12. CASE CreateCandidate
  BY <1>12, Stutters DEF CreateCandidate
<1>13. CASE \E v \in 1..MaxVersion : Restart(v)
  BY <1>13, Restarts
<1>14. CASE UNCHANGED vars
  BY <1>1, <1>14, Stutters DEF vars, lab
<1>15. QED
  BY <1>2, <1>3, <1>4, <1>6, <1>7, <1>8, <1>9, <1>10, <1>11, <1>12, <1>13, <1>14 DEF Next, Step

\* What requests in progress know of the rules, the jobs and the revisions is
\* right in every reachable state, as far as overlapping requests let it be.
THEOREM LifecycleInvariant == Spec => []RInv
<1>1. All => RInv
  BY InvParts DEF All
<1>2. QED
  BY <1>1, InitAll, NextAll, PTL DEF Spec

\* A revision made by POST .../promote follows a passing replay of its rule
\* (promote, regression_gate, ReplayLab.run).
THEOREM PromotionsReplayed == Spec => []PromotionReplayed
<1>1. RInv => PromotionReplayed
  BY DEF RInv
<1>2. QED
  BY <1>1, LifecycleInvariant, PTL

\* While requests do not overlap, the history of a rule goes from status to
\* status along ALLOWED_TRANSITIONS (set_status, sync_catalog_revisions).
THEOREM HistoriesFollow == Spec => []HistoryFollowsTransitions
<1>1. RInv => HistoryFollowsTransitions
  <2> SUFFICES ASSUME RInv, serial, NEW x \in revisions, NEW y \in revisions, Adjacent(x, y), y.from # "catalog"
               PROVE  y.status \in ALLOWED_TRANSITIONS[x.status]
    BY DEF HistoryFollowsTransitions
  <2>1. Follows(revisions)
    BY DEF RInv, SerialHistory
  <2>2. QED
    BY <2>1 DEF Follows, Adjacent
<1>2. QED
  BY <1>1, LifecycleInvariant, PTL

\* The gate is open only with a remembered passing job and, while requests do
\* not overlap, tells what the latest job covering the rule has shown
\* (ReplayLab.run, rule_regression_passed).
THEOREM GateFollowsJobs == Spec => []GateTellsTheJobs
<1>1. ASSUME RInv PROVE GateIsLatestJob
  <2> SUFFICES ASSUME serial, \A s \in Sessions : sess[s].pc # "verdict", NEW r \in Rules,
                      \E i \in DOMAIN jobs : r \in jobs[i].covers
               PROVE  rulePass[r] = jobs[LatestCovering(r)].passed
    BY DEF GateIsLatestJob
  <2> DEFINE T == {i \in DOMAIN jobs : r \in jobs[i].covers}
  <2>1. DOMAIN jobs = 1..Len(jobs) /\ Len(jobs) \in Nat
    BY <1>1 DEF RInv, Requests
  <2>2. T \in SUBSET (0..Len(jobs)) /\ T # {}
    BY <2>1
  <2>3. PICK m \in T : \A k \in T : k <= m
    <3> HIDE DEF T
    <3> QED BY <2>1, <2>2, LargestNumber
  <2>4. IsLatest(r, LatestCovering(r)) /\ LatestCovering(r) \in DOMAIN jobs
    BY <2>3 DEF IsLatest, LatestCovering
  <2>5. QED
    BY <1>1, <2>4 DEF RInv, SerialGate
<1>2. RInv => GateTellsTheJobs
  BY <1>1 DEF RInv, GateTellsTheJobs
<1>3. QED
  BY <1>2, LifecycleInvariant, PTL

-----------------------------------------------------------------------------
(* Part 2. Indicators: the inductive invariant                               *)

Table(f) == DOMAIN f \subseteq IocKeys /\ \A k \in DOMAIN f : f[k] \in IocRow

\* Two tables say the same of an indicator.
Same(f, g, k) == (k \in DOMAIN f <=> k \in DOMAIN g) /\ (k \in DOMAIN f => f[k] = g[k])

\* No indicator ends later than the maximum from a time, or was counted more
\* often than requests have.
Bounded(f, time, count) ==
  \A k \in DOMAIN f : f[k].expires_at <= time + MaxTtl /\ f[k].sightings <= count[k]

\* The request of a session.
Shaped(t) ==
  /\ DOMAIN t = {"op", "pc", "key", "value", "ttl", "feed", "now", "read", "enriched"}
  /\ t.pc \in {"idle", "sight", "change", "flushed"}
  /\ t.op \in {"none", "upsert", "deactivate", "expire", "ingest"}
  /\ t.op = "none" <=> t.pc = "idle"
  /\ t.pc = "sight" => t.op = "ingest"
  /\ t.op \in {"upsert", "deactivate"} => t.key \in IocKeys
  /\ t.ttl \in Int /\ t.feed \subseteq {"feed"} /\ t.now \in Nat
  /\ Table(t.read)
  /\ t.enriched \subseteq IocKeys
  /\ t.op # "ingest" => t.enriched = {}

\* What a request knows of a table at a time, when some indicators are contested.
Knows(t, table, time, fought, count) ==
  /\ t.now <= time
  /\ DOMAIN t.read \subseteq DOMAIN table
  /\ Bounded(t.read, time, count)
  /\ t.op # "none" => \A k \in Touched(t) \ fought : Same(t.read, table, k)
  /\ \A k \in t.enriched :
       /\ k \in Candidates(t.value)
       /\ k \notin fought => k \in DOMAIN t.read /\ t.read[k].active

TableInv ==
  /\ now \in 0..MaxTime /\ served \in 0..MaxRequests /\ contested \subseteq IocKeys
  /\ counted \in [IocKeys -> Nat]
  /\ Table(rows) /\ Bounded(rows, now, counted)
  /\ \A k \in DOMAIN rows \ contested : rows[k].active => rows[k].expires_at > rows[k].updated_at

RequestsInv ==
  /\ DOMAIN tx = Clients
  /\ \A s \in Clients : Shaped(tx[s]) /\ Knows(tx[s], rows, now, contested, counted)

OverlapInv ==
  \A s, q \in Clients : s # q => Touched(tx[s]) \cap Touched(tx[q]) \subseteq contested

LivedInv ==
  /\ lived \in [Clients -> SUBSET IocKeys]
  /\ \A s \in Clients : tx[s].enriched \cup SightedBy(tx[s]) \subseteq lived[s]

IntelInv == TableInv /\ RequestsInv /\ OverlapInv /\ LivedInv /\ AsIfAlone

-----------------------------------------------------------------------------
(* What the operations do to a table                                        *)

\* What a request does to a row depends on that row alone.
LEMMA ChangeLocal ==
  ASSUME NEW t, NEW f, NEW g, NEW k, Same(f, g, k),
         t.op \in {"upsert", "deactivate", "expire", "ingest"}
  PROVE  Same(Change(t, f), Change(t, g), k)
PROOF
  <1>1. CASE t.op = "upsert"
    <2>1. Change(t, f) = Upserted(t, f) /\ Change(t, g) = Upserted(t, g)
      BY <1>1 DEF Change
    <2>2. DOMAIN Upserted(t, f) = {t.key} /\ DOMAIN Upserted(t, g) = {t.key}
      BY DEF Upserted
    <2>3. k = t.key => Upserted(t, f)[k] = Upserted(t, g)[k]
      BY DEF Upserted, Same
    <2>. QED BY <2>1, <2>2, <2>3 DEF Same
  <1>2. CASE t.op = "deactivate"
    <2>1. Change(t, f) = Deactivated(t, f) /\ Change(t, g) = Deactivated(t, g)
      BY <1>2 DEF Change
    <2>2. k \in DOMAIN Deactivated(t, f) <=> k \in DOMAIN Deactivated(t, g)
      BY DEF Same, Deactivated
    <2>3. k \in DOMAIN Deactivated(t, f) /\ k \in DOMAIN Deactivated(t, g) => Deactivated(t, f)[k] = Deactivated(t, g)[k]
      BY DEF Same, Deactivated
    <2>. QED BY <2>1, <2>2, <2>3 DEF Same
  <1>3. CASE t.op = "expire"
    <2>1. Change(t, f) = Expired(t, f) /\ Change(t, g) = Expired(t, g)
      BY <1>3 DEF Change
    <2>2. k \in DOMAIN Expired(t, f) <=> k \in DOMAIN Expired(t, g)
      BY DEF Same, Expired
    <2>3. k \in DOMAIN Expired(t, f) /\ k \in DOMAIN Expired(t, g) => Expired(t, f)[k] = Expired(t, g)[k]
      BY DEF Same, Expired
    <2>. QED BY <2>1, <2>2, <2>3 DEF Same
  <1>4. CASE t.op = "ingest"
    <2>1. Change(t, f) = Sighted(t, f) /\ Change(t, g) = Sighted(t, g)
      BY <1>4 DEF Change
    <2>2. k \in DOMAIN Sighted(t, f) <=> k \in DOMAIN Sighted(t, g)
      BY DEF Same, Sighted, Live
    <2>3. k \in DOMAIN Sighted(t, f) /\ k \in DOMAIN Sighted(t, g) => Sighted(t, f)[k] = Sighted(t, g)[k]
      BY DEF Same, Sighted, Live
    <2>. QED BY <2>1, <2>2, <2>3 DEF Same
  <1>. QED BY <1>1, <1>2, <1>3, <1>4

\* A request changes only indicators it may touch.
LEMMA ChangeTouched ==
  ASSUME NEW t, NEW f, NEW k \in IocKeys, k \in DOMAIN Change(t, f),
         t.op \in {"upsert", "deactivate", "expire", "ingest"}
  PROVE  k \in Touched(t)
PROOF
  <1>1. CASE t.op = "upsert"
    BY <1>1 DEF Change, Touched, Upserted
  <1>2. CASE t.op = "deactivate"
    BY <1>2 DEF Change, Touched, Deactivated
  <1>3. CASE t.op = "expire"
    BY <1>3 DEF Change, Touched
  <1>4. CASE t.op = "ingest"
    BY <1>4 DEF Change, Touched, Sighted
  <1>. QED BY <1>1, <1>2, <1>3, <1>4

\* A time to live is between one hour and the maximum.
LEMMA ClampBounds ==
  ASSUME NEW ttl \in Int
  PROVE  Clamp(ttl) \in 1..MaxTtl
PROOF
  BY IndicatorAssumption DEF Clamp

\* A renewed or new indicator lives, and no longer than the maximum.
LEMMA UpsertedRow ==
  ASSUME NEW t, Shaped(t), t.op = "upsert", NEW f, Table(f), NEW k \in DOMAIN Upserted(t, f)
  PROVE  /\ Upserted(t, f)[k] \in IocRow
         /\ Upserted(t, f)[k].expires_at <= t.now + MaxTtl
         /\ Upserted(t, f)[k].expires_at > Upserted(t, f)[k].updated_at
         /\ Upserted(t, f)[k].sightings = IF k \in DOMAIN f THEN f[k].sightings ELSE 0
PROOF
  <1>. DEFINE fresh == [active |-> TRUE, expires_at |-> 0, updated_at |-> 0, sightings |-> 0,
                        provenance |-> IF t.feed = {} THEN {"first"} ELSE {}]
              old == IF k \in DOMAIN f THEN f[k] ELSE fresh
              new == [old EXCEPT !.active = TRUE, !.expires_at = t.now + Clamp(t.ttl),
                                 !.updated_at = t.now, !.provenance = @ \cup t.feed]
  <1>1. k = t.key /\ Upserted(t, f)[k] = new
    BY DEF Upserted
  <1>2. old \in IocRow
    <2>1. fresh \in IocRow
      BY DEF IocRow
    <2>. QED BY <2>1 DEF Table
  <1>3. t.now \in Nat /\ t.feed \subseteq {"feed"} /\ Clamp(t.ttl) \in 1..MaxTtl
    BY ClampBounds DEF Shaped
  <1>4. old.sightings = IF k \in DOMAIN f THEN f[k].sightings ELSE 0
    OBVIOUS
  <1>. HIDE DEF old
  <1>5. /\ new.active = TRUE /\ new.expires_at = t.now + Clamp(t.ttl) /\ new.updated_at = t.now
        /\ new.sightings = old.sightings
    BY <1>2 DEF IocRow
  <1>6. new \in IocRow
    <2>1. t.now + Clamp(t.ttl) \in Nat
      BY <1>3, IndicatorAssumption
    <2>2. PICK e \in Nat : e = t.now + Clamp(t.ttl)
      BY <2>1
    <2>3. old.provenance \cup t.feed \in SUBSET {"first", "feed", "expired", "deactivated"}
      BY <1>2, <1>3 DEF IocRow
    <2>. QED BY <1>2, <1>3, <2>2, <2>3 DEF IocRow
  <1>. HIDE DEF new
  <1>. QED BY <1>1, <1>3, <1>4, <1>5, <1>6, IndicatorAssumption

\* A deactivated indicator keeps its end and its sightings.
LEMMA DeactivatedRow ==
  ASSUME NEW t, Shaped(t), NEW f, Table(f), NEW k \in DOMAIN Deactivated(t, f)
  PROVE  /\ k \in DOMAIN f
         /\ Deactivated(t, f)[k] \in IocRow
         /\ ~Deactivated(t, f)[k].active
         /\ Deactivated(t, f)[k].expires_at = f[k].expires_at
         /\ Deactivated(t, f)[k].sightings = f[k].sightings
PROOF
  <1>. DEFINE new == [f[k] EXCEPT !.active = FALSE, !.updated_at = t.now,
                                  !.provenance = @ \cup {"deactivated"}]
  <1>1. k \in DOMAIN f /\ Deactivated(t, f)[k] = new
    BY DEF Deactivated
  <1>2. f[k] \in IocRow /\ t.now \in Nat
    BY <1>1 DEF Table, Shaped
  <1>3. new \in IocRow /\ ~new.active /\ new.expires_at = f[k].expires_at
        /\ new.sightings = f[k].sightings
    BY <1>2 DEF IocRow
  <1>. HIDE DEF new
  <1>. QED BY <1>1, <1>3

\* So does a swept one.
LEMMA ExpiredRow ==
  ASSUME NEW t, Shaped(t), NEW f, Table(f), NEW k \in DOMAIN Expired(t, f)
  PROVE  /\ k \in DOMAIN f
         /\ Expired(t, f)[k] \in IocRow
         /\ ~Expired(t, f)[k].active
         /\ Expired(t, f)[k].expires_at = f[k].expires_at
         /\ Expired(t, f)[k].sightings = f[k].sightings
PROOF
  <1>. DEFINE new == [f[k] EXCEPT !.active = FALSE, !.updated_at = t.now,
                                  !.provenance = @ \cup {"expired"}]
  <1>1. k \in DOMAIN f /\ Expired(t, f)[k] = new
    BY DEF Expired
  <1>2. f[k] \in IocRow /\ t.now \in Nat
    BY <1>1 DEF Table, Shaped
  <1>3. new \in IocRow /\ ~new.active /\ new.expires_at = f[k].expires_at
        /\ new.sightings = f[k].sightings
    BY <1>2 DEF IocRow
  <1>. HIDE DEF new
  <1>. QED BY <1>1, <1>3

\* A sighting is counted for an indicator that has not expired.
LEMMA SightedRow ==
  ASSUME NEW t, Shaped(t), NEW f, Table(f), NEW k \in DOMAIN Sighted(t, f)
  PROVE  /\ k \in DOMAIN f
         /\ Sighted(t, f)[k] \in IocRow
         /\ Sighted(t, f)[k].expires_at = f[k].expires_at
         /\ Sighted(t, f)[k].expires_at > Sighted(t, f)[k].updated_at
         /\ Sighted(t, f)[k].sightings = f[k].sightings + 1
PROOF
  <1>. DEFINE new == [f[k] EXCEPT !.sightings = @ + 1, !.updated_at = t.now]
  <1>1. k \in DOMAIN f /\ f[k].expires_at > t.now /\ Sighted(t, f)[k] = new
    BY DEF Sighted, Live
  <1>2. f[k] \in IocRow /\ t.now \in Nat
    BY <1>1 DEF Table, Shaped
  <1>3. f[k].sightings + 1 \in Nat
    BY <1>2 DEF IocRow
  <1>4. PICK more \in Nat : more = f[k].sightings + 1
    BY <1>3
  <1>5. new \in IocRow /\ new.expires_at = f[k].expires_at /\ new.updated_at = t.now
        /\ new.sightings = more
    BY <1>2, <1>4 DEF IocRow
  <1>. HIDE DEF new
  <1>. QED BY <1>1, <1>4, <1>5

\* Whatever a request writes is a row that ends within the maximum, adds at
\* most the sighting it counts, and if active has not expired.
LEMMA ChangedRow ==
  ASSUME NEW t, Shaped(t), t.op # "none", NEW f, Table(f), NEW k \in DOMAIN Change(t, f)
  PROVE  /\ k \in IocKeys
         /\ Change(t, f)[k] \in IocRow
         /\ \/ Change(t, f)[k].expires_at <= t.now + MaxTtl
            \/ k \in DOMAIN f /\ Change(t, f)[k].expires_at = f[k].expires_at
         /\ Change(t, f)[k].active => Change(t, f)[k].expires_at > Change(t, f)[k].updated_at
         /\ k \in DOMAIN f /\ t.op # "ingest" => Change(t, f)[k].sightings = f[k].sightings
         /\ k \in DOMAIN f /\ t.op = "ingest" => Change(t, f)[k].sightings = f[k].sightings + 1
         /\ k \notin DOMAIN f => Change(t, f)[k].sightings = 0
PROOF
  <1>0. DOMAIN f \subseteq IocKeys
    BY DEF Table
  <1>1. CASE t.op = "upsert"
    <2>1. Change(t, f) = Upserted(t, f)
      BY <1>1 DEF Change
    <2>2. k = t.key /\ t.key \in IocKeys
      BY <1>1, <2>1 DEF Upserted, Shaped
    <2>. QED BY <1>1, <2>1, <2>2, UpsertedRow
  <1>2. CASE t.op = "deactivate"
    <2>1. Change(t, f) = Deactivated(t, f)
      BY <1>2 DEF Change
    <2>. QED BY <1>0, <1>2, <2>1, DeactivatedRow
  <1>3. CASE t.op = "expire"
    <2>1. Change(t, f) = Expired(t, f)
      BY <1>3 DEF Change
    <2>. QED BY <1>0, <1>3, <2>1, ExpiredRow
  <1>4. CASE t.op = "ingest"
    <2>1. Change(t, f) = Sighted(t, f)
      BY <1>4 DEF Change
    <2>. QED BY <1>0, <1>4, <2>1, SightedRow
  <1>. QED BY <1>1, <1>2, <1>3, <1>4 DEF Shaped

\* An UPDATE takes each column from the new row or leaves the stored one.
LEMMA UpdatedColumns ==
  ASSUME NEW new \in IocRow, NEW old \in IocRow, NEW stored \in IocRow
  PROVE  /\ Updated(new, old, stored) \in IocRow
         /\ Updated(new, old, stored).expires_at \in {new.expires_at, stored.expires_at}
         /\ Updated(new, old, stored).sightings =
              IF new.sightings = old.sightings THEN stored.sightings ELSE new.sightings
         /\ stored = old => Updated(new, old, stored) = new
PROOF
  <1>1. Updated(new, old, stored) \in IocRow
    BY DEF Updated, Column, IocRow
  <1>2. Updated(new, old, stored).expires_at \in {new.expires_at, stored.expires_at}
    BY DEF Updated, Column
  <1>3. Updated(new, old, stored).sightings =
              IF new.sightings = old.sightings THEN stored.sightings ELSE new.sightings
    BY DEF Updated, Column
  <1>4. ASSUME stored = old PROVE Updated(new, old, stored) = new
    <2>1. Updated(new, old, old) =
            [active |-> new.active, expires_at |-> new.expires_at, updated_at |-> new.updated_at,
             sightings |-> new.sightings, provenance |-> new.provenance]
      BY DEF Updated, Column
    <2>. QED BY <1>4, <2>1 DEF IocRow
  <1>. QED BY <1>1, <1>2, <1>3, <1>4

\* The committed row of an indicator a request has written.
LEMMA MergedRow ==
  ASSUME NEW t, Shaped(t), t.op # "none", NEW table, Table(table), NEW time \in Nat,
         NEW count \in [IocKeys -> Nat], Bounded(table, time, count),
         t.now <= time, DOMAIN t.read \subseteq DOMAIN table, Bounded(t.read, time, count),
         NEW k \in DOMAIN Merged(table, t)
  PROVE  /\ k \in IocKeys
         /\ Merged(table, t)[k] \in IocRow
         /\ Merged(table, t)[k].expires_at <= time + MaxTtl
         /\ Merged(table, t)[k].sightings <=
              count[k] + IF t.op = "ingest" /\ k \in DOMAIN Writes(t) THEN 1 ELSE 0
PROOF
  <1>. DEFINE row == Merged(table, t)[k]
  <1>0. MaxTtl \in Nat /\ t.now \in Nat /\ Table(t.read)
    BY IndicatorAssumption DEF Shaped
  <1>1. k \in DOMAIN table \/ k \in DOMAIN Writes(t)
    BY DEF Merged
  <1>2. ASSUME k \in DOMAIN table
        PROVE  /\ k \in IocKeys /\ count[k] \in Nat /\ table[k] \in IocRow
               /\ table[k].expires_at \in Nat /\ table[k].sightings \in Nat
               /\ table[k].expires_at <= time + MaxTtl /\ table[k].sightings <= count[k]
    BY <1>2 DEF Table, Bounded, IocRow
  <1>3. CASE k \notin DOMAIN Writes(t)
    <2>1. row = table[k]
      BY <1>1, <1>3 DEF Merged
    <2>. HIDE DEF row
    <2>. QED BY <1>1, <1>2, <1>3, <2>1 DEF row
  <1>4. CASE k \in DOMAIN Writes(t)
    <2>. DEFINE new == Writes(t)[k]
    <2>1. /\ k \in IocKeys /\ new \in IocRow
          /\ new.expires_at <= t.now + MaxTtl \/ (k \in DOMAIN t.read /\ new.expires_at = t.read[k].expires_at)
          /\ k \in DOMAIN t.read /\ t.op # "ingest" => new.sightings = t.read[k].sightings
          /\ k \in DOMAIN t.read /\ t.op = "ingest" => new.sightings = t.read[k].sightings + 1
          /\ k \notin DOMAIN t.read => new.sightings = 0
      BY <1>0, <1>4, ChangedRow DEF Writes
    <2>2. count[k] \in Nat /\ new.expires_at \in Nat /\ new.sightings \in Nat
      BY <2>1 DEF IocRow
    <2>3. CASE k \in DOMAIN t.read
      <3>. DEFINE old == t.read[k]
                  stored == table[k]
      <3>1. row = Updated(new, old, stored)
        BY <1>4, <2>3 DEF Merged
      <3>2. /\ old \in IocRow /\ old.expires_at \in Nat /\ old.sightings \in Nat
            /\ old.expires_at <= time + MaxTtl /\ old.sightings <= count[k]
        BY <1>0, <2>3 DEF Table, Bounded, IocRow
      <3>3. k \in DOMAIN table
        BY <2>3
      <3>4. /\ stored \in IocRow /\ stored.expires_at \in Nat /\ stored.sightings \in Nat
            /\ stored.expires_at <= time + MaxTtl /\ stored.sightings <= count[k]
        BY <1>2, <3>3
      <3>5. /\ row \in IocRow /\ row.expires_at \in {new.expires_at, stored.expires_at}
            /\ row.sightings = IF new.sightings = old.sightings THEN stored.sightings ELSE new.sightings
        BY <2>1, <3>1, <3>2, <3>4, UpdatedColumns
      <3>6. new.expires_at <= time + MaxTtl
        BY <1>0, <2>1, <2>2, <3>2
      <3>7. t.op = "ingest" => new.sightings = old.sightings + 1
        BY <2>1, <2>3
      <3>8. t.op # "ingest" => new.sightings = old.sightings
        BY <2>1, <2>3
      <3>. HIDE DEF row, new, old, stored
      <3>9. row.sightings <= count[k] + IF t.op = "ingest" /\ k \in DOMAIN Writes(t) THEN 1 ELSE 0
        BY <1>4, <2>2, <3>2, <3>4, <3>5, <3>7, <3>8
      <3>10. row.expires_at <= time + MaxTtl
        BY <3>4, <3>5, <3>6
      <3>. QED BY <2>1, <3>5, <3>9, <3>10 DEF row
    <2>4. CASE k \notin DOMAIN t.read
      <3>1. row = new
        BY <1>4, <2>4 DEF Merged
      <3>2. new.expires_at <= time + MaxTtl
        BY <1>0, <2>1, <2>2, <2>4
      <3>3. new.sightings = 0
        BY <2>1, <2>4
      <3>. HIDE DEF row, new
      <3>. QED BY <2>1, <2>2, <3>1, <3>2, <3>3 DEF row
    <2>. QED BY <2>3, <2>4
  <1>. QED BY <1>3, <1>4

\* A commit leaves alone what its request may not touch.
LEMMA MergedUntouched ==
  ASSUME NEW t, t.op \in {"upsert", "deactivate", "expire", "ingest"}, NEW table,
         NEW k \in IocKeys \ Touched(t)
  PROVE  Same(table, Merged(table, t), k) /\ Same(table, AtOnce(table, t), k)
PROOF
  <1>1. k \notin DOMAIN Writes(t) /\ k \notin DOMAIN Change(t, table)
    BY ChangeTouched DEF Writes
  <1>2. Same(table, Merged(table, t), k)
    BY <1>1 DEF Same, Merged
  <1>3. Same(table, AtOnce(table, t), k)
    BY <1>1 DEF Same, AtOnce
  <1>. QED BY <1>2, <1>3

\* A request done at once does the same to an indicator in tables that say
\* the same of it.
LEMMA AtOnceLocal ==
  ASSUME NEW t, t.op \in {"upsert", "deactivate", "expire", "ingest"}, NEW f, NEW g, NEW k,
         Same(f, g, k)
  PROVE  Same(AtOnce(f, t), AtOnce(g, t), k)
PROOF
  <1>1. Same(Change(t, f), Change(t, g), k)
    BY ChangeLocal
  <1>. QED BY <1>1 DEF Same, AtOnce

\* A commit whose request read what the table still says of an indicator does
\* to it what the request would do at once.
LEMMA MergedFresh ==
  ASSUME NEW t, Shaped(t), t.op # "none", NEW table, NEW k, Same(t.read, table, k)
  PROVE  Same(Merged(table, t), AtOnce(table, t), k)
PROOF
  <1>0. t.op \in {"upsert", "deactivate", "expire", "ingest"} /\ Table(t.read)
    BY DEF Shaped
  <1>1. Same(Writes(t), Change(t, table), k)
    BY <1>0, ChangeLocal DEF Writes
  <1>2. k \in DOMAIN Merged(table, t) <=> k \in DOMAIN AtOnce(table, t)
    BY <1>1 DEF Same, Merged, AtOnce
  <1>3. ASSUME k \in DOMAIN Merged(table, t)
        PROVE  Merged(table, t)[k] = AtOnce(table, t)[k]
    <2>1. CASE k \notin DOMAIN Writes(t)
      BY <1>1, <1>3, <2>1 DEF Same, Merged, AtOnce
    <2>2. CASE k \in DOMAIN Writes(t)
      <3>1. AtOnce(table, t)[k] = Writes(t)[k]
        BY <1>1, <2>2 DEF Same, AtOnce
      <3>2. CASE k \notin DOMAIN t.read
        BY <1>3, <2>2, <3>1, <3>2 DEF Merged
      <3>3. CASE k \in DOMAIN t.read
        <4>1. Writes(t)[k] \in IocRow /\ t.read[k] \in IocRow /\ table[k] = t.read[k]
          BY <1>0, <2>2, <3>3, ChangedRow DEF Writes, Table, Same
        <4>2. Updated(Writes(t)[k], t.read[k], table[k]) = Writes(t)[k]
          BY <4>1, UpdatedColumns
        <4>3. Merged(table, t)[k] = Updated(Writes(t)[k], t.read[k], table[k])
          BY <1>3, <2>2, <3>3 DEF Merged
        <4>. QED BY <3>1, <4>2, <4>3
      <3>. QED BY <3>2, <3>3
    <2>. QED BY <2>1, <2>2
  <1>. QED BY <1>2, <1>3 DEF Same

-----------------------------------------------------------------------------
(* What a request knows                                                     *)

\* What a request has matched so far.
Matched(t) == t.enriched \cup SightedBy(t)

\* A session without a request knows, touches and has matched nothing.
LEMMA NoRequestFacts ==
  /\ Shaped(NoRequest) /\ NoRequest.op = "none"
  /\ Touched(NoRequest) = {} /\ Matched(NoRequest) = {}
  /\ \A table, fought : \A time \in Nat : \A count : Knows(NoRequest, table, time, fought, count)
PROOF
  <1>0. /\ NoRequest.op = "none" /\ NoRequest.pc = "idle" /\ NoRequest.ttl = 0 /\ NoRequest.feed = {}
        /\ NoRequest.now = 0 /\ NoRequest.read = EmptyTable /\ NoRequest.enriched = {}
        /\ DOMAIN NoRequest = {"op", "pc", "key", "value", "ttl", "feed", "now", "read", "enriched"}
    BY DEF NoRequest
  <1>1. DOMAIN EmptyTable = {}
    BY DEF EmptyTable
  <1>2. Shaped(NoRequest)
    BY <1>0, <1>1 DEF Shaped, Table
  <1>3. Touched(NoRequest) = {}
    BY <1>0 DEF Touched
  <1>4. Matched(NoRequest) = {}
    BY <1>0 DEF Matched, SightedBy
  <1>5. ASSUME NEW table, NEW fought, NEW time \in Nat, NEW count
        PROVE  Knows(NoRequest, table, time, fought, count)
    BY <1>0, <1>1 DEF Knows, Bounded
  <1>. QED BY <1>0, <1>2, <1>3, <1>4, <1>5

\* A request touches, and matches, only indicators.
LEMMA TouchedKeys ==
  ASSUME NEW t, Shaped(t)
  PROVE  Touched(t) \subseteq IocKeys /\ Matched(t) \subseteq IocKeys
PROOF
  <1>1. Touched(t) \subseteq IocKeys
    BY DEF Touched, Shaped, Candidates
  <1>2. t.op = "ingest" => DOMAIN Writes(t) \subseteq IocKeys
    BY DEF Writes, Change, Sighted, Candidates
  <1>3. SightedBy(t) \subseteq IocKeys
    BY <1>2 DEF SightedBy
  <1>4. t.enriched \subseteq IocKeys
    BY DEF Shaped
  <1>. QED BY <1>1, <1>3, <1>4 DEF Matched

\* An idle session has matched nothing.
LEMMA IdleMatched ==
  ASSUME NEW t, Shaped(t), t.pc = "idle"
  PROVE  Matched(t) = {}
PROOF
  BY DEF Shaped, Matched, SightedBy

\* What a request knows stays true while time passes, counters grow and the
\* indicators it may touch are left alone or become contested.
LEMMA KnowsStable ==
  ASSUME NEW t, Shaped(t), NEW table, NEW time \in Nat, NEW fought, NEW count \in [IocKeys -> Nat],
         Knows(t, table, time, fought, count),
         NEW table2, NEW time2 \in Nat, NEW fought2, NEW count2 \in [IocKeys -> Nat],
         time <= time2, fought \subseteq fought2, DOMAIN table \subseteq DOMAIN table2,
         \A k \in IocKeys : count[k] <= count2[k],
         \A k \in Touched(t) \ fought2 : Same(table, table2, k)
  PROVE  Knows(t, table2, time2, fought2, count2)
PROOF
  <1>1. t.now \in Nat /\ MaxTtl \in Nat /\ Table(t.read)
    BY IndicatorAssumption DEF Shaped
  <1>2. t.now <= time2
    BY <1>1 DEF Knows
  <1>3. DOMAIN t.read \subseteq DOMAIN table2
    BY DEF Knows
  <1>4. Bounded(t.read, time2, count2)
    <2>1. SUFFICES ASSUME NEW k \in DOMAIN t.read
                   PROVE  t.read[k].expires_at <= time2 + MaxTtl /\ t.read[k].sightings <= count2[k]
      BY DEF Bounded
    <2>2. k \in IocKeys /\ t.read[k].expires_at \in Nat /\ t.read[k].sightings \in Nat
      BY <1>1 DEF Table, IocRow
    <2>3. t.read[k].expires_at <= time + MaxTtl /\ t.read[k].sightings <= count[k]
      BY DEF Knows, Bounded
    <2>4. count[k] \in Nat /\ count2[k] \in Nat /\ count[k] <= count2[k]
      BY <2>2
    <2>. QED BY <1>1, <2>2, <2>3, <2>4
  <1>5. t.op # "none" => \A k \in Touched(t) \ fought2 : Same(t.read, table2, k)
    BY DEF Knows, Same
  <1>6. \A k \in t.enriched : /\ k \in Candidates(t.value)
                              /\ k \notin fought2 => k \in DOMAIN t.read /\ t.read[k].active
    BY DEF Knows
  <1>. QED BY <1>2, <1>3, <1>4, <1>5, <1>6 DEF Knows

-----------------------------------------------------------------------------
(* Each step keeps the invariant                                            *)

\* The numbers among the state.
LEMMA IntelNumbers ==
  ASSUME TableInv
  PROVE  now \in Nat /\ MaxTtl \in Nat /\ MaxTime \in Nat /\ MaxRequests \in Nat /\ served \in Nat
PROOF
  BY IndicatorAssumption DEF TableInv

\* The invariant holds at the start.
LEMMA IntelStart ==
  IntelInit => IntelInv
PROOF
  <1>. SUFFICES ASSUME IntelInit PROVE IntelInv
    OBVIOUS
  <1>0. DOMAIN EmptyTable = {} /\ rows = EmptyTable /\ serialRows = EmptyTable
    BY DEF EmptyTable, IntelInit
  <1>1. TableInv
    BY <1>0, IndicatorAssumption DEF IntelInit, TableInv, Table, Bounded
  <1>2. \A s \in Clients : tx[s] = NoRequest
    BY DEF IntelInit
  <1>3. RequestsInv
    BY <1>2, NoRequestFacts DEF IntelInit, RequestsInv
  <1>4. OverlapInv
    BY <1>2, NoRequestFacts DEF OverlapInv
  <1>5. LivedInv
    BY <1>2, NoRequestFacts DEF IntelInit, LivedInv, Matched
  <1>6. AsIfAlone
    BY <1>0 DEF AsIfAlone
  <1>. QED BY <1>1, <1>3, <1>4, <1>5, <1>6 DEF IntelInv

\* Watch keeps track of what requests match, when a step adds only matches
\* that are alive.
LEMMA WatchKeeps ==
  ASSUME Table(rows), Table(rows'), LivedInv, Watch,
         \A q \in Clients : Shaped(tx[q]) /\ Shaped(tx'[q]),
         \A q \in Clients : Matched(tx'[q]) \subseteq Matched(tx[q]) \cup Live(rows, now)
  PROVE  LivedInv'
PROOF
  <1>1. Live(rows, now) \subseteq IocKeys /\ Live(rows', now') \subseteq IocKeys
    BY DEF Table, Live
  <1>2. lived' \in [Clients -> SUBSET IocKeys]
    BY <1>1 DEF Watch, LivedInv
  <1>3. ASSUME NEW q \in Clients PROVE Matched(tx'[q]) \subseteq lived'[q]
    <2>1. CASE tx'[q].pc = "idle"
      BY <2>1, IdleMatched
    <2>2. CASE tx'[q].pc # "idle"
      <3>1. lived'[q] = lived[q] \cup Live(rows, now) \cup Live(rows', now')
        BY <2>2 DEF Watch
      <3>2. Matched(tx[q]) \subseteq lived[q]
        BY DEF LivedInv, Matched
      <3>. QED BY <3>1, <3>2
    <2>. QED BY <2>1, <2>2
  <1>4. \A q \in Clients : Matched(tx'[q]) = (tx[q].enriched \cup SightedBy(tx[q]))'
    BY DEF Matched, SightedBy, Writes
  <1>. QED BY <1>2, <1>3, <1>4 DEF LivedInv

\* A request that begins has read the table as it is.
LEMMA BeginKeeps ==
  ASSUME IntelInv, Watch, NEW s \in Clients, NEW t, Begin(s, t),
         Shaped(t), t.op # "none", t.read = rows, t.now = now,
         t.enriched \subseteq Live(rows, now) \cap Candidates(t.value), SightedBy(t) = {}
  PROVE  IntelInv'
PROOF
  <1>. USE DEF IntelInv
  <1>0. /\ now' = now /\ rows' = rows /\ serialRows' = serialRows /\ counted' = counted
        /\ tx' = [tx EXCEPT ![s] = t] /\ DOMAIN tx = Clients
        /\ served' = served + 1 /\ served < MaxRequests
    BY DEF Begin, RequestsInv
  <1>1. /\ contested' = contested \cup (Touched(t) \cap UNION {Touched(tx[q]) : q \in Clients \ {s}})
        /\ contested \subseteq contested' /\ contested' \subseteq IocKeys
    BY TouchedKeys DEF Begin, TableInv
  <1>2. /\ DOMAIN tx' = Clients /\ tx'[s] = t
        /\ \A q \in Clients \ {s} : tx'[q] = tx[q]
    BY <1>0
  <1>3. TableInv'
    BY <1>0, <1>1, IntelNumbers DEF TableInv
  <1>4. RequestsInv'
    <2>1. Knows(t, rows, now, contested', counted)
      <3>1. t.now <= now /\ DOMAIN t.read \subseteq DOMAIN rows /\ Bounded(t.read, now, counted)
        BY IntelNumbers DEF TableInv
      <3>2. \A k : Same(t.read, rows, k)
        BY DEF Same
      <3>3. \A k \in t.enriched : k \in Candidates(t.value) /\ k \in DOMAIN t.read /\ t.read[k].active
        BY DEF Live
      <3>. QED BY <3>1, <3>2, <3>3 DEF Knows
    <2>2. ASSUME NEW q \in Clients \ {s}
          PROVE  Shaped(tx[q]) /\ Knows(tx[q], rows, now, contested', counted)
      <3>1. Shaped(tx[q]) /\ Knows(tx[q], rows, now, contested, counted) /\ counted \in [IocKeys -> Nat]
        BY DEF RequestsInv, TableInv
      <3>2. now <= now /\ \A k \in IocKeys : counted[k] <= counted[k]
        BY <3>1, IntelNumbers
      <3>3. \A k : Same(rows, rows, k)
        BY DEF Same
      <3>. QED BY <1>1, <3>1, <3>2, <3>3, KnowsStable, IntelNumbers
    <2>3. ASSUME NEW q \in Clients
          PROVE  Shaped(tx'[q]) /\ Knows(tx'[q], rows', now', contested', counted')
      BY <1>0, <1>2, <2>1, <2>2
    <2>. QED BY <1>2, <2>3 DEF RequestsInv
  <1>5. OverlapInv'
    <2>1. ASSUME NEW q \in Clients, NEW p \in Clients, p # q
          PROVE  Touched(tx'[p]) \cap Touched(tx'[q]) \subseteq contested'
      <3>1. CASE p = s
        BY <1>1, <1>2, <2>1, <3>1
      <3>2. CASE q = s
        BY <1>1, <1>2, <2>1, <3>2
      <3>3. CASE p # s /\ q # s
        BY <1>1, <1>2, <2>1, <3>3 DEF OverlapInv
      <3>. QED BY <3>1, <3>2, <3>3
    <2>. QED BY <2>1 DEF OverlapInv
  <1>6. LivedInv'
    <2>1. Matched(t) \subseteq Live(rows, now)
      BY DEF Matched
    <2>2. \A q \in Clients : Matched(tx'[q]) \subseteq Matched(tx[q]) \cup Live(rows, now)
      BY <1>2, <2>1
    <2>3. \A q \in Clients : Shaped(tx[q]) /\ Shaped(tx'[q])
      BY <1>2 DEF RequestsInv
    <2>4. Table(rows) /\ Table(rows')
      BY <1>0 DEF TableInv
    <2>. QED BY <2>2, <2>3, <2>4, WatchKeeps
  <1>7. AsIfAlone'
    BY <1>0, <1>1 DEF AsIfAlone
  <1>. QED BY <1>3, <1>4, <1>5, <1>6, <1>7

\* Requests that differ only in their stage touch, write and know the same.
LEMMA SameRequest ==
  ASSUME NEW t, NEW u, u.op = t.op, u.key = t.key, u.value = t.value, u.now = t.now, u.read = t.read,
         u.enriched = t.enriched
  PROVE  /\ Touched(u) = Touched(t)
         /\ t.op = "ingest" => DOMAIN Writes(u) = DOMAIN Writes(t)
         /\ \A table, time, fought, count :
              Knows(t, table, time, fought, count) => Knows(u, table, time, fought, count)
PROOF
  <1>1. Touched(u) = Touched(t)
    BY DEF Touched
  <1>2. t.op = "ingest" => DOMAIN Writes(u) = DOMAIN Writes(t)
    BY DEF Writes, Change, Sighted
  <1>3. ASSUME NEW table, NEW time, NEW fought, NEW count, Knows(t, table, time, fought, count)
        PROVE  Knows(u, table, time, fought, count)
    BY <1>1, <1>3 DEF Knows
  <1>. QED BY <1>1, <1>2, <1>3

\* A step that leaves the tables, the time and the other requests alone.
LEMMA OwnStepKeeps ==
  ASSUME IntelInv, Watch, NEW s \in Clients, NEW t, tx' = [tx EXCEPT ![s] = t],
         UNCHANGED <<now, rows, served, serialRows, contested, counted>>,
         Shaped(t), Knows(t, rows, now, contested, counted),
         Touched(t) \subseteq Touched(tx[s]), Matched(t) \subseteq Matched(tx[s]) \cup Live(rows, now)
  PROVE  IntelInv'
PROOF
  <1>. USE DEF IntelInv
  <1>0. /\ now' = now /\ rows' = rows /\ serialRows' = serialRows /\ counted' = counted
        /\ served' = served /\ contested' = contested
    OBVIOUS
  <1>1. /\ DOMAIN tx' = Clients /\ tx'[s] = t
        /\ \A q \in Clients \ {s} : tx'[q] = tx[q]
    BY DEF RequestsInv
  <1>2. TableInv'
    BY <1>0 DEF TableInv
  <1>3. RequestsInv'
    <2>1. ASSUME NEW q \in Clients
          PROVE  Shaped(tx'[q]) /\ Knows(tx'[q], rows', now', contested', counted')
      BY <1>0, <1>1 DEF RequestsInv
    <2>. QED BY <1>1, <2>1 DEF RequestsInv
  <1>4. OverlapInv'
    <2>1. \A q \in Clients : Touched(tx'[q]) \subseteq Touched(tx[q])
      BY <1>1
    <2>2. \A q, p \in Clients : p # q => Touched(tx'[p]) \cap Touched(tx'[q]) \subseteq contested'
      BY <1>0, <2>1 DEF OverlapInv
    <2>. QED BY <2>2 DEF OverlapInv
  <1>5. LivedInv'
    <2>1. \A q \in Clients : Matched(tx'[q]) \subseteq Matched(tx[q]) \cup Live(rows, now)
      BY <1>1
    <2>2. \A q \in Clients : Shaped(tx[q]) /\ Shaped(tx'[q])
      BY <1>1 DEF RequestsInv
    <2>3. Table(rows) /\ Table(rows')
      BY <1>0 DEF TableInv
    <2>. QED BY <2>1, <2>2, <2>3, WatchKeeps
  <1>6. AsIfAlone'
    BY <1>0 DEF AsIfAlone
  <1>. QED BY <1>2, <1>3, <1>4, <1>5, <1>6

\* record_sightings: what was read at the enrichment of an uncontested
\* indicator is still what the table says of it.
LEMMA SelectSightedKeeps ==
  ASSUME IntelInv, Watch, NEW s \in Clients, SelectSighted(s)
  PROVE  IntelInv'
PROOF
  <1>. USE DEF IntelInv
  <1>1. PICK t : t = tx[s]
    OBVIOUS
  <1>2. PICK u : u = [t EXCEPT !.pc = "change", !.now = now, !.read = rows]
    OBVIOUS
  <1>3. tx' = [tx EXCEPT ![s] = u] /\ t.pc = "sight"
        /\ UNCHANGED <<now, rows, served, serialRows, contested, counted>>
    BY <1>1, <1>2 DEF SelectSighted
  <1>4. Shaped(t) /\ Knows(t, rows, now, contested, counted) /\ t.op = "ingest"
    BY <1>1, <1>3 DEF RequestsInv, Shaped
  <1>5. /\ DOMAIN u = DOMAIN t /\ u.op = t.op /\ u.pc = "change" /\ u.key = t.key /\ u.value = t.value
        /\ u.ttl = t.ttl /\ u.feed = t.feed /\ u.now = now /\ u.read = rows /\ u.enriched = t.enriched
    BY <1>2, <1>4 DEF Shaped
  <1>6. Shaped(u)
    BY <1>4, <1>5, IntelNumbers DEF Shaped, TableInv
  <1>7. Touched(u) = Touched(t) /\ Touched(t) = Candidates(t.value)
    BY <1>4, <1>5 DEF Touched
  <1>8. Knows(u, rows, now, contested, counted)
    <2>1. u.now <= now /\ DOMAIN u.read \subseteq DOMAIN rows /\ Bounded(u.read, now, counted)
      BY <1>5, IntelNumbers DEF TableInv
    <2>2. \A k : Same(u.read, rows, k)
      BY <1>5 DEF Same
    <2>3. ASSUME NEW k \in u.enriched
          PROVE  /\ k \in Candidates(u.value)
                 /\ k \notin contested => k \in DOMAIN u.read /\ u.read[k].active
      <3>1. k \in Candidates(t.value) /\ (k \notin contested => k \in DOMAIN t.read /\ t.read[k].active)
        BY <1>4, <1>5 DEF Knows
      <3>2. k \notin contested => Same(t.read, rows, k)
        BY <1>4, <1>7, <3>1 DEF Knows
      <3>. QED BY <1>5, <3>1, <3>2 DEF Same
    <2>. QED BY <2>1, <2>2, <2>3 DEF Knows
  <1>9. Matched(u) \subseteq Matched(t) \cup Live(rows, now)
    <2>1. DOMAIN Writes(u) \subseteq Live(rows, now)
      BY <1>4, <1>5 DEF Writes, Change, Sighted
    <2>2. SightedBy(u) \subseteq Live(rows, now)
      BY <2>1 DEF SightedBy
    <2>. QED BY <1>5, <2>2 DEF Matched
  <1>. QED BY <1>1, <1>3, <1>6, <1>7, <1>8, <1>9, OwnStepKeeps

\* A flush only marks the request as waiting for its commit.
LEMMA FlushKeeps ==
  ASSUME IntelInv, Watch, NEW s \in Clients, FlushChanges(s)
  PROVE  IntelInv'
PROOF
  <1>. USE DEF IntelInv
  <1>1. PICK t : t = tx[s]
    OBVIOUS
  <1>2. PICK u : u = [t EXCEPT !.pc = "flushed"]
    OBVIOUS
  <1>3. tx' = [tx EXCEPT ![s] = u] /\ t.pc = "change"
        /\ UNCHANGED <<now, rows, served, serialRows, contested, counted>>
    BY <1>1, <1>2 DEF FlushChanges
  <1>4. Shaped(t) /\ Knows(t, rows, now, contested, counted)
    BY <1>1 DEF RequestsInv
  <1>5. /\ DOMAIN u = DOMAIN t /\ u.op = t.op /\ u.pc = "flushed" /\ u.key = t.key /\ u.value = t.value
        /\ u.ttl = t.ttl /\ u.feed = t.feed /\ u.now = t.now /\ u.read = t.read /\ u.enriched = t.enriched
    BY <1>2, <1>4 DEF Shaped
  <1>6. Shaped(u)
    BY <1>3, <1>4, <1>5 DEF Shaped
  <1>7. /\ Touched(u) = Touched(t) /\ Knows(u, rows, now, contested, counted)
        /\ t.op = "ingest" => DOMAIN Writes(u) = DOMAIN Writes(t)
    BY <1>4, <1>5, SameRequest
  <1>8. Matched(u) = Matched(t)
    BY <1>3, <1>5, <1>7 DEF Matched, SightedBy
  <1>. QED BY <1>1, <1>3, <1>6, <1>7, <1>8, OwnStepKeeps

\* A request that fails leaves the table alone.
LEMMA RollbackKeeps ==
  ASSUME IntelInv, Watch, NEW s \in Clients, RollbackChanges(s)
  PROVE  IntelInv'
PROOF
  <1>1. tx' = [tx EXCEPT ![s] = NoRequest]
        /\ UNCHANGED <<now, rows, served, serialRows, contested, counted>>
    BY DEF RollbackChanges
  <1>2. Knows(NoRequest, rows, now, contested, counted)
    BY NoRequestFacts, IntelNumbers DEF IntelInv
  <1>. QED BY <1>1, <1>2, NoRequestFacts, OwnStepKeeps

\* Time only moves the limits further.
LEMMA HourKeeps ==
  ASSUME IntelInv, Watch, HourPasses
  PROVE  IntelInv'
PROOF
  <1>. USE DEF IntelInv
  <1>0. /\ now' = now + 1 /\ now < MaxTime
        /\ rows' = rows /\ serialRows' = serialRows /\ counted' = counted
        /\ served' = served /\ contested' = contested /\ tx' = tx
    BY DEF HourPasses
  <1>1. now' \in 0..MaxTime /\ now' \in Nat /\ now <= now'
    BY <1>0, IntelNumbers
  <1>2. TableInv'
    <2>1. Bounded(rows, now', counted)
      <3>1. SUFFICES ASSUME NEW k \in DOMAIN rows
                     PROVE  rows[k].expires_at <= now' + MaxTtl /\ rows[k].sightings <= counted[k]
        BY DEF Bounded
      <3>2. rows[k].expires_at \in Nat
        BY DEF TableInv, Table, IocRow
      <3>3. rows[k].expires_at <= now + MaxTtl /\ rows[k].sightings <= counted[k]
        BY DEF TableInv, Bounded
      <3>. QED BY <1>0, <3>2, <3>3, IntelNumbers
    <2>. QED BY <1>0, <1>1, <2>1 DEF TableInv
  <1>3. RequestsInv'
    <2>1. ASSUME NEW q \in Clients
          PROVE  Shaped(tx[q]) /\ Knows(tx[q], rows, now', contested, counted)
      <3>1. Shaped(tx[q]) /\ Knows(tx[q], rows, now, contested, counted) /\ counted \in [IocKeys -> Nat]
        BY DEF RequestsInv, TableInv
      <3>2. \A k \in IocKeys : counted[k] <= counted[k]
        BY <3>1
      <3>3. \A k : Same(rows, rows, k)
        BY DEF Same
      <3>. QED BY <1>1, <3>1, <3>2, <3>3, KnowsStable, IntelNumbers
    <2>. QED BY <1>0, <2>1 DEF RequestsInv
  <1>4. OverlapInv'
    BY <1>0 DEF OverlapInv
  <1>5. LivedInv'
    BY <1>0, WatchKeeps DEF RequestsInv, TableInv
  <1>6. AsIfAlone'
    BY <1>0 DEF AsIfAlone
  <1>. QED BY <1>2, <1>3, <1>4, <1>5, <1>6

\* The request that has just read the table.
LEMMA ReadingFields ==
  ASSUME NEW op, NEW pc
  PROVE  LET r == Reading(op, pc)
         IN  /\ DOMAIN r = {"op", "pc", "key", "value", "ttl", "feed", "now", "read", "enriched"}
             /\ r.op = op /\ r.pc = pc /\ r.ttl = 0 /\ r.feed = {} /\ r.now = now /\ r.read = rows
             /\ r.enriched = {}
PROOF
  BY DEF Reading, NoRequest

\* upsert_ioc reads the table.
LEMMA LookUpKeeps ==
  ASSUME IntelInv, Watch, NEW s \in Clients, NEW type \in Types, NEW v \in Values, NEW ttl \in Ttls,
         NEW feed \in {{}, {"feed"}}, LookUp(s, type, v, ttl, feed)
  PROVE  IntelInv'
PROOF
  <1>1. PICK r : r = Reading("upsert", "change")
    OBVIOUS
  <1>2. PICK t : t = [r EXCEPT !.key = StoredKey(type, v), !.ttl = ttl, !.feed = feed]
    OBVIOUS
  <1>3. Begin(s, t)
    BY <1>1, <1>2 DEF LookUp
  <1>4. /\ DOMAIN r = {"op", "pc", "key", "value", "ttl", "feed", "now", "read", "enriched"}
        /\ r.op = "upsert" /\ r.pc = "change" /\ r.now = now /\ r.read = rows /\ r.enriched = {}
    BY <1>1, ReadingFields
  <1>5. /\ DOMAIN t = {"op", "pc", "key", "value", "ttl", "feed", "now", "read", "enriched"}
        /\ t.op = "upsert" /\ t.pc = "change" /\ t.key = StoredKey(type, v) /\ t.ttl = ttl
        /\ t.feed = feed /\ t.now = now /\ t.read = rows /\ t.enriched = {}
    BY <1>2, <1>4
  <1>6. StoredKey(type, v) \in IocKeys
    BY DEF StoredKey, IocKeys, Types, Values, Lower
  <1>7. ttl \in Int /\ feed \subseteq {"feed"} /\ now \in Nat /\ Table(rows)
    BY IndicatorAssumption, IntelNumbers DEF IntelInv, TableInv
  <1>8. Shaped(t)
    BY <1>5, <1>6, <1>7 DEF Shaped
  <1>9. SightedBy(t) = {}
    BY <1>5 DEF SightedBy
  <1>. QED BY <1>3, <1>5, <1>8, <1>9, BeginKeeps

\* deactivate_ioc reads the table.
LEMMA GetIocKeeps ==
  ASSUME IntelInv, Watch, NEW s \in Clients, NEW k \in IocKeys, GetIoc(s, k)
  PROVE  IntelInv'
PROOF
  <1>1. PICK r : r = Reading("deactivate", "change")
    OBVIOUS
  <1>2. PICK t : t = [r EXCEPT !.key = k]
    OBVIOUS
  <1>3. Begin(s, t)
    BY <1>1, <1>2 DEF GetIoc
  <1>4. /\ DOMAIN r = {"op", "pc", "key", "value", "ttl", "feed", "now", "read", "enriched"}
        /\ r.op = "deactivate" /\ r.pc = "change" /\ r.ttl = 0 /\ r.feed = {} /\ r.now = now
        /\ r.read = rows /\ r.enriched = {}
    BY <1>1, ReadingFields
  <1>5. /\ DOMAIN t = {"op", "pc", "key", "value", "ttl", "feed", "now", "read", "enriched"}
        /\ t.op = "deactivate" /\ t.pc = "change" /\ t.key = k /\ t.ttl = 0
        /\ t.feed = {} /\ t.now = now /\ t.read = rows /\ t.enriched = {}
    BY <1>2, <1>4
  <1>6. now \in Nat /\ Table(rows)
    BY IntelNumbers DEF IntelInv, TableInv
  <1>7. Shaped(t)
    BY <1>5, <1>6 DEF Shaped
  <1>8. SightedBy(t) = {}
    BY <1>5 DEF SightedBy
  <1>. QED BY <1>3, <1>5, <1>7, <1>8, BeginKeeps

\* expire_stale reads the table.
LEMMA SelectActiveKeeps ==
  ASSUME IntelInv, Watch, NEW s \in Clients, SelectActive(s)
  PROVE  IntelInv'
PROOF
  <1>1. PICK t : t = Reading("expire", "change")
    OBVIOUS
  <1>2. Begin(s, t)
    BY <1>1 DEF SelectActive
  <1>3. /\ DOMAIN t = {"op", "pc", "key", "value", "ttl", "feed", "now", "read", "enriched"}
        /\ t.op = "expire" /\ t.pc = "change" /\ t.ttl = 0
        /\ t.feed = {} /\ t.now = now /\ t.read = rows /\ t.enriched = {}
    BY <1>1, ReadingFields
  <1>4. now \in Nat /\ Table(rows)
    BY IntelNumbers DEF IntelInv, TableInv
  <1>5. Shaped(t)
    BY <1>3, <1>4 DEF Shaped
  <1>6. SightedBy(t) = {}
    BY <1>3 DEF SightedBy
  <1>. QED BY <1>2, <1>3, <1>5, <1>6, BeginKeeps

\* An event that is enriched with a set of entries, all alive and of its value.
LEMMA EnrichedKeeps ==
  ASSUME IntelInv, Watch, NEW s \in Clients, NEW v,
         NEW E \in SUBSET (Live(rows, now) \cap Candidates(v)), NEW t,
         t = [Reading("ingest", "sight") EXCEPT !.value = v, !.enriched = E], Begin(s, t)
  PROVE  IntelInv'
PROOF
  <1>1. PICK r : r = Reading("ingest", "sight")
    OBVIOUS
  <1>2. /\ DOMAIN r = {"op", "pc", "key", "value", "ttl", "feed", "now", "read", "enriched"}
        /\ r.op = "ingest" /\ r.pc = "sight" /\ r.ttl = 0 /\ r.feed = {} /\ r.now = now
        /\ r.read = rows /\ r.enriched = {}
    BY <1>1, ReadingFields
  <1>3. t = [r EXCEPT !.value = v, !.enriched = E]
    BY <1>1
  <1>4. /\ DOMAIN t = {"op", "pc", "key", "value", "ttl", "feed", "now", "read", "enriched"}
        /\ t.op = "ingest" /\ t.pc = "sight" /\ t.value = v /\ t.ttl = 0
        /\ t.feed = {} /\ t.now = now /\ t.read = rows /\ t.enriched = E
    BY <1>2, <1>3
  <1>5. now \in Nat /\ Table(rows)
    BY IntelNumbers DEF IntelInv, TableInv
  <1>6. E \subseteq IocKeys
    BY DEF Candidates
  <1>7. Shaped(t)
    BY <1>4, <1>5, <1>6 DEF Shaped
  <1>8. SightedBy(t) = {}
    BY <1>4 DEF SightedBy
  <1>. QED BY <1>4, <1>7, <1>8, BeginKeeps

\* active_intel_map has only entries that are alive.
LEMMA EnrichKeeps ==
  ASSUME IntelInv, Watch, NEW s \in Clients, NEW v \in Values, Enrich(s, v)
  PROVE  IntelInv'
PROOF
  <1>1. active_intel_map(now, rows, v) \subseteq Live(rows, now) \cap Candidates(v)
    BY DEF active_intel_map, Candidates, IntelInv, TableInv, Table, Live
  <1>2. CASE \E k \in active_intel_map(now, rows, v) :
               Begin(s, [Reading("ingest", "sight") EXCEPT !.value = v, !.enriched = {k}])
    <2>1. PICK k \in active_intel_map(now, rows, v) :
            Begin(s, [Reading("ingest", "sight") EXCEPT !.value = v, !.enriched = {k}])
      BY <1>2
    <2>. QED BY <1>1, <2>1, EnrichedKeeps
  <1>3. CASE Begin(s, [Reading("ingest", "sight") EXCEPT !.value = v])
    <2>1. PICK r : r = Reading("ingest", "sight")
      OBVIOUS
    <2>2. "enriched" \in DOMAIN r /\ "value" \in DOMAIN r /\ r.enriched = {}
      BY <2>1, ReadingFields
    <2>3. [r EXCEPT !.value = v] = [r EXCEPT !.value = v, !.enriched = {}]
      BY <2>2
    <2>. QED BY <1>3, <2>1, <2>3, EnrichedKeeps
  <1>. QED BY <1>2, <1>3 DEF Enrich

\* get_db commits: an indicator that is not contested becomes what the request
\* would have made of it at once; the other open requests may not touch it.
LEMMA CommitKeeps ==
  ASSUME IntelInv, Watch, NEW s \in Clients, CommitChanges(s)
  PROVE  IntelInv'
PROOF
  <1>. USE DEF IntelInv
  <1>1. PICK t : t = tx[s]
    OBVIOUS
  <1>2. /\ t.pc = "flushed" /\ rows' = Merged(rows, t) /\ serialRows' = AtOnce(serialRows, t)
        /\ counted' = [k \in IocKeys |-> counted[k] + IF k \in SightedBy(t) THEN 1 ELSE 0]
        /\ tx' = [tx EXCEPT ![s] = NoRequest]
        /\ now' = now /\ served' = served /\ contested' = contested
    BY <1>1 DEF CommitChanges
  <1>3. /\ Shaped(t) /\ Knows(t, rows, now, contested, counted) /\ t.op # "none"
        /\ t.op \in {"upsert", "deactivate", "expire", "ingest"}
    BY <1>1, <1>2 DEF RequestsInv, Shaped
  <1>4. /\ DOMAIN tx' = Clients /\ tx'[s] = NoRequest
        /\ \A q \in Clients \ {s} : tx'[q] = tx[q]
    BY <1>2 DEF RequestsInv
  <1>5. counted \in [IocKeys -> Nat] /\ now \in Nat /\ Table(rows) /\ Bounded(rows, now, counted)
    BY IntelNumbers DEF TableInv
  <1>6. /\ counted' \in [IocKeys -> Nat]
        /\ \A k \in IocKeys : counted[k] <= counted'[k]
    BY <1>2, <1>5
  <1>7. /\ t.now <= now /\ DOMAIN t.read \subseteq DOMAIN rows /\ Bounded(t.read, now, counted)
        /\ \A k \in Touched(t) \ contested : Same(t.read, rows, k)
    BY <1>3 DEF Knows
  <1>8. ASSUME NEW k \in DOMAIN rows'
        PROVE  /\ k \in IocKeys /\ rows'[k] \in IocRow
               /\ rows'[k].expires_at <= now + MaxTtl /\ rows'[k].sightings <= counted'[k]
    <2>1. /\ k \in IocKeys /\ rows'[k] \in IocRow /\ rows'[k].expires_at <= now + MaxTtl
          /\ rows'[k].sightings <= counted[k] + IF t.op = "ingest" /\ k \in DOMAIN Writes(t) THEN 1 ELSE 0
      BY <1>2, <1>3, <1>5, <1>7, <1>8, MergedRow
    <2>2. k \in SightedBy(t) <=> t.op = "ingest" /\ k \in DOMAIN Writes(t)
      BY <1>2 DEF SightedBy
    <2>3. counted'[k] = counted[k] + IF k \in SightedBy(t) THEN 1 ELSE 0
      BY <1>2, <2>1
    <2>. QED BY <2>1, <2>2, <2>3
  <1>9. ASSUME NEW k \in IocKeys \ contested
        PROVE  Same(rows', AtOnce(rows, t), k)
    <2>1. CASE k \in Touched(t)
      BY <1>2, <1>3, <1>7, <2>1, MergedFresh
    <2>2. CASE k \notin Touched(t)
      BY <1>2, <1>3, <2>2, MergedUntouched DEF Same
    <2>. QED BY <2>1, <2>2
  <1>10. TableInv'
    <2>1. Table(rows') /\ Bounded(rows', now, counted')
      BY <1>8 DEF Table, Bounded
    <2>2. ASSUME NEW k \in DOMAIN rows' \ contested, rows'[k].active
          PROVE  rows'[k].expires_at > rows'[k].updated_at
      <3>1. k \in IocKeys \ contested
        BY <1>8, <2>2
      <3>2. Same(rows', AtOnce(rows, t), k)
        BY <1>9, <3>1
      <3>3. k \in DOMAIN AtOnce(rows, t) /\ rows'[k] = AtOnce(rows, t)[k]
        BY <3>2 DEF Same
      <3>4. CASE k \in DOMAIN Change(t, rows)
        <4>1. rows'[k] = Change(t, rows)[k]
          BY <3>3, <3>4 DEF AtOnce
        <4>. QED BY <1>3, <1>5, <2>2, <3>4, <4>1, ChangedRow
      <3>5. CASE k \notin DOMAIN Change(t, rows)
        <4>1. k \in DOMAIN rows /\ rows'[k] = rows[k]
          BY <3>3, <3>5 DEF AtOnce
        <4>. QED BY <2>2, <3>1, <4>1 DEF TableInv
      <3>. QED BY <3>4, <3>5
    <2>3. now' \in 0..MaxTime /\ served' \in 0..MaxRequests /\ contested' \subseteq IocKeys
      BY <1>2 DEF TableInv
    <2>. QED BY <1>2, <1>6, <2>1, <2>2, <2>3 DEF TableInv
  <1>11. RequestsInv'
    <2>1. Shaped(NoRequest) /\ Knows(NoRequest, rows', now, contested, counted')
      BY <1>5, NoRequestFacts
    <2>2. ASSUME NEW q \in Clients \ {s}
          PROVE  Shaped(tx[q]) /\ Knows(tx[q], rows', now, contested, counted')
      <3>1. Shaped(tx[q]) /\ Knows(tx[q], rows, now, contested, counted)
        BY DEF RequestsInv
      <3>2. ASSUME NEW k \in Touched(tx[q]) \ contested PROVE Same(rows, rows', k)
        <4>1. k \in IocKeys \ Touched(t)
          BY <1>1, <3>1, <3>2, TouchedKeys DEF OverlapInv
        <4>. QED BY <1>2, <1>3, <4>1, MergedUntouched
      <3>3. DOMAIN rows \subseteq DOMAIN rows'
        BY <1>2 DEF Merged
      <3>4. now <= now
        BY <1>5
      <3>. QED BY <1>5, <1>6, <3>1, <3>2, <3>3, <3>4, KnowsStable
    <2>3. ASSUME NEW q \in Clients
          PROVE  Shaped(tx'[q]) /\ Knows(tx'[q], rows', now', contested', counted')
      BY <1>2, <1>4, <2>1, <2>2
    <2>. QED BY <1>4, <2>3 DEF RequestsInv
  <1>12. OverlapInv'
    <2>1. \A q \in Clients : Touched(tx'[q]) \subseteq Touched(tx[q])
      BY <1>4, NoRequestFacts
    <2>2. \A q, p \in Clients : p # q => Touched(tx'[p]) \cap Touched(tx'[q]) \subseteq contested'
      BY <1>2, <2>1 DEF OverlapInv
    <2>. QED BY <2>2 DEF OverlapInv
  <1>13. LivedInv'
    <2>1. \A q \in Clients : Matched(tx'[q]) \subseteq Matched(tx[q]) \cup Live(rows, now)
      BY <1>4, NoRequestFacts
    <2>2. \A q \in Clients : Shaped(tx[q]) /\ Shaped(tx'[q])
      BY <1>4, NoRequestFacts DEF RequestsInv
    <2>3. Table(rows')
      BY <1>8 DEF Table
    <2>. QED BY <1>5, <2>1, <2>2, <2>3, WatchKeeps
  <1>14. AsIfAlone'
    <2>1. ASSUME NEW k \in IocKeys \ contested
          PROVE  Same(rows', serialRows', k)
      <3>1. Same(rows, serialRows, k)
        BY DEF AsIfAlone, Same
      <3>2. Same(AtOnce(rows, t), serialRows', k)
        BY <1>2, <1>3, <3>1, AtOnceLocal
      <3>. QED BY <1>9, <3>2 DEF Same
    <2>. QED BY <1>2, <2>1 DEF AsIfAlone, Same
  <1>. QED BY <1>10, <1>11, <1>12, <1>13, <1>14

\* Every step of a request, and time, keep the invariant.
LEMMA IntelStepKeeps ==
  ASSUME IntelInv, [IntelNext]_intelVars
  PROVE  IntelInv'
PROOF
  <1>1. CASE UNCHANGED intelVars
    <2>1. /\ now' = now /\ rows' = rows /\ tx' = tx /\ served' = served /\ serialRows' = serialRows
          /\ contested' = contested /\ counted' = counted /\ lived' = lived
      BY <1>1 DEF intelVars
    <2>2. TableInv' /\ RequestsInv'
      BY <2>1 DEF IntelInv, TableInv, RequestsInv
    <2>3. OverlapInv' /\ AsIfAlone'
      BY <2>1 DEF IntelInv, OverlapInv, AsIfAlone
    <2>4. LivedInv'
      BY <2>1 DEF IntelInv, LivedInv, SightedBy, Writes
    <2>. QED BY <2>2, <2>3, <2>4 DEF IntelInv
  <1>2. CASE HourPasses /\ Watch
    BY <1>2, HourKeeps
  <1>3. ASSUME NEW s \in Clients, ClientStep(s), Watch PROVE IntelInv'
    <2>1. CASE \E type \in Types, v \in Values, ttl \in Ttls, feed \in {{}, {"feed"}} :
                 LookUp(s, type, v, ttl, feed)
      BY <1>3, <2>1, LookUpKeeps
    <2>2. CASE \E k \in IocKeys : GetIoc(s, k)
      BY <1>3, <2>2, GetIocKeeps
    <2>3. CASE SelectActive(s)
      BY <1>3, <2>3, SelectActiveKeeps
    <2>4. CASE \E v \in Values : Enrich(s, v)
      BY <1>3, <2>4, EnrichKeeps
    <2>5. CASE SelectSighted(s)
      BY <1>3, <2>5, SelectSightedKeeps
    <2>6. CASE FlushChanges(s)
      BY <1>3, <2>6, FlushKeeps
    <2>7. CASE CommitChanges(s)
      BY <1>3, <2>7, CommitKeeps
    <2>8. CASE RollbackChanges(s)
      BY <1>3, <2>8, RollbackKeeps
    <2>. QED BY <1>3, <2>1, <2>2, <2>3, <2>4, <2>5, <2>6, <2>7, <2>8 DEF ClientStep
  <1>. QED BY <1>1, <1>2, <1>3 DEF IntelNext

\* Requests on indicators know, of every indicator that is not contested, what
\* the table says; the tables stay typed and bounded (services/intel.py in the
\* sessions of get_db).
THEOREM IntelInvariant == IntelSpec => []IntelInv
PROOF
  <1>1. IntelInv /\ [IntelNext]_intelVars => IntelInv'
    BY IntelStepKeeps
  <1>. QED BY <1>1, IntelStart, PTL DEF IntelSpec

\* An event is enriched with, and counted for, only indicators that were alive
\* at some moment of its request, for any number of sessions and any times to
\* live (active_intel_map, record_sightings, "expired IOC handling works").
THEOREM MatchesWereAlive == IntelSpec => []MatchedWereAlive
PROOF
  <1>1. IntelInv => MatchedWereAlive
    BY DEF IntelInv, LivedInv, MatchedWereAlive
  <1>. QED BY <1>1, IntelInvariant, PTL

\* What requests make of an indicator that no two of them contend for is what
\* they would have made of it one after the other, in the order of their
\* commits (upsert_ioc, expire_stale, deactivate_ioc, record_sightings, get_db).
THEOREM RequestsAsIfAlone == IntelSpec => []AsIfAlone
PROOF
  <1>1. IntelInv => AsIfAlone
    BY DEF IntelInv
  <1>. QED BY <1>1, IntelInvariant, PTL

\* Types, the limits of lives and sightings, and that what enriches an event is
\* counted as sighted unless it expired or was contested in between
\* (upsert_ioc's clamp, record_sightings).
THEOREM SightingsAreSound == IntelSpec => []SightingsSound
PROOF
  <1>1. ASSUME IntelInv PROVE SightingsSound
    <2>. USE <1>1 DEF IntelInv
    <2>1. IntelTypeOK
      <3>1. \A s \in Clients : /\ tx[s].pc \in {"idle", "sight", "change", "flushed"}
                               /\ tx[s].enriched \cup SightedBy(tx[s]) \subseteq IocKeys
        BY TouchedKeys DEF RequestsInv, Shaped, Matched
      <3>2. now \in 0..MaxTime /\ served \in 0..MaxRequests /\ contested \subseteq IocKeys
        BY DEF TableInv
      <3>3. DOMAIN rows \subseteq IocKeys /\ \A k \in DOMAIN rows : rows[k] \in IocRow
        BY DEF TableInv, Table
      <3>4. lived \in [Clients -> SUBSET IocKeys]
        BY DEF LivedInv
      <3>. QED BY <3>1, <3>2, <3>3, <3>4 DEF IntelTypeOK
    <2>2. LifeBounded
      BY DEF LifeBounded, TableInv, Bounded
    <2>3. SightingsNeverExceed
      BY DEF SightingsNeverExceed, TableInv, Bounded
    <2>4. EnrichedIsSighted
      <3>1. SUFFICES ASSUME NEW s \in Clients, tx[s].op = "ingest", tx[s].pc \in {"change", "flushed"},
                            NEW k \in tx[s].enriched \ contested, tx[s].read[k].expires_at > tx[s].now
                     PROVE  k \in SightedBy(tx[s])
        BY DEF EnrichedIsSighted
      <3>2. /\ k \in Candidates(tx[s].value) /\ k \in DOMAIN tx[s].read /\ tx[s].read[k].active
        BY <3>1 DEF RequestsInv, Knows
      <3>3. DOMAIN Writes(tx[s]) = Candidates(tx[s].value) \cap Live(tx[s].read, tx[s].now)
        BY <3>1 DEF Writes, Change, Sighted
      <3>. QED BY <3>1, <3>2, <3>3 DEF SightedBy, Live
    <2>. QED BY <2>1, <2>2, <2>3, <2>4 DEF SightingsSound
  <1>. QED BY <1>1, IntelInvariant, PTL
=============================================================================
