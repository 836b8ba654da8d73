--------------------------- MODULE RuleLifecycle ---------------------------
(***************************************************************************)
(* The life of detection rules: revisions in the database                  *)
(* (services/api/app/services/rules.py behind api/detections.py), the      *)
(* replay lab whose verdict gates promotion (packages/replay-engine,       *)
(* api/replay.py) and improvement candidates (packages/self-improvement,   *)
(* api/improve.py).                                                        *)
(*                                                                         *)
(* Revisions are rows; a handler reads and adds them in one transaction    *)
(* and sees what is committed and its own.  The lab and the candidates     *)
(* live in the process: they are shared by all requests, nothing locks     *)
(* them, and a restart forgets them.  A restart may also bring another     *)
(* version of the rules.                                                   *)
(***************************************************************************)
EXTENDS Naturals, Sequences, FiniteSets

CONSTANTS
  Sessions,      \* request threads
  Rules,         \* rule ids of the catalogue
  Datasets,      \* the sets of rules that a replay dataset asserts on
  MaxVersion,    \* bound: versions of the rules that are ever deployed
  MaxRevisions,  \* bound: revisions made by requests
  MaxJobs        \* bound: replay jobs begun

ASSUME LifecycleAssumption ==
  /\ Datasets \subseteq SUBSET Rules
  /\ MaxVersion \in Nat \ {0}
  /\ MaxRevisions \in Nat
  /\ MaxJobs \in Nat

VARIABLES
  revisions,     \* the committed rule_revisions rows
  sess,          \* [Sessions -> the request being served]
  deployed,      \* version of the rules in the running process
  jobs,          \* ReplayLab.jobs, oldest first
  rulePass,      \* ReplayLab._rule_pass
  candidate,     \* status of the improvement candidate, or "none"
  clock,         \* number of revisions made: created_at of the next one
  begun,         \* replay jobs begun
  everPassed,    \* rules a passing job has covered, in any process (history)
  serial         \* no two requests have overlapped so far (history)

lab == <<jobs, rulePass, candidate, everPassed>>
vars == <<revisions, sess, deployed, lab, clock, begun, serial>>

Statuses == {"draft", "tested", "promoted", "disabled"}

ALLOWED_TRANSITIONS ==
  [draft |-> {"tested", "disabled"}, tested |-> {"promoted", "disabled", "draft"},
   promoted |-> {"disabled", "tested"}, disabled |-> {"draft", "tested"}]

Idle == [pc |-> "idle"]

Init ==
  /\ revisions = {}
  /\ sess = [s \in Sessions |-> Idle]
  /\ deployed = 1
  /\ jobs = <<>>
  /\ rulePass = [r \in Rules |-> FALSE]
  /\ candidate = "none"
  /\ clock = 0
  /\ begun = 0
  /\ everPassed = {}
  /\ serial = TRUE

\* A request of session s begins.
Overlap(s) == serial' = (serial /\ \A r \in Sessions \ {s} : sess[r] = Idle)

-----------------------------------------------------------------------------
(* Revisions                                                                *)
Seen(s) == revisions \cup sess[s].rows

\* Mutant: the rows are in ascending order of created_at.
latest_revision_Ascending(s, r) ==
  CHOOSE x \in Seen(s) : x.rule = r /\ \A y \in Seen(s) : y.rule = r => x.at <= y.at

\* latest_revision: the newest row of the rule by created_at.
latest_revision(s, r) ==
  CHOOSE x \in Seen(s) : x.rule = r /\ \A y \in Seen(s) : y.rule = r => y.at <= x.at

(***************************************************************************)
(* sync_catalog_revisions: a row with status "tested" for every rule whose *)
(* deployed version has none.  The rules of one sync are told apart by     *)
(* their ids; they share the time of the sync.                             *)
(***************************************************************************)
Synced ==
  {[rule |-> r, version |-> deployed, status |-> "tested", at |-> clock + 1, from |-> "catalog", gated |-> FALSE] :
     r \in {q \in Rules : \A x \in revisions : ~(x.rule = q /\ x.version = deployed)}}

\* A rules endpoint is called: it synchronizes first.
\* want is "history" for GET .../history and the new status otherwise.
CallRules(s, r, want, gated) ==
  /\ sess[s] = Idle
  /\ IF Synced = {}
     THEN UNCHANGED clock
     ELSE clock < MaxRevisions /\ clock' = clock + 1
  /\ sess' = [sess EXCEPT ![s] =
       [pc |-> IF gated THEN "gate" ELSE IF want = "history" THEN "commit" ELSE "move",
        rule |-> r, want |-> want, gated |-> gated, rows |-> Synced]]
  /\ Overlap(s)
  /\ UNCHANGED <<revisions, deployed, lab, begun>>

\* GET /detections/rules/{rule_id}/history
RuleHistory(s, r) == CallRules(s, r, "history", FALSE)
\* POST /detections/rules/{rule_id}/status
ChangeStatus(s, r, status) == CallRules(s, r, status, FALSE)
\* POST /detections/rules/{rule_id}/promote
PromoteRule(s, r) == CallRules(s, r, "promoted", TRUE)

\* get_db on an exception, or a crash of the request: nothing is kept.
Rollback(s) ==
  /\ sess' = [sess EXCEPT ![s] = Idle]
  /\ UNCHANGED <<revisions, deployed, lab, clock, begun, serial>>

Abort(s) == sess[s].pc \in {"gate", "move", "commit"} /\ Rollback(s)

\* Mutant: a rule no job has covered is taken to pass.
rule_regression_passed_Default(r) ==
  rulePass[r] \/ \A i \in DOMAIN jobs : r \notin jobs[i].covers

rule_regression_passed(r) == rulePass[r]

\* promote: the regression gate.
Gate(s) ==
  /\ sess[s].pc = "gate"
  /\ IF rule_regression_passed(sess[s].rule)
     THEN /\ sess' = [sess EXCEPT ![s].pc = "move"]
          /\ UNCHANGED <<revisions, deployed, lab, clock, begun, serial>>
     ELSE Rollback(s)

Allowed(from, to) == to \in ALLOWED_TRANSITIONS[from]

\* set_status: the latest revision is read, checked and followed by a new row.
Move(s) ==
  LET current == latest_revision(s, sess[s].rule)
      row == [current EXCEPT !.status = sess[s].want, !.at = clock + 1,
                             !.from = current.status, !.gated = sess[s].gated]
  IN  /\ sess[s].pc = "move"
      /\ IF Allowed(current.status, sess[s].want)
         THEN /\ clock < MaxRevisions
              /\ clock' = clock + 1
              /\ sess' = [sess EXCEPT ![s].pc = "commit", ![s].rows = @ \cup {row}]
              /\ UNCHANGED <<revisions, deployed, lab, begun, serial>>
         ELSE Rollback(s)

Commit(s) ==
  /\ sess[s].pc = "commit"
  /\ revisions' = revisions \cup sess[s].rows
  /\ sess' = [sess EXCEPT ![s] = Idle]
  /\ UNCHANGED <<deployed, lab, clock, begun, serial>>

-----------------------------------------------------------------------------
(* The replay lab and the improvement candidate                             *)

\* ReplayLab.run: the scenarios run with the rules as they are.
RunScenarios(s, covers, passed, forCandidate) ==
  /\ sess[s] = Idle
  /\ begun < MaxJobs
  /\ begun' = begun + 1
  /\ sess' = [sess EXCEPT ![s] =
       [pc |-> "job", covers |-> covers, passed |-> passed, todo |-> covers, forCandidate |-> forCandidate]]
  /\ Overlap(s)
  /\ UNCHANGED <<revisions, deployed, lab, clock>>

\* POST /replay/jobs, and POST /improve/candidates/{id}/replay.
RunJob(s, covers, passed) == RunScenarios(s, covers, passed, FALSE)
ReplayCandidate(s, covers, passed) == candidate # "none" /\ RunScenarios(s, covers, passed, TRUE)

\* The job is kept.
KeepJob(s) ==
  /\ sess[s].pc = "job"
  /\ jobs' = Append(jobs, [covers |-> sess[s].covers, passed |-> sess[s].passed])
  /\ everPassed' = IF sess[s].passed THEN everPassed \cup sess[s].covers ELSE everPassed
  /\ sess' = [sess EXCEPT ![s].pc = "verdict"]
  /\ UNCHANGED <<revisions, deployed, rulePass, candidate, clock, begun, serial>>

\* Mutant: a verdict of failure does not replace an earlier pass.
Verdict_PassSticks(r, passed) == [rulePass EXCEPT ![r] = @ \/ passed]

\* The job's verdict on a rule it covers.
Verdict(r, passed) == [rulePass EXCEPT ![r] = passed]

SetRulePass(s, r) ==
  /\ sess[s].pc = "verdict"
  /\ r \in sess[s].todo
  /\ rulePass' = Verdict(r, sess[s].passed)
  /\ sess' = [sess EXCEPT ![s].todo = @ \ {r}]
  /\ UNCHANGED <<revisions, deployed, jobs, candidate, everPassed, clock, begun, serial>>

\* The handler ends; a candidate's replay decides its status.
EndJob(s) ==
  /\ sess[s].pc = "verdict"
  /\ sess[s].todo = {}
  /\ candidate' = IF sess[s].forCandidate
                  THEN IF sess[s].passed THEN "replayed" ELSE "rejected"
                  ELSE candidate
  /\ sess' = [sess EXCEPT ![s] = Idle]
  /\ UNCHANGED <<revisions, deployed, jobs, rulePass, everPassed, clock, begun, serial>>

\* POST /improve/candidates
CreateCandidate ==
  /\ candidate = "none"
  /\ candidate' = "proposed"
  /\ UNCHANGED <<revisions, sess, deployed, jobs, rulePass, everPassed, clock, begun, serial>>

\* The process restarts, possibly with another version of the rules.
Restart(v) ==
  /\ deployed' = v
  /\ sess' = [s \in Sessions |-> Idle]
  /\ jobs' = <<>>
  /\ rulePass' = [r \in Rules |-> FALSE]
  /\ candidate' = "none"
  /\ UNCHANGED <<revisions, clock, begun, everPassed, serial>>

Step(s) ==
  \/ Gate(s) \/ Move(s) \/ Commit(s) \/ Abort(s)
  \/ KeepJob(s) \/ EndJob(s)
  \/ \E r \in Rules : SetRulePass(s, r)

Next ==
  \/ \E s \in Sessions :
       \/ \E r \in Rules : RuleHistory(s, r) \/ PromoteRule(s, r)
       \/ \E r \in Rules, status \in Statuses : ChangeStatus(s, r, status)
       \/ \E d \in Datasets, passed \in BOOLEAN : RunJob(s, d, passed) \/ ReplayCandidate(s, d, passed)
       \/ Step(s)
  \/ CreateCandidate
  \/ \E v \in 1..MaxVersion : Restart(v)

Spec == Init /\ [][Next]_vars
-----------------------------------------------------------------------------
Revision ==
  [rule : Rules, version : 1..MaxVersion, status : Statuses, at : 1..MaxRevisions,
   from : Statuses \cup {"catalog"}, gated : BOOLEAN]

(* Types: rows keep to the columns of rule_revisions, a rules request has   *)
(* synchronized a revision of its rule before it looks for the latest one.  *)
TypeOK ==
  /\ revisions \subseteq Revision
  /\ \A s \in Sessions :
       /\ sess[s].pc \in {"idle", "gate", "move", "commit", "job", "verdict"}
       /\ sess[s].pc \in {"gate", "move", "commit"} =>
            sess[s].rows \subseteq Revision /\ \E x \in Seen(s) : x.rule = sess[s].rule
       /\ sess[s].pc = "verdict" => sess[s].todo \subseteq sess[s].covers
  /\ deployed \in 1..MaxVersion
  /\ rulePass \in [Rules -> BOOLEAN]
  /\ candidate \in {"none", "proposed", "replayed", "rejected"}
  /\ clock \in 0..MaxRevisions
  /\ begun \in 0..MaxJobs
  /\ serial \in BOOLEAN

(* A revision that POST .../promote made follows a passing replay of the    *)
(* rule, whatever ran at the same time and however often the process was    *)
(* restarted in between (promote, regression_gate).                         *)
PromotionReplayed == \A x \in revisions : x.gated => x.rule \in everPassed

(* The gate is open only while the process remembers a passing job that     *)
(* covers the rule (ReplayLab.run, ReplayLab.clear).                        *)
OpenGateHasJob ==
  \A r \in Rules : rulePass[r] => \E i \in DOMAIN jobs : r \in jobs[i].covers /\ jobs[i].passed

\* The revisions of a rule that come directly one after the other.
Adjacent(x, y) ==
  /\ x.rule = y.rule /\ x.at < y.at
  /\ \A z \in revisions : z.rule = x.rule => ~(x.at < z.at /\ z.at < y.at)

(* While requests do not overlap, the history of a rule as list_history     *)
(* shows it goes from status to status along ALLOWED_TRANSITIONS, except    *)
(* where the catalogue introduces a new version.                            *)
HistoryFollowsTransitions ==
  serial => \A x, y \in revisions : Adjacent(x, y) /\ y.from # "catalog" => y.status \in ALLOWED_TRANSITIONS[x.status]

LatestCovering(r) ==
  CHOOSE i \in DOMAIN jobs : r \in jobs[i].covers /\ \A j \in DOMAIN jobs : r \in jobs[j].covers => j <= i

(* "A rule may promote only when the latest job covering it passed."        *)
(* (blueteam_replay/__init__.py:160): while requests do not overlap, the    *)
(* gate is what the latest finished job that covers the rule says.          *)
GateIsLatestJob ==
  serial /\ (\A s \in Sessions : sess[s].pc # "verdict") =>
    \A r \in Rules : (\E i \in DOMAIN jobs : r \in jobs[i].covers)
                        => rulePass[r] = jobs[LatestCovering(r)].passed

(* The gate tells what the jobs have shown, across restarts: open only with *)
(* a remembered passing job and, while requests do not overlap, exactly     *)
(* when the latest one passed (ReplayLab.run, rule_regression_passed).      *)
GateTellsTheJobs == TypeOK /\ OpenGateHasJob /\ GateIsLatestJob
=============================================================================
