--------------------------- MODULE PlaybookEngine ---------------------------
(***************************************************************************)
(* The playbook engine (packages/playbook-sdk: engine.py, policy.py) behind*)
(* the /playbooks endpoints (services/api/app/api/playbooks.py).           *)
(*                                                                         *)
(* One engine object is shared by all request threads and has no lock.  A  *)
(* run walks the step graph in passes, asks the policy about every step,   *)
(* calls the executor with bounded retries, and is stored under its        *)
(* idempotency key only when it ends.  Approving a stored run starts a new *)
(* run with a derived key.  The executor is a parameter of the engine:     *)
(* each call returns, raises, or raises an exception without a message,    *)
(* which the engine does not tell from a return.                           *)
(***************************************************************************)
EXTENDS Naturals, Sequences, FiniteSets, SequencesExt

CONSTANTS
  Threads,      \* request threads
  Playbooks,    \* playbook ids
  StepsOf,      \* [Playbooks -> sequence of step ids]
  StepDef,      \* [step id -> [tier, listed, depends_on, retries]]
  Keys,         \* idempotency keys given by callers
  ApproveIds,   \* sets of step ids a caller may name in an approval
  MaxRuns       \* bound: runs started in a behaviour

Steps == DOMAIN StepDef

\* run() keeps the steps of a playbook in a dict, so their ids are distinct;
\* the entry for an unresolved graph, which the code tells from a step by its
\* action type, has a name of its own.
ASSUME PlaybookAssumption ==
  /\ MaxRuns \in Nat
  /\ Playbooks \subseteq DOMAIN StepsOf
  /\ \A p \in Playbooks : StepsOf[p] \in Seq(Steps) /\ IsInjective(StepsOf[p])
  /\ \A s \in Steps : /\ StepDef[s].tier \in 0..2
                      /\ StepDef[s].listed \in 0..2
                      /\ StepDef[s].depends_on \subseteq Steps
                      /\ StepDef[s].retries \in Nat
  /\ "dag" \notin Steps

VARIABLES
  runs,         \* PlaybookEngine._runs: stored runs by id
  index,        \* PlaybookEngine._by_idempotency: key -> run id
  active,       \* [Threads -> the run the thread is building, or NoRun]
  started,      \* number of run ids handed out
  calls,        \* [<<run id, step>> -> number of executor calls] (history)
  cleared       \* ids of runs whose key an approval gave up (history)

history == <<calls, cleared>>
vars == <<runs, index, active, started, history>>

NoRun == [id |-> 0]

Put(f, x, v) == [y \in DOMAIN f \cup {x} |-> IF y = x THEN v ELSE f[y]]
Without(f, x) == [y \in DOMAIN f \ {x} |-> f[y]]

-----------------------------------------------------------------------------
\* Mutant: tier-1 actions run without approval.
evaluate_action_T1Open(s) ==
  IF StepDef[s].listed = 2 \/ StepDef[s].tier = 2 THEN "REQUIRE_APPROVAL" ELSE "ALLOW"

\* policy.py: listed is 2 or 1 for an action type in TIER2_ACTIONS or
\* TIER1_ACTIONS, 0 for the others.
evaluate_action(s) ==
  CASE StepDef[s].listed = 2 \/ StepDef[s].tier = 2 -> "REQUIRE_APPROVAL"
    [] StepDef[s].listed = 1 \/ StepDef[s].tier = 1 -> "REQUIRE_APPROVAL"
    [] OTHER -> "ALLOW"

\* The run object as run() creates it, and its local variables.  ancestor (the
\* run it resumes) and rivals (the runs in progress at its start) are history.
NewRun(id, p, dry, key, approved, ancestor) ==
  [id |-> id, rivals |-> {active[t].id : t \in Threads}, playbook |-> p, status |-> "running", dry_run |-> dry,
   key |-> key, approved |-> approved, ancestor |-> ancestor,
   results |-> <<>>, approval_required |-> {},
   completed |-> {}, pending |-> StepsOf[p], scan |-> StepsOf[p],
   progress |-> FALSE, attempts |-> 0]

Init ==
  /\ runs = <<>>
  /\ index = <<>>
  /\ active = [t \in Threads |-> NoRun]
  /\ started = 0
  /\ calls = <<>>
  /\ cleared = {}

\* run(): an indexed key returns the stored run, else a new run begins.
run(t, p, dry, key, approved, ancestor, idx) ==
  /\ active[t] = NoRun
  /\ index' = idx
  /\ IF key \in DOMAIN idx
     THEN UNCHANGED <<active, started>>
     ELSE /\ started < MaxRuns
          /\ started' = started + 1
          /\ active' = [active EXCEPT ![t] = NewRun(started + 1, p, dry, key, approved, ancestor)]
  /\ UNCHANGED <<runs, calls>>

\* POST /playbooks/run.  Without a key from the caller the playbook is the key.
RunPlaybook(t, p, dry, k) ==
  /\ run(t, p, dry, <<k>>, {}, 0, index)
  /\ UNCHANGED cleared

\* POST /playbooks/runs/{run_id}/approve: the prior run gives up its key; the
\* steps named (by default those awaiting) and all the awaiting ones are approved.
ApproveRun(t, id, ids) ==
  LET prior == runs[id]
      step_ids == IF ids = {} THEN prior.approval_required ELSE ids
  IN  /\ run(t, prior.playbook, prior.dry_run, Append(prior.key, step_ids),
             step_ids \cup prior.approval_required, id, Without(index, prior.key))
      /\ cleared' = cleared \cup {i \in DOMAIN runs : runs[i].key = prior.key}

-----------------------------------------------------------------------------
(* One pass of the loop: the steps of scan are looked at in order.          *)
Running(t) == active[t] # NoRun
Current(t) == Head(active[t].scan)
InPass(t) == Running(t) /\ active[t].scan # <<>>

\* Mutant: a step starts when any of its dependencies has completed.
Ready_AnyDependency(t) ==
  \/ StepDef[Current(t)].depends_on = {}
  \/ StepDef[Current(t)].depends_on \cap active[t].completed # {}

Ready(t) == StepDef[Current(t)].depends_on \subseteq active[t].completed

Gated(t) ==
  /\ evaluate_action(Current(t)) = "REQUIRE_APPROVAL"
  /\ ~active[t].dry_run
  /\ Current(t) \notin active[t].approved

\* The current step leaves scan and pending with the given outcome.
Leave(t, status, attempts) ==
  [active[t] EXCEPT
     !.results = Append(@, [step |-> Current(t), status |-> status, attempts |-> attempts]),
     !.scan = Tail(@),
     !.pending = RemoveFirst(@, Current(t)),
     !.progress = TRUE,
     !.attempts = 0]

\* A dependency is missing: look at the step again in the next pass.
SkipStep(t) ==
  /\ InPass(t) /\ ~Ready(t)
  /\ active' = [active EXCEPT ![t].scan = Tail(@)]
  /\ UNCHANGED <<runs, index, started, history>>

AwaitApproval(t) ==
  /\ InPass(t) /\ Ready(t) /\ Gated(t)
  /\ active' = [active EXCEPT ![t] =
       [Leave(t, "awaiting_approval", 0) EXCEPT !.approval_required = @ \cup {Current(t)}]]
  /\ UNCHANGED <<runs, index, started, history>>

\* Executor calls made for a step of a run.
CallsOf(c) == IF c \in DOMAIN calls THEN calls[c] ELSE 0

\* The executor is called once.
CallExecutor(t) ==
  /\ InPass(t) /\ Ready(t) /\ ~Gated(t)
  /\ calls' = LET c == <<active[t].id, Current(t)>> IN Put(calls, c, CallsOf(c) + 1)
  /\ UNCHANGED cleared

MayRetry(t) == active[t].attempts + 1 <= StepDef[Current(t)].retries

Success(t) ==
  active' = [active EXCEPT ![t] =
    [Leave(t, "success", active[t].attempts + 1) EXCEPT !.completed = @ \cup {Current(t)}]]

StepSucceeds(t) ==
  /\ CallExecutor(t)
  /\ Success(t)
  /\ UNCHANGED <<runs, index, started>>

\* The call raised and an attempt is left.
StepRetries(t) ==
  /\ CallExecutor(t)
  /\ MayRetry(t)
  /\ active' = [active EXCEPT ![t].attempts = @ + 1]
  /\ UNCHANGED <<runs, index, started>>

\* The last attempt raised an exception whose text is empty: last_error is "",
\* which "if last_error" takes for no error.
StepFailsSilently(t) ==
  /\ CallExecutor(t)
  /\ ~MayRetry(t)
  /\ Success(t)
  /\ UNCHANGED <<runs, index, started>>

\* What a stored run keeps.
Public(r) ==
  [id |-> r.id, playbook |-> r.playbook, status |-> r.status, dry_run |-> r.dry_run,
   key |-> r.key, approved |-> r.approved, ancestor |-> r.ancestor, rivals |-> r.rivals,
   results |-> r.results, approval_required |-> r.approval_required]

\* Mutant: a failed run does not keep its key, so that it can be tried again.
Store_FailedNotIndexed(t, r) ==
  /\ runs' = Put(runs, r.id, Public(r))
  /\ index' = IF r.status = "failed" THEN index ELSE Put(index, r.key, r.id)
  /\ active' = [active EXCEPT ![t] = NoRun]

\* _store, and the return from run().
Store(t, r) ==
  /\ runs' = Put(runs, r.id, Public(r))
  /\ index' = Put(index, r.key, r.id)
  /\ active' = [active EXCEPT ![t] = NoRun]

\* The last attempt failed: the run fails at once.
StepFails(t) ==
  /\ CallExecutor(t)
  /\ ~MayRetry(t)
  /\ Store(t, [Leave(t, "failed", active[t].attempts + 1) EXCEPT !.status = "failed"])
  /\ UNCHANGED <<started>>

\* The final status; steps that can never start are reported as a failed "dag" step.
Conclude(r) ==
  CASE r.approval_required # {} -> [r EXCEPT !.status = "awaiting_approval"]
    [] r.approval_required = {} /\ r.pending # <<>> ->
         [r EXCEPT !.status = "failed",
                   !.results = Append(@, [step |-> "dag", status |-> "failed", attempts |-> 0])]
    [] OTHER -> [r EXCEPT !.status = "completed"]

\* Mutant: the loop does not notice that a pass made no progress.
Over_NoProgressCheck(t) == active[t].pending = <<>>

Over(t) == active[t].pending = <<>> \/ ~active[t].progress

\* A pass is over and another one is worth making.
NextPass(t) ==
  /\ Running(t)
  /\ active[t].scan = <<>> /\ ~Over(t)
  /\ active' = [active EXCEPT ![t].scan = active[t].pending, ![t].progress = FALSE]
  /\ UNCHANGED <<runs, index, started, history>>

\* The loop ends: nothing is left, or a pass made no progress.
FinishRun(t) ==
  /\ Running(t)
  /\ active[t].scan = <<>> /\ Over(t)
  /\ Store(t, Conclude(active[t]))
  /\ UNCHANGED <<started, history>>

Work(t) ==
  \/ SkipStep(t)
  \/ AwaitApproval(t)
  \/ StepSucceeds(t)
  \/ StepRetries(t)
  \/ StepFails(t)
  \/ StepFailsSilently(t)
  \/ NextPass(t)
  \/ FinishRun(t)

Next ==
  \E t \in Threads :
    \/ \E p \in Playbooks, dry \in BOOLEAN : \E k \in Keys \cup {p} : RunPlaybook(t, p, dry, k)
    \/ \E id \in DOMAIN runs, ids \in ApproveIds : ApproveRun(t, id, ids)
    \/ Work(t)

Spec == Init /\ [][Next]_vars

\* A request thread that entered run() keeps running.
FairSpec == Spec /\ \A t \in Threads : WF_vars(Work(t))
-----------------------------------------------------------------------------
Statuses == {"success", "failed", "awaiting_approval"}
Results == Seq([step : Steps \cup {"dag"}, status : Statuses, attempts : Nat])

\* The runs of the model other than their keys, which are compared only.
StoredRun(id, r) ==
  /\ r.id = id /\ r.playbook \in Playbooks /\ r.dry_run \in BOOLEAN
  /\ r.status \in {"completed", "failed", "awaiting_approval"}
  /\ r.approved \subseteq Steps \cup UNION ApproveIds /\ r.approval_required \subseteq Steps
  /\ r.ancestor \in 0..MaxRuns /\ r.results \in Results

(* Types: a stored run has a final status and results of its own steps, and *)
(* the steps a pass still has to look at are steps not yet done.            *)
TypeOK ==
  /\ started \in 0..MaxRuns
  /\ DOMAIN runs \subseteq 1..started
  /\ \A id \in DOMAIN runs : StoredRun(id, runs[id])
  /\ \A t \in Threads : Running(t) =>
       /\ active[t].status = "running"
       /\ Range(active[t].scan) \subseteq Range(active[t].pending)
       /\ Range(active[t].pending) \subseteq Range(StepsOf[active[t].playbook])

\* Every run there is, stored or being built.
AllRuns == {runs[id] : id \in DOMAIN runs} \cup {Public(active[t]) : t \in {u \in Threads : Running(u)}}

Outcome(r, s, status) == \E i \in DOMAIN r.results : r.results[i].step = s /\ r.results[i].status = status

(* A step is only tried after all its dependencies succeeded in the same    *)
(* run; a step that waits for an approval holds back all that depends on it *)
(* (PlaybookEngine.run, the test of depends_on against completed).          *)
DependencyOrder ==
  \A r \in AllRuns, s \in Steps :
    CallsOf(<<r.id, s>>) > 0
       => \A d \in StepDef[s].depends_on : Outcome(r, d, "success")

(* An action of tier 1 or 2 is executed for real only in a run that resumes *)
(* another one, in which that step waited for approval or was named by the  *)
(* approver (evaluate_action and PlaybookEngine.approve).                   *)
GatedOnlyAfterApproval ==
  \A r \in AllRuns, s \in Steps :
    /\ ~r.dry_run
    /\ StepDef[s].tier + StepDef[s].listed > 0
    /\ CallsOf(<<r.id, s>>) > 0
    => /\ r.ancestor \in DOMAIN runs
       /\ r.ancestor < r.id
       /\ runs[r.ancestor].playbook = r.playbook
       /\ s \in r.approved

(* The status of a stored run agrees with its steps: completed means that   *)
(* each step of the playbook succeeded, awaiting_approval that a step waits *)
(* and was not executed, failed that some step failed.                      *)
StatusSound ==
  \A id \in DOMAIN runs :
    LET r == runs[id]
    IN  CASE r.status = "completed" ->
               \A s \in Range(StepsOf[r.playbook]) : Outcome(r, s, "success")
          [] r.status = "awaiting_approval" ->
               /\ r.approval_required # {}
               /\ \A s \in r.approval_required :
                    Outcome(r, s, "awaiting_approval") /\ CallsOf(<<id, s>>) = 0
          [] r.status = "failed" ->
               \E s \in Steps \cup {"dag"} : Outcome(r, s, "failed")

(* The executor is called at most retries + 1 times for a step of a run,    *)
(* and the attempts reported are the calls made (the while of run).         *)
AttemptsBounded ==
  \A r \in AllRuns : \A i \in DOMAIN r.results :
    LET n == CallsOf(<<r.id, r.results[i].step>>)
    IN  /\ r.results[i].attempts = n
        /\ n > 0 => n <= StepDef[r.results[i].step].retries + 1

(* A key of the index leads to a stored run that carries this key, so the   *)
(* lookup that answers a repeated request cannot fail (_store).             *)
IndexConsistent ==
  \A k \in DOMAIN index : index[k] \in DOMAIN runs /\ runs[index[k]].key = k

(* A run does what its playbook says and reports what it did: order of the  *)
(* steps, number of attempts, status, and the index that answers repeated   *)
(* requests (run, _store).                                                  *)
RunsSound == TypeOK /\ DependencyOrder /\ StatusSound /\ AttemptsBounded /\ IndexConsistent

(* Idempotency: a key starts a second run only if an approval gave the key  *)
(* up or the first run was still in progress (the lookup at the start of    *)
(* run, _store at its end; "retries, idempotency, approvals", engine.py:1). *)
OneRunPerKeyInSequence ==
  \A r, q \in AllRuns : r.key = q.key /\ r.id < q.id => r.id \in cleared \cup q.rivals

(* Every run that begins ends and is stored, also when its step graph has a *)
(* cycle (the progress flag of run).                                        *)
RunsEnd == \A t \in Threads : Running(t) ~> ~Running(t)

=============================================================================
