---------------------------- MODULE ResponseGate ----------------------------
(***************************************************************************)
(* POST /broker/actions (api/broker.py): Access decides who calls, Broker  *)
(* what comes of the action. The other endpoints that Access lets through  *)
(* answer without touching this state.                                     *)
(***************************************************************************)
EXTENDS Access, Broker

CONSTANTS
    Bodies        \* request bodies: requests of Broker without permissions

ASSUME BodiesAssumption == \A body \in Bodies : body.dry_run \in BOOLEAN

(* submit_action: the permissions of the caller are those of its roles in  *)
(* the tenant, and admin:platform for a platform administrator.            *)
Permissions(a) == a.permissions \cup IF a.admin THEN {"admin:platform"} ELSE {}

Request(a, body) ==
    [action |-> body.action, names |-> body.names, environment |-> body.environment,
     confidence |-> body.confidence, auto |-> body.auto, proposed |-> body.proposed,
     dry_run |-> body.dry_run, permissions |-> Permissions(a)]

(* The audit record of an answered request; exceptions roll it back.       *)
Audited(answer) ==
    IF answer.decision = "none" \/ answer.status = "exception" THEN "none"
    ELSE IF answer.status \in {"denied", "failed"} THEN "denied" ELSE "success"

SubmitAction(c) ==
    LET a == call[c]
    IN  /\ a.pc = "run"
        /\ a.perm = "broker:execute"
        /\ \E body \in Bodies, opa \in {"absent", "answers"} :
              \E answer \in submit(Request(a, body), opa) :
                 call' = [call EXCEPT ![c] =
                     [pc |-> "answered", who |-> a.who, tenants |-> a.tenants,
                      request |-> Request(a, body), opa |-> opa, answer |-> answer,
                      audited |-> Audited(answer)]]
        /\ UNCHANGED <<accounts, tokens, now, saw, process, seeds, used>>

(* Any other handler, and the end of the request.                          *)
Finish(c) ==
    /\ \/ call[c].pc = "run" /\ call[c].perm # "broker:execute"
       \/ call[c].pc = "answered"
    /\ call' = [call EXCEPT ![c] = Idle]
    /\ UNCHANGED <<accounts, tokens, now, saw, process, seeds, used>>

GateNext ==
    \/ AccessNext
    \/ \E c \in Calls : SubmitAction(c) \/ Finish(c)

GateSpec == AccessInit /\ [][GateNext]_accessVars

---------------------------------------------------------------------------
Answered == {c \in Calls : call[c].pc = "answered"}

(* A script of the broker is started only for a registered read-only       *)
(* action that is not a dry run, on the authority of a platform            *)
(* administrator or of a role that the caller held in that tenant during   *)
(* the request and that allows both the endpoint and the action, and never *)
(* against one of the two policies.                                        *)
ScriptsAuthorized ==
    \A c \in Answered :
        LET q == call[c].request
            a == q.action
        IN  StartsScript(q, call[c].answer.outcome) =>
              /\ a \in Registered /\ read_only(a) /\ ~q.dry_run
              /\ evaluate_action(a) = "ALLOW" /\ subset_evaluate(Document(q)) = "ALLOW"
              /\ \/ call[c].who \in saw[c].admins
                 \/ \A t \in call[c].tenants :
                      {"broker:execute", required_permission(a)} \subseteq
                         UNION {ROLE_CATALOG[r] : r \in
                                  {x \in Roles : <<call[c].who, t, x>> \in saw[c].grants}}

(* A containment action is never carried out by the broker: a real request *)
(* that passes the checks waits for an approval and a dry run is planned,  *)
(* with OPA installed, failing or absent ("T2 always requires approval",   *)
(* docs/security-model.md).                                                *)
ContainmentWaits ==
    \A c \in Answered :
        LET q == call[c].request
        IN  q.action \in Containments /\ Refusal(q) = "none" =>
              call[c].answer.status = IF q.dry_run THEN "planned" ELSE "awaiting_approval"

(* What the broker carries out was authorized: scripts by the caller's      *)
(* roles and both policies, containment by nobody (submit, _execute).       *)
ActionsAuthorized == ScriptsAuthorized /\ ContainmentWaits

(* The decision on a registered action does not depend on whether OPA is   *)
(* installed or answers: the Python subset and core.rego agree there, also *)
(* where two rules of core.rego hold at once and OPA reports a conflict.   *)
EngineNeutral ==
    \A c \in Answered :
        LET q == call[c].request
        IN  Refusal(q) = "none" => Decide(q, call[c].opa) = Decide(q, "absent")

(* policy.evaluate never advises to carry a proposed action out            *)
(* unattended, and advises against what an AI asks for or what destroys    *)
(* evidence, whatever engine answers and however the environment is spelt. *)
AdviceSafe ==
    \A c \in Answered :
        LET q == call[c].request
            advice == evaluate(Proposal(q), call[c].opa)
        IN  q.action = "policy.evaluate" /\ call[c].answer.status = "executed" =>
              /\ advice # "ALLOW"
              /\ q.proposed \in Destructive \cup AiActions => advice = "DENY"

(* The policy decides the same with and without OPA, and its advice is on   *)
(* the safe side (evaluate, _subset_evaluate, core.rego).                   *)
PolicySound == EngineNeutral /\ AdviceSafe
=============================================================================
