------------------------------- MODULE Broker -------------------------------
(***************************************************************************)
(* The execution broker (packages/execution-broker) and the policy it asks *)
(* (packages/rego-engine with security-languages/rego/policy/core.rego):   *)
(* which registered action a request names, who may ask for it, what the   *)
(* two policies decide and what is then planned or run.                    *)
(*                                                                         *)
(* Everything here is a function of the request and of the outcome of      *)
(* external programs; ResponseGate puts it behind the endpoint. A request  *)
(* is a record with the action, the names of its parameters and target     *)
(* fields, the values of the parameters a policy reads, dry_run and the    *)
(* permissions of the caller. Confidence is in hundredths.                 *)
(***************************************************************************)
EXTENDS Naturals, FiniteSets

Decisions == {"ALLOW", "REQUIRE_APPROVAL", "DENY"}
Strictness == [ALLOW |-> 0, REQUIRE_APPROVAL |-> 1, DENY |-> 2]

---------------------------------------------------------------------------
(* The registry, default_registry: actions that differ only in the script  *)
(* they start are in one set.                                              *)

WindowsCollection ==
    {"collect.windows.processes", "collect.windows.defender",
     "collect.windows.scheduled_tasks", "collect.windows.services",
     "collect.windows.local_admins", "collect.windows.events",
     "collect.windows.auth_events"}
LinuxCollection ==
    {"collect.linux.processes", "collect.linux.sessions", "collect.linux.sockets",
     "collect.linux.systemd", "collect.linux.cron", "collect.linux.ssh",
     "collect.linux.audit"}
Analyses == {"scan.yara.bytes", "hunt.blueql", "hunt.sql", "policy.evaluate"}
Containments == {"isolate.host", "identity.disable_user", "identity.revoke_token",
                 "network.block_ioc"}

Registered == WindowsCollection \cup LinuxCollection \cup Analyses \cup Containments
Forbidden == {"shell.exec", "powershell.invoke_raw", "bash.eval", "os.system"}

language(a) ==
    CASE a \in WindowsCollection   -> "powershell"
      [] a \in LinuxCollection     -> "bash"
      [] a = "scan.yara.bytes"     -> "yara"
      [] a = "hunt.blueql"         -> "blueql"
      [] a = "hunt.sql"            -> "sql"
      [] a = "policy.evaluate"     -> "rego"
      [] a \in Containments        -> "python"

tier(a) == IF a \in Containments THEN 2 ELSE 0
read_only(a) == a \notin Containments

required_permission(a) ==
    CASE a \in Containments                 -> "response:tier2"
      [] a = "scan.yara.bytes"              -> "detections:read"
      [] a \in {"hunt.blueql", "hunt.sql"}  -> "hunts:execute"
      [] OTHER                              -> "response:tier0"

PolicyParams == {"environment", "confidence", "auto_containment"}
allowed_params(a) ==
    CASE a \in {"collect.windows.processes", "collect.windows.scheduled_tasks",
                "collect.windows.services", "collect.linux.processes"} -> {"limit"}
      [] a = "collect.windows.events"      -> {"max_events"}
      [] a = "collect.windows.auth_events" -> {"hours", "max_events"}
      [] a = "scan.yara.bytes"             -> {"rule_id", "content_b64", "filename"}
      [] a = "hunt.blueql"                 -> {"query", "dry_run"}
      [] a = "hunt.sql"                    -> {"query_id", "params"}
      [] a = "policy.evaluate"             -> PolicyParams \cup {"proposed_action"}
      [] a = "isolate.host"                -> PolicyParams \cup {"host_id"}
      [] a = "identity.disable_user"       -> PolicyParams \cup {"user_id"}
      [] a = "identity.revoke_token"       -> PolicyParams \cup {"token_id"}
      [] a = "network.block_ioc"           -> PolicyParams \cup {"indicator"}
      [] OTHER                             -> {}

(* The first part of the action type.                                      *)
DomainOf(a) ==
    CASE a \in {"identity.disable_user", "identity.revoke_token"} -> "identity"
      [] a = "network.block_ioc"                                  -> "network"
      [] OTHER                                                    -> "other"

---------------------------------------------------------------------------
(* The policies.                                                           *)

(* playbook-sdk, evaluate_action, for the types of the registry.           *)
evaluate_action(a) == IF a = "isolate.host" \/ tier(a) \in {1, 2}
                      THEN "REQUIRE_APPROVAL" ELSE "ALLOW"

Destructive == {"delete_evidence", "alter_platform_policy"}
AiActions == {"ai.act", "llm.act"}      \* types that start with ai. or llm.
GuardedDomains == {"identity", "endpoint", "network", "cloud", "tenant"}

subset_evaluate(d) ==
    IF d.type \in Destructive \cup AiActions \/ d.ai THEN "DENY"
    ELSE IF d.dry_run /\ d.read_only THEN "ALLOW"
    ELSE IF \/ d.tier >= 2
            \/ /\ ~d.read_only
               /\ \/ d.environment \in {"production", "Production"}  \* lower()
                  \/ d.domain \in GuardedDomains
                  \/ ~d.auto \/ d.confidence < 95
         THEN "REQUIRE_APPROVAL"
    ELSE IF d.read_only /\ d.tier = 0 THEN "ALLOW"
    ELSE "DENY"

(* core.rego: the values <<decision, reason>> of the rules whose bodies    *)
(* hold. A domain that is not in the document equals nothing.              *)
Value(condition, decision, reason) ==
    IF condition THEN {<<decision, reason>>} ELSE {}

(* The five rules for mutations in a guarded domain.                       *)
domain_rules(d) ==
    UNION {Value(~d.read_only /\ d.domain = g, "REQUIRE_APPROVAL", g) : g \in GuardedDomains}

\* Mutant: the rule for tier-2 actions is lost.
opa_rules_NoTier2(d) ==
    LET mutation == ~d.read_only
    IN  Value(d.type \in Destructive \cup AiActions \/ d.ai, "DENY", "denied")
        \cup Value(d.read_only /\ d.tier = 0, "ALLOW", "collection")
        \cup Value(mutation /\ d.environment = "production", "REQUIRE_APPROVAL", "production")
        \cup Value(mutation /\ (~d.auto \/ d.confidence < 95), "REQUIRE_APPROVAL", "containment")
opa_rules(d) ==
    Value(d.type \in Destructive, "DENY", "destructive")
    \cup Value(d.type \in AiActions, "DENY", "ai authority")
    \cup Value(d.ai, "DENY", "ai requested")
    \cup Value(d.dry_run /\ d.read_only, "ALLOW", "dry run")
    \cup Value(d.read_only /\ d.tier = 0, "ALLOW", "collection")
    \cup Value(d.tier >= 2, "REQUIRE_APPROVAL", "tier 2")
    \cup Value(~d.read_only /\ d.environment = "production", "REQUIRE_APPROVAL", "production")
    \cup Value(~d.read_only /\ (~d.auto \/ d.confidence < 95), "REQUIRE_APPROVAL", "containment")
    \cup domain_rules(d)

(* `result` is a complete rule: two different values are an evaluation     *)
(* error, and none gives the default.                                      *)
OpaConflict(d) == Cardinality(opa_rules(d)) > 1
OpaDecision(d) == IF opa_rules(d) = {} THEN "DENY"
                  ELSE (CHOOSE v \in opa_rules(d) : TRUE)[1]

(* evaluate: opa is "answers", or "absent" when it is not installed, runs  *)
(* out of time or prints no JSON.                                          *)
evaluate(d, opa) ==
    IF opa # "answers" \/ OpaConflict(d) THEN subset_evaluate(d) ELSE OpaDecision(d)

(* The document submit builds for the policy. No registered action accepts *)
(* the parameters domain and requested_by_ai.                              *)
Document(q) ==
    [type |-> q.action, tier |-> tier(q.action), read_only |-> read_only(q.action),
     dry_run |-> q.dry_run, environment |-> q.environment, confidence |-> q.confidence,
     auto |-> q.auto, domain |-> DomainOf(q.action), ai |-> FALSE]

(* The document _execute builds for policy.evaluate from proposed_action.  *)
Proposal(q) ==
    [type |-> q.proposed, tier |-> IF q.proposed = "isolate.host" THEN 2 ELSE 0,
     read_only |-> FALSE, dry_run |-> q.dry_run, environment |-> q.environment,
     confidence |-> q.confidence, auto |-> q.auto, domain |-> "none", ai |-> FALSE]

---------------------------------------------------------------------------
(* submit.                                                                 *)

(* The exceptions raised before a policy is asked, in the order of the     *)
(* code; float() raises on a confidence that is no number.                 *)
NotANumber == 1000
Refusal(q) ==
    IF q.action \in Forbidden THEN "ACTION_FORBIDDEN"
    ELSE IF q.action \notin Registered THEN "ACTION_UNREGISTERED"
    ELSE IF ~(q.names \subseteq allowed_params(q.action)) THEN "ACTION_SCHEMA"
    ELSE IF {required_permission(q.action), "admin:platform"} \cap q.permissions = {}
    THEN "PERMISSION_DENIED"
    ELSE IF q.confidence = NotANumber THEN "VALUE_ERROR"
    ELSE "none"

Decide(q, opa) ==
    LET decision == evaluate(Document(q), opa)
    IN  IF evaluate_action(q.action) = "REQUIRE_APPROVAL" /\ decision = "ALLOW"
        THEN "REQUIRE_APPROVAL" ELSE decision

(* How _execute can end: outputs with a status, or an exception.           *)
(* "timeout" is the exception of a script that ran for 20 seconds.         *)
Outcomes(q) ==
    CASE language(q.action) \in {"powershell", "bash"} ->
             {"skipped"} \cup IF q.dry_run THEN {"planned"}
                              ELSE {"executed", "failed", "timeout", "raised"}
      [] language(q.action) \in {"yara", "blueql", "sql"} -> {"executed", "raised"}
      [] OTHER -> {"executed"}

(* A script is started by these outcomes.                                  *)
StartsScript(q, outcome) ==
    /\ outcome \in {"executed", "failed", "timeout"}
    /\ language(q.action) \in {"powershell", "bash"}

(* What a submitted request comes to: [status, decision, outcome], where   *)
(* outcome is "none" when _execute was not called.                         *)
Answer(status, decision, outcome) ==
    [status |-> status, decision |-> decision, outcome |-> outcome]

\* Mutant: what needs an approval is carried out at once.
submit_ApprovalSkipped(q, opa) ==
    LET decision == Decide(q, opa)
    IN  IF Refusal(q) # "none" THEN {Answer(Refusal(q), "none", "none")}
        ELSE IF decision = "DENY" THEN {Answer("denied", decision, "none")}
        ELSE {Answer(o, decision, o) : o \in Outcomes(q)}
submit(q, opa) ==
    LET decision == Decide(q, opa)
        Ended(o) == IF o \in {"timeout", "raised"} THEN "exception"
                    ELSE IF q.dry_run THEN "planned" ELSE o
    IN  IF Refusal(q) # "none" THEN {Answer(Refusal(q), "none", "none")}
        ELSE IF decision = "DENY" THEN {Answer("denied", decision, "none")}
        ELSE IF decision = "REQUIRE_APPROVAL" /\ ~q.dry_run
        THEN {Answer("awaiting_approval", decision, "none")}
        ELSE IF q.dry_run \/ read_only(q.action)
        THEN {Answer(Ended(o), decision, o) : o \in Outcomes(q)}
        ELSE {Answer("denied", decision, "none")}
=============================================================================
