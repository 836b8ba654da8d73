--------------------------- MODULE MCResponseGate ---------------------------
(***************************************************************************)
(* One request at a time, two processes that start, one key; the bodies    *)
(* cover every language of the registry, each way to refuse, and the       *)
(* values on both sides of every comparison of the policies.               *)
(***************************************************************************)
EXTENDS ResponseGate

MCKeyTenant == [k \in Keys |-> DEMO_TENANT_ID]

Body(a, names, env, conf, auto, proposed, dry) ==
    [action |-> a, names |-> names, environment |-> env, confidence |-> conf,
     auto |-> auto, proposed |-> proposed, dry_run |-> dry]

Automation == {<<94, TRUE>>, <<95, TRUE>>}

MCBodies ==
    {Body(a, {}, "unknown", 0, FALSE, "unknown", dry) : dry \in BOOLEAN,
        a \in {"shell.exec", "collect.all", "collect.windows.events",
               "collect.linux.ssh", "hunt.blueql"}}
    \cup {Body("hunt.sql", {"environment"}, "production", 0, FALSE, "unknown", TRUE),
          Body("isolate.host", PolicyParams, "staging", NotANumber, TRUE, "unknown", TRUE),
          Body("isolate.host", PolicyParams, "staging", 95, FALSE, "unknown", FALSE)}
    \cup {Body("isolate.host", PolicyParams, env, x[1], x[2], "unknown", dry) :
        env \in {"production", "staging"}, x \in Automation, dry \in BOOLEAN}
    \cup {Body("network.block_ioc", PolicyParams, "staging", 95, TRUE, "unknown", dry) :
        dry \in BOOLEAN}
    \cup {Body("policy.evaluate", PolicyParams \cup {"proposed_action"}, env, x[1], x[2], p, FALSE) :
        env \in {"production", "Production", "staging"}, x \in Automation,
        p \in {"isolate.host", "notify"}}
    \cup {Body("policy.evaluate", {"proposed_action"}, "unknown", 95, TRUE, p, FALSE) :
        p \in {"delete_evidence", "ai.act"}}
=============================================================================
