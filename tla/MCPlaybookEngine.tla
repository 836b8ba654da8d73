-------------------------- MODULE MCPlaybookEngine --------------------------
(* Step graphs for TLC: the catalogue's contain playbook, a join that needs *)
(* a free step and a tier-1 step, and a cycle.                              *)
EXTENDS PlaybookEngine

Step(tier, listed, depends_on, retries) ==
  [tier |-> tier, listed |-> listed, depends_on |-> depends_on, retries |-> retries]

MCStepDef ==
  [collect |-> Step(0, 0, {}, 1),
   isolate |-> Step(2, 2, {"collect"}, 0),
   look    |-> Step(0, 0, {}, 0),
   session |-> Step(0, 1, {}, 0),
   join    |-> Step(0, 0, {"look", "session"}, 0),
   x       |-> Step(0, 0, {"y"}, 0),
   y       |-> Step(0, 0, {"x"}, 0)]

MCStepsOf ==
  [contain |-> <<"collect", "isolate">>,
   gate    |-> <<"join", "look", "session">>,
   loop    |-> <<"look", "x", "y">>]

MCApproveIds == {{}, {"isolate"}, {"session"}}
=============================================================================
