--------------------------- MODULE MCIncidentCase ---------------------------
(* The storyline of the grouped incidents cites the evidence, which is      *)
(* bound to no incident: correlation does not bind what it cites.           *)
EXTENDS IncidentCase

MCStoryEvidence == [g \in Grouped |-> Evidence]
=============================================================================
