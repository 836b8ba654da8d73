---------------------------- MODULE MCIngestion ----------------------------
(* A window of three events.  Two findings need the first event, as the two *)
(* Office rules and a beacon do; both tell a storyline with one fingerprint. *)
EXTENDS Ingestion

MCEntitiesOf == [a |-> {"host"}, b |-> {"host", "user"}, c |-> {"ip"}, y |-> {"ip"}]

Def(triggers, needs, scheduled) == [triggers |-> triggers, needs |-> needs, scheduled |-> scheduled]

MCFindingDef ==
  [office  |-> Def({"b"}, {"a", "b"}, FALSE),
   encoded |-> Def({"b", "c"}, {"b", "c"}, FALSE),
   dormant |-> Def({"a"}, {"a"}, TRUE)]

MCStoryDefs ==
  <<[fp |-> "beacon", needs |-> {"office"}],
    [fp |-> "beacon", needs |-> {"encoded"}],
    [fp |-> "lateral", needs |-> {"office", "encoded"}]>>

MCBatches == {<<"a">>, <<"b", "x">>, <<"c">>, <<"c", "a", "b">>, <<"y">>}
=============================================================================
