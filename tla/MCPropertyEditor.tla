-------------------------- MODULE MCPropertyEditor --------------------------
(* The command lines of 04-rest and 01-zookeeper, and a wrong one           *)
EXTENDS PropertyEditor, TLC

Rest ==
  [includePatterns |-> <<[prefix |-> "KAFKA_REST_", groups |-> 1], [prefix |-> "RP_", groups |-> 1]>>,
   excludePatterns |-> {<<"RP_", "CFG_">>}, preserveCase |-> FALSE,
   names |-> {<<"RP_", "a", "_", "b">>, <<"RP_", "a", ".", "B">>, <<"RP_", "CFG_", "a">>,
              <<"KAFKA_REST_", "RP_", "a">>, <<"X", "RP_", "c">>}]

Zookeeper ==
  [includePatterns |-> <<[prefix |-> "ZK_", groups |-> 1], [prefix |-> "zk_", groups |-> 1]>>,
   excludePatterns |-> {<<"zk_", "cfg_">>}, preserveCase |-> TRUE,
   names |-> {<<"ZK_", "a", "B">>, <<"zk_", "a", "_", "b">>, <<"zk_", "cfg_", "a">>,
              <<"zk_", "ZK_", "a">>}]

\* An include pattern without a group
Wrong ==
  [Zookeeper EXCEPT !.includePatterns = <<@[1], [@[2] EXCEPT !.groups = 0]>>]

MCContainers == {Rest, Zookeeper, Wrong}

ImageFile == (<<"a", ".", "b">> :> "image") @@ (<<"d">> :> "image")
=============================================================================
