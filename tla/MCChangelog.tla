---------------------------- MODULE MCChangelog ----------------------------
(* Instances of Changelog for TLC *)
EXTENDS Changelog

CONSTANTS k1, k2, v1, v2

MCKeys == {k1, k2}
MCVals == {v1, v2}

\* Tables with a key and one without.  A named identity index is there: for one
\* that was dropped the primary key stands in, but Postgres logs no old key of
\* it, so that a change of key leaves a record behind.
Sound == {[replident |-> "default", replica_index |-> FALSE, primary_key |-> TRUE],
          [replident |-> "full",    replica_index |-> FALSE, primary_key |-> TRUE],
          [replident |-> "index",   replica_index |-> TRUE,  primary_key |-> TRUE],
          [replident |-> "nothing", replica_index |-> FALSE, primary_key |-> TRUE],
          [replident |-> "full",    replica_index |-> FALSE, primary_key |-> FALSE]}
=============================================================================
