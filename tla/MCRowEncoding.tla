--------------------------- MODULE MCRowEncoding ---------------------------
(***************************************************************************)
(* The instances of RowEncoding: a table with every kind of record and a   *)
(* key of one column, a wider one whose key has two, and the lengths       *)
(* around every size of the buffer.                                        *)
(***************************************************************************)
EXTENDS RowEncoding

MCTables ==
  {[types |-> RecordTypes \cup {"int8"}, cols |-> 3, key |-> 1],
   [types |-> {"numeric", "text"}, cols |-> 4, key |-> 2]}
=============================================================================
