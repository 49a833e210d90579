----------------------------- MODULE Changelog -----------------------------
(***************************************************************************)
(* One table and its Kafka topic: what update_frame_with_insert, _update   *)
(* and _delete (ext/protocol_server.c) make of the changes of a table, and *)
(* what the row callbacks of the client (kafka/bottledwater.c) make of     *)
(* those, through snapshots, restarts and the producer's queue.  The topic *)
(* is seen by a reader who keeps the latest record of every key; a record  *)
(* without a value stands for no row.                                      *)
(*                                                                         *)
(* Every transaction makes one change, and its LSN counts the changes made *)
(* so far.  The circular buffer, the keepalive timer and the phases of the *)
(* start are BottledWater's subject; here a client confirms a position     *)
(* once no earlier record is outstanding.                                  *)
(***************************************************************************)
EXTENDS Integers, FiniteSets

CONSTANTS
  Keys, Vals,
  TableKinds, \* the kinds of table considered, records of TableKind
  MaxChanges, \* bound: changes of the table
  MaxFaults   \* bound: times the client dies

\* pg_class.relreplident, whether the index it names is still there, and
\* whether the table has a primary key
TableKind == [replident : {"default", "full", "index", "nothing"},
              replica_index : BOOLEAN, primary_key : BOOLEAN]

ASSUME KindAssumption == TableKinds \subseteq TableKind
ASSUME BoundAssumption == MaxChanges \in Nat /\ MaxFaults \in Nat

VARIABLES
  \* The database
  kind,       \* the kind of the table
  last,       \* the LSN of the last change
  versions,   \* versions[n]: the table after n changes
  wal,        \* wal[n]: the n-th change
  slot,       \* the replication slot is there,
  consistent_point, confirmed_flush, \* created at an LSN, confirmed up to another
  \* The client
  pc, todo,   \* snapshot rows not received yet
  recvd,      \* the LSN up to which changes were received
  out,        \* the records handed to the producer and not yet acknowledged
  \* The topic
  latest,     \* the value of the latest record of each key
  \* History
  loose,      \* keys whose record is left over from, or missing from, a
              \* snapshot that was given up
  faults

vars == <<kind, last, versions, wal, slot, consistent_point, confirmed_flush, pc, todo, recvd, out,
          latest, loose, faults>>
db == <<kind, last, versions, wal>>
slotv == <<slot, consistent_point, confirmed_flush>>

NoVal == "NULL"
NoKey == "NULL"
ASSUME KeyAssumption == NoKey \notin Keys

table == versions[last]
-----------------------------------------------------------------------------
(* The output plugin and the row callbacks *)

table_key_index(k) ==
  CASE k.replident = "nothing" -> "none"
    [] k.replident = "index" /\ k.replica_index -> "replica identity"
    [] OTHER -> IF k.primary_key THEN "primary key" ELSE "none"

extract_tuple_key(key) == IF table_key_index(kind) = "none" THEN NoKey ELSE key

\* Postgres logs the old row, or its key columns, of a change
OldTuple(c) ==
  CASE kind.replident = "full" -> c.op # "insert"
    [] kind.replident = "nothing" -> FALSE
    [] OTHER -> /\ IF kind.replident = "index" THEN kind.replica_index ELSE kind.primary_key
                /\ c.op = "delete" \/ (c.op = "update" /\ c.old # c.new)

\* row tells the records apart that have no key
Rec(row, key, val, lsn) == [row |-> row, key |-> key, val |-> val, lsn |-> lsn]

\* on_delete_row: a deletion without a key is not sent
on_delete_row(key, lsn) == IF key = NoKey THEN {} ELSE {Rec(key, key, NoVal, lsn)}

update_frame_with_insert(c, lsn) == {Rec(c.new, extract_tuple_key(c.new), c.val, lsn)}

\* Variant: a change of key is not looked for
update_frame_with_update_plain(c, lsn) == {Rec(c.new, extract_tuple_key(c.new), c.val, lsn)}

update_frame_with_update(c, lsn) ==
  LET old_key == IF OldTuple(c) THEN extract_tuple_key(c.old) ELSE NoKey
      new_key == extract_tuple_key(c.new)
  IN  IF old_key # NoKey /\ old_key # new_key
        THEN on_delete_row(old_key, lsn) \cup {Rec(c.new, new_key, c.val, lsn)}
        ELSE {Rec(c.new, new_key, c.val, lsn)}

update_frame_with_delete(c, lsn) ==
  on_delete_row(IF OldTuple(c) THEN extract_tuple_key(c.old) ELSE NoKey, lsn)

output_avro_change(c, lsn) ==
  CASE c.op = "insert" -> update_frame_with_insert(c, lsn)
    [] c.op = "update" -> update_frame_with_update(c, lsn)
    [] c.op = "delete" -> update_frame_with_delete(c, lsn)
-----------------------------------------------------------------------------
\* What the log holds beyond the last change
NoChange == [op |-> "none", old |-> NoKey, new |-> NoKey, val |-> NoVal]

Init ==
  /\ kind \in TableKinds
  /\ last = 0 /\ wal = [n \in 1..MaxChanges |-> NoChange]
  /\ \E t \in [Keys -> Vals \cup {NoVal}] : versions = [n \in 0..MaxChanges |-> t]
  /\ slot = FALSE /\ consistent_point = 0 /\ confirmed_flush = 0
  /\ pc = "down" /\ todo = {} /\ recvd = 0 /\ out = {}
  /\ latest = [k \in Keys |-> NoVal] /\ loose = {} /\ faults = 0

Change(op, old, new, val) ==
  /\ last < MaxChanges
  /\ last' = last + 1
  /\ wal' = [wal EXCEPT ![last + 1] = [op |-> op, old |-> old, new |-> new, val |-> val]]
  /\ versions' = [versions EXCEPT ![last + 1] =
       [k \in Keys |-> IF op # "delete" /\ k = new THEN val
                       ELSE IF op # "insert" /\ k = old THEN NoVal
                       ELSE table[k]]]
  /\ UNCHANGED <<kind, slotv, pc, todo, recvd, out, latest, loose, faults>>

Insert == \E k \in Keys, v \in Vals : table[k] = NoVal /\ Change("insert", k, k, v)
Update == \E k, l \in Keys, v \in Vals :
            table[k] # NoVal /\ (l = k \/ table[l] = NoVal) /\ Change("update", k, l, v)
Delete == \E k \in Keys : table[k] # NoVal /\ Change("delete", k, k, NoVal)

\* db_client_start with no slot: it is created, and the snapshot query sent
StartSnapshot ==
  /\ pc = "down" /\ ~ slot
  /\ slot' = TRUE /\ consistent_point' = last /\ confirmed_flush' = last
  /\ pc' = "snapshot" /\ recvd' = last
  /\ todo' = {k \in Keys : table[k] # NoVal}
  /\ UNCHANGED <<db, out, latest, loose, faults>>

\* db_client_start with the slot of an earlier incarnation
StartStream ==
  /\ pc = "down" /\ slot
  /\ pc' = "stream" /\ recvd' = confirmed_flush
  /\ UNCHANGED <<db, slotv, todo, out, latest, loose, faults>>

snapshot_tuple(k) ==
  /\ pc = "snapshot" /\ k \in todo
  /\ todo' = todo \ {k}
  /\ out' = out \cup update_frame_with_insert(
                     [new |-> k, val |-> versions[consistent_point][k]], consistent_point)
  /\ UNCHANGED <<db, slotv, pc, recvd, latest, loose, faults>>

\* Variant: the end of a snapshot without rows goes unnoticed
snapshot_end_rows ==
  /\ pc = "snapshot" /\ todo = {} /\ \E k \in Keys : versions[consistent_point][k] # NoVal
  /\ pc' = "stream"
  /\ UNCHANGED <<db, slotv, todo, recvd, out, latest, loose, faults>>

snapshot_end ==
  /\ pc = "snapshot" /\ todo = {}
  /\ pc' = "stream"
  /\ UNCHANGED <<db, slotv, todo, recvd, out, latest, loose, faults>>

ReceiveChange ==
  /\ pc = "stream" /\ recvd < last
  /\ recvd' = recvd + 1
  /\ out' = out \cup output_avro_change(wal[recvd + 1], recvd + 1)
  /\ UNCHANGED <<db, slotv, pc, todo, latest, loose, faults>>

\* The consistent partitioner puts the records of a key in one partition, whose
\* order is the producer's; records of different keys may overtake each other.
on_deliver_msg(m) ==
  /\ m \in out /\ \A x \in out : x.key = m.key => m.lsn <= x.lsn
  /\ out' = out \ {m}
  /\ latest' = [k \in Keys |-> IF k = m.key THEN m.val ELSE latest[k]]
  /\ loose' = loose \ {m.key}
  /\ UNCHANGED <<db, slotv, pc, todo, recvd, faults>>

\* Transaction n was received, and no record up to it is outstanding
Durable(n) == n <= recvd /\ \A m \in out : n < m.lsn
fsync_lsn(n) == Durable(n) /\ ~ Durable(n + 1)

\* Variant: a transaction is taken for durable once its records are handed over
send_checkpoint_eager ==
  /\ pc = "stream" /\ recvd > confirmed_flush
  /\ confirmed_flush' = recvd
  /\ UNCHANGED <<db, slot, consistent_point, pc, todo, recvd, out, latest, loose, faults>>

send_checkpoint ==
  /\ pc = "stream"
  /\ \E n \in confirmed_flush + 1 .. recvd : fsync_lsn(n) /\ confirmed_flush' = n
  /\ UNCHANGED <<db, slot, consistent_point, pc, todo, recvd, out, latest, loose, faults>>

\* The process ends.  An error exit drops the slot, if the replication
\* connection still takes commands; the records of that snapshot that did get
\* through remain.  When the slot stays, nobody repeats the snapshot's records.
Die(drop) ==
  /\ pc # "down" /\ faults < MaxFaults
  /\ faults' = faults + 1
  /\ drop => pc = "snapshot"
  /\ IF drop
       THEN /\ slot' = FALSE /\ consistent_point' = 0 /\ confirmed_flush' = 0
            /\ loose' = {k \in Keys : latest[k] # NoVal}
       ELSE /\ UNCHANGED slotv
            /\ loose' = loose \cup todo \cup
                 {k \in Keys : \E m \in out : m.key = k /\ m.lsn = consistent_point}
  /\ pc' = "down" /\ todo' = {} /\ recvd' = 0 /\ out' = {}
  /\ UNCHANGED <<db, latest>>

Client == \/ StartSnapshot \/ StartStream \/ (\E k \in Keys : snapshot_tuple(k)) \/ snapshot_end
          \/ ReceiveChange

Next == \/ Insert \/ Update \/ Delete
        \/ Client \/ (\E m \in out : on_deliver_msg(m)) \/ send_checkpoint
        \/ \E drop \in BOOLEAN : Die(drop)

Spec == Init /\ [][Next]_vars

\* The client's loop runs and the brokers answer; the database need not change
FairSpec == Spec /\ WF_vars(Client) /\ WF_vars(\E m \in out : on_deliver_msg(m))
-----------------------------------------------------------------------------
Keyed == table_key_index(kind) # "none"

\* A snapshot record of k has still to be written
Awaited(k) == k \in todo \/ \E m \in out : m.key = k /\ m.lsn = consistent_point

\* The topic never lags behind the slot: the latest record of a key tells what
\* the table held at the confirmed position or later, and replaying after a
\* restart does not take it further back (update_frame_with_update,
\* on_delete_row, on_deliver_msg, send_checkpoint).
NotBehind ==
  slot /\ Keyed =>
    \A k \in Keys \ loose :
      Awaited(k) \/ \E n \in confirmed_flush .. last : latest[k] = versions[n][k]

\* A client that has caught up has made the topic equal to the table: changed
\* keys and deleted rows leave nothing behind (update_frame_with_update,
\* update_frame_with_delete, on_delete_row).
Converged ==
  pc = "stream" /\ recvd = last /\ out = {} /\ Keyed =>
    \A k \in Keys \ loose : latest[k] = table[k]

\* Once the table is left alone and faults stop, the topic becomes equal to it
\* and stays so.
EventuallyConverged ==
  <>[](Keyed => \A k \in Keys \ loose : latest[k] = table[k])
=============================================================================
