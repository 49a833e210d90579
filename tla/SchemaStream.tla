---------------------------- MODULE SchemaStream ----------------------------
(***************************************************************************)
(* How the schema of a table travels with its rows.  The extension keeps a *)
(* cache of the table definitions it has announced in the session          *)
(* (ext/schema_cache.c) and puts a table's schema into the frame of the    *)
(* first row that needs it (ext/protocol_server.c), in the snapshot        *)
(* (ext/snapshot.c) and in the stream (ext/logdecoder.c).  The client      *)
(* decodes rows with the schema it was last sent                           *)
(* (client/protocol_client.c), and the table mapper                        *)
(* (kafka/table_mapper.c) turns schemas into a topic and, with a schema    *)
(* registry (kafka/registry.c), into the ids that prefix every message.    *)
(* Whether there is a registry depends on the options the client is        *)
(* started with (kafka/bottledwater.c).                                    *)
(*                                                                         *)
(* Bytes are represented by the schema they were encoded with: an encoded  *)
(* key or row IS that schema, and decoding it with another one is an       *)
(* error.                                                                  *)
(***************************************************************************)
EXTENDS Integers, FiniteSets

CONSTANTS
  Relids, Names, Cols, Attrs, Keys, \* tables, and what a definition is made of
  Null,
  allow_unkeyed, \* the option of the same name
  MaxDDL,        \* bound: changes of a table definition
  MaxChanges,    \* bound: row changes in the WAL
  MaxRows,       \* bound: rows of one table in the snapshot
  MaxChan,       \* bound: messages between server and client
  MaxExits       \* bound: times the client exits

TABLE_MAPPER_SCHEMA_ID_MISSING == -1

\* A definition: cols, the columns and the namespace, goes into the Avro schema
\* of a row, attrs stands for what the tuple descriptor has besides (NOT NULL,
\* defaults), and key is the index that table_key_index finds, with its own
\* name and columns.
Def == [relname : Names, cols : Cols, attrs : Attrs, key : Keys \cup {Null}]

RowSchemas == [relname : Names, cols : Cols]
KeySchemas == [index : Keys]
AvroSchemas == RowSchemas \cup KeySchemas

schema_for_table_row(d) == [relname |-> d.relname, cols |-> d.cols]
schema_for_table_key(d) == IF d.key = Null THEN Null ELSE [index |-> d.key]

\* What the frame reader and the table mapper have of a table
Schemas == [key : KeySchemas \cup {Null}, row : RowSchemas]
Metadata == [topic : Names, key_schema : KeySchemas \cup {Null}, row_schema : RowSchemas,
             key_schema_id : Int, row_schema_id : Int]

ASSUME SchemaAssumption ==
  /\ Cardinality(Relids) \in Nat
  /\ Null \notin Names \cup Keys \cup Def \cup AvroSchemas
  /\ Null \notin Schemas \cup Metadata
  /\ allow_unkeyed \in BOOLEAN
  /\ {MaxDDL, MaxChanges, MaxRows, MaxChan, MaxExits} \subseteq Nat

VARIABLES
  \* The server
  catalog,         \* the definition of each table
  wal, wal_end,    \* row changes, each with the definition it was made under,
                   \* and how many there are
  slot,            \* the replication slot exists
  snap,            \* the definitions as the exported snapshot has them
  sent,            \* changes of the wal the session, or the slot, is past
  session,         \* what the server is doing for the client
  tables, current_table, rows, \* export_state: order, table at hand, rows read
  cache,           \* schema_cache of the session's process
  chan, chan_end,  \* messages sent and not yet processed, and how many
  \* The client
  reader,          \* the frame reader's list of schemas
  mapper,          \* the table mapper's metadata
  opts,            \* its options, as far as they decide on the format
  \* Outside
  registry,        \* the ids of the schemas registered, and the last of them
  kafka,           \* messages produced
  ddls, exits      \* counters of the bounds

\* The empty wal, channel or list of tables
Nothing == [i \in 1 .. 0 |-> Null]

db == <<catalog, wal, wal_end, ddls>>
channel == <<chan, chan_end>>
export == <<snap, tables, current_table, rows>>
client == <<reader, mapper>>
vars == <<catalog, wal, wal_end, slot, snap, sent, session, tables, current_table, rows,
          cache, chan, chan_end, reader, mapper, registry, kafka, ddls, exits, opts>>

Op == {"insert", "update", "rekey", "delete", "delete_unlogged"}
-----------------------------------------------------------------------------
(* The command line *)

\* The mapper asks for the registry, send_kafka_msg for the format
UseRegistry == opts.registry
Started == opts.phase = "run"

init_producer == [phase |-> "options", conninfo |-> FALSE, output_format |-> "avro", registry |-> FALSE]

set_output_format(format) ==
  opts' = IF format \in {"avro", "json"} THEN [opts EXCEPT !.output_format = format]
                                         ELSE [opts EXCEPT !.phase = "exited"]

\* One option: --postgres, --schema-registry, --output-format, or one that ends
\* the program (--config-help, a malformed or unknown one); the others have
\* nothing to do with the format
parse_option ==
  /\ opts.phase = "options"
  /\ \/ opts' = [opts EXCEPT !.conninfo = TRUE]
     \/ opts' = [opts EXCEPT !.registry = TRUE]
     \/ \E format \in {"avro", "json", "other"} : set_output_format(format)
     \/ opts' = [opts EXCEPT !.phase = "exited"]
  /\ UNCHANGED <<db, slot, sent, session, export, cache, channel, client, registry, kafka, exits>>

\* The end of the command line: Avro without a registry gets the default one
parse_options ==
  /\ opts.phase = "options"
  /\ opts' = IF ~ opts.conninfo \/ (opts.output_format = "json" /\ opts.registry)
               THEN [opts EXCEPT !.phase = "exited"]
               ELSE [opts EXCEPT !.phase = "run", !.registry = (opts.output_format = "avro")]
  /\ UNCHANGED <<db, slot, sent, session, export, cache, channel, client, registry, kafka, exits>>
-----------------------------------------------------------------------------
(* The server: schema cache and frames *)

\* Variant: a key that appears or disappears goes unnoticed
schema_cache_entry_changed_key(entry, d) ==
  \/ entry.relname # d.relname
  \/ entry.key # Null /\ d.key # Null /\ entry.key # d.key
  \/ entry.cols # d.cols \/ entry.attrs # d.attrs

schema_cache_entry_changed(entry, d) ==
  \/ entry.relname # d.relname
  \/ IF entry.key # Null /\ d.key # Null THEN entry.key # d.key
                                         ELSE entry.key # Null \/ d.key # Null
  \/ entry.cols # d.cols \/ entry.attrs # d.attrs

\* The entry for a table defined as d, and whether it is new or was replaced
schema_cache_lookup(r, d) ==
  LET changed == cache[r] = Null \/ schema_cache_entry_changed(cache[r], d)
  IN  [changed |-> changed, entry |-> IF changed THEN d ELSE cache[r]]

update_frame_with_table_schema(r, entry) ==
  [type |-> "schema", relid |-> r, key |-> schema_for_table_key(entry),
   val |-> schema_for_table_row(entry), def |-> entry]

\* One row message; def is the definition the row was made under (history)
RowMsg(type, r, key, val, d) ==
  [type |-> type, relid |-> r, key |-> key, val |-> val, def |-> d]

update_frame_with_insert(r, entry, d) ==
  RowMsg("insert", r, schema_for_table_key(entry), schema_for_table_row(entry), d)

\* An update that changes the key becomes a delete and, behind it, an insert
Rekeyed(entry, op) == op = "rekey" /\ schema_for_table_key(entry) # Null

update_frame_with_update(r, entry, d, rekeyed) ==
  IF rekeyed THEN update_frame_with_insert(r, entry, d)
             ELSE RowMsg("update", r, schema_for_table_key(entry), schema_for_table_row(entry), d)

\* Without the old tuple in the log there is no key to send
update_frame_with_delete(r, entry, d, logged) ==
  RowMsg("delete", r, IF logged THEN schema_for_table_key(entry) ELSE Null, Null, d)

\* The last message of the frame for a row change op
LastMsg(r, entry, d, op) ==
  CASE op = "insert" -> update_frame_with_insert(r, entry, d)
    [] op \in {"update", "rekey"} -> update_frame_with_update(r, entry, d, Rekeyed(entry, op))
    [] OTHER -> update_frame_with_delete(r, entry, d, op = "delete")

\* The frame goes behind what is under way: the schema first if it is needed,
\* then the one message of the row, or the two of a row whose key changes
write_frame(r, d, op) ==
  LET found == schema_cache_lookup(r, d)
      first == IF found.changed THEN chan_end + 2 ELSE chan_end + 1
      last  == IF Rekeyed(found.entry, op) THEN first + 1 ELSE first
  IN  /\ chan_end < MaxChan
      /\ cache' = [cache EXCEPT ![r] = found.entry]
      /\ chan_end' = last
      /\ chan' = [i \in 1 .. last |->
           IF i <= chan_end THEN chan[i]
           ELSE IF i < first THEN update_frame_with_table_schema(r, found.entry)
           ELSE IF i < last THEN update_frame_with_delete(r, found.entry, d, TRUE)
           ELSE LastMsg(r, found.entry, d, op)]

schema_cache_new == [r \in Relids |-> Null]
-----------------------------------------------------------------------------
(* The database *)

\* One command that renames the table, changes its columns, or adds, drops or
\* replaces its key.  A table being exported is locked against it.  What is
\* altered before the client starts is in the initial catalog.
AlterTable(r, d) ==
  /\ Started /\ session # "snapshot"
  /\ ddls < MaxDDL
  /\ \E f \in DOMAIN d : d # catalog[r] /\ d = [catalog[r] EXCEPT ![f] = d[f]]
  /\ catalog' = [catalog EXCEPT ![r] = d]
  /\ ddls' = ddls + 1
  /\ UNCHANGED <<wal, wal_end, slot, sent, session, export, cache, channel, client, registry,
                 kafka, exits, opts>>

\* A change made before there is a slot is not in the wal to be decoded
ChangeRow(r, op) ==
  /\ slot /\ wal_end < MaxChanges
  /\ wal_end' = wal_end + 1
  /\ wal' = [i \in 1 .. wal_end + 1 |->
       IF i <= wal_end THEN wal[i] ELSE [relid |-> r, def |-> catalog[r], op |-> op]]
  /\ UNCHANGED <<catalog, slot, sent, session, export, cache, channel, client, registry,
                 kafka, ddls, exits, opts>>
-----------------------------------------------------------------------------
(* Sessions *)

\* The snapshot and the state of the export end with the transaction
NoSnapshot == [r \in Relids |-> Null]
EndExport == snap' = NoSnapshot /\ tables' = Nothing /\ current_table' = 1 /\ rows' = 0
num_tables == Cardinality(Relids)

\* The process ends, and with it the session; a client that was taking its
\* snapshot may or may not have dropped the slot.
Exit ==
  /\ exits < MaxExits
  /\ exits' = exits + 1
  /\ session' = "none"
  /\ chan' = Nothing /\ chan_end' = 0
  /\ cache' = schema_cache_new
  /\ reader' = [r \in Relids |-> Null]
  /\ mapper' = [r \in Relids |-> Null]
  /\ slot' \in IF session \in {"created", "snapshot"} THEN BOOLEAN ELSE {slot}
  /\ EndExport
  /\ UNCHANGED <<db, sent, opts>>

CreateSlot ==
  /\ Started /\ session = "none" /\ ~ slot
  /\ slot' = TRUE
  /\ snap' = catalog
  /\ sent' = wal_end
  /\ session' = "created"
  /\ UNCHANGED <<db, tables, current_table, rows, cache, channel, client, registry, kafka,
                 exits, opts>>

\* The first call of bottledwater_export: the tables to export, in any order.
\* The query on the catalog sees the definitions of the snapshot, the tables
\* are opened, and locked, as they are now.  An unkeyed table is an error
\* unless it is allowed, and so is, in open_next_table, one renamed since.
get_table_list ==
  /\ session = "created"
  /\ allow_unkeyed \/ \A r \in Relids : snap[r].key # Null
  /\ \A r \in Relids : catalog[r].relname = snap[r].relname
  /\ tables' \in {t \in [1 .. num_tables -> Relids] :
                    \A i, j \in 1 .. num_tables : t[i] = t[j] => i = j}
  /\ current_table' = 1 /\ rows' = 0
  /\ session' = "snapshot"
  /\ cache' = schema_cache_new
  /\ UNCHANGED <<db, slot, snap, sent, channel, client, registry, kafka, exits, opts>>

\* A later call: one more row of the table at hand
format_snapshot_row ==
  /\ session = "snapshot" /\ current_table <= num_tables
  /\ rows < MaxRows
  /\ rows' = rows + 1
  /\ write_frame(tables[current_table], catalog[tables[current_table]], "insert")
  /\ UNCHANGED <<db, slot, sent, session, snap, tables, current_table, client, registry, kafka, exits, opts>>

\* The cursor has no more rows; the next table is opened
close_current_table ==
  /\ session = "snapshot" /\ current_table <= num_tables
  /\ current_table' = current_table + 1
  /\ rows' = 0
  /\ UNCHANGED <<db, slot, sent, session, snap, tables, cache, channel, client, registry, kafka, exits, opts>>

\* The client has had the last row of the snapshot, and asks for the stream.
\* The walsender has a cache of its own; the client keeps its schemas.
SnapshotDone ==
  /\ session = "snapshot" /\ current_table > num_tables /\ chan_end = 0
  /\ session' = "stream"
  /\ cache' = schema_cache_new
  /\ EndExport
  /\ UNCHANGED <<db, slot, sent, channel, client, registry, kafka, exits, opts>>

\* A restarted client streams from where the slot is, at or before what an
\* earlier session had sent
ResumeStream(from) ==
  /\ Started /\ session = "none" /\ slot
  /\ from <= sent
  /\ sent' = from
  /\ session' = "stream"
  /\ cache' = schema_cache_new
  /\ UNCHANGED <<db, slot, export, channel, client, registry, kafka, exits, opts>>

\* The output plugin decodes the next change, under the definition of its time
output_avro_change ==
  /\ session = "stream" /\ sent < wal_end
  /\ sent' = sent + 1
  /\ write_frame(wal[sent + 1].relid, wal[sent + 1].def, wal[sent + 1].op)
  /\ UNCHANGED <<db, slot, session, export, client, registry, kafka, exits, opts>>
-----------------------------------------------------------------------------
(* The client: table mapper and schema registry *)

Registered(reg, s) ==
  IF s = Null \/ reg.id[s] # TABLE_MAPPER_SCHEMA_ID_MISSING THEN reg
  ELSE [id |-> [reg.id EXCEPT ![s] = reg.last + 1], last |-> reg.last + 1]

\* The id the registry assigns, the same for the same schema; an absent
\* schema is not submitted
schema_registry_request(reg, s) ==
  IF s = Null THEN TABLE_MAPPER_SCHEMA_ID_MISSING ELSE Registered(reg, s).id[s]

\* Variant: an absent schema keeps the id of the one before it
table_metadata_update_schema_keep(id, schema, reg, s) ==
  LET schema_id == IF UseRegistry /\ s # Null THEN schema_registry_request(reg, s) ELSE id
  IN  [id |-> schema_id,
       schema |-> IF id = TABLE_MAPPER_SCHEMA_ID_MISSING \/ id # schema_id THEN s ELSE schema]

\* Variant: a schema that has not changed is not submitted, and its id is lost
table_metadata_update_schema_lost(id, schema, reg, s) ==
  LET schema_id == IF UseRegistry /\ s # schema THEN schema_registry_request(reg, s)
                                                ELSE TABLE_MAPPER_SCHEMA_ID_MISSING
  IN  [id |-> schema_id,
       schema |-> IF id = TABLE_MAPPER_SCHEMA_ID_MISSING \/ id # schema_id THEN s ELSE schema]

\* The id and the schema of a key or a row after an update with schema s; the
\* schema is only replaced if the id says it changed or there is no id
table_metadata_update_schema(id, schema, reg, s) ==
  LET schema_id == IF UseRegistry THEN schema_registry_request(reg, s)
                                  ELSE TABLE_MAPPER_SCHEMA_ID_MISSING
  IN  [id |-> schema_id,
       schema |-> IF id = TABLE_MAPPER_SCHEMA_ID_MISSING \/ id # schema_id THEN s ELSE schema]

table_metadata_new ==
  [topic |-> Null, key_schema |-> Null, row_schema |-> Null,
   key_schema_id |-> TABLE_MAPPER_SCHEMA_ID_MISSING,
   row_schema_id |-> TABLE_MAPPER_SCHEMA_ID_MISSING]

\* Variant: an open topic is kept when the table is renamed
table_metadata_update_topic_kept(topic, name) == IF topic = Null THEN name ELSE topic

\* The topic is opened under the table's name, anew if the name has changed
table_metadata_update_topic(topic, name) == IF topic = name THEN topic ELSE name

\* The metadata of a table after topic, key schema and row schema, in turn
table_mapper_update(r, key, row) ==
  LET old == IF mapper[r] = Null THEN table_metadata_new ELSE mapper[r]
      reg == IF UseRegistry THEN Registered(registry, key) ELSE registry
      k == table_metadata_update_schema(old.key_schema_id, old.key_schema, registry, key)
      v == table_metadata_update_schema(old.row_schema_id, old.row_schema, reg, row)
  IN  [topic |-> table_metadata_update_topic(old.topic, row.relname),
       key_schema_id |-> k.id, key_schema |-> k.schema,
       row_schema_id |-> v.id, row_schema |-> v.schema]

\* The first message of the channel is processed
TakeMessage ==
  /\ chan_end' = chan_end - 1
  /\ chan' = [i \in 1 .. chan_end - 1 |-> chan[i + 1]]

\* Variant: only the first schema of a table is kept
process_frame_table_schema_first ==
  /\ chan_end > 0 /\ chan[1].type = "schema"
  /\ LET m == chan[1]
     IN  /\ reader' = IF reader[m.relid] # Null THEN reader
                      ELSE [reader EXCEPT ![m.relid] = [key |-> m.key, row |-> m.val]]
         /\ mapper' = [mapper EXCEPT ![m.relid] = table_mapper_update(m.relid, m.key, m.val)]
         /\ registry' = IF UseRegistry THEN Registered(Registered(registry, m.key), m.val)
                                       ELSE registry
  /\ TakeMessage
  /\ UNCHANGED <<db, slot, sent, session, export, cache, kafka, exits, opts>>

\* schema_list_replace, and on_table_schema with all it calls
process_frame_table_schema ==
  /\ chan_end > 0 /\ chan[1].type = "schema"
  /\ LET m == chan[1]
     IN  /\ reader' = [reader EXCEPT ![m.relid] = [key |-> m.key, row |-> m.val]]
         /\ mapper' = [mapper EXCEPT ![m.relid] = table_mapper_update(m.relid, m.key, m.val)]
         /\ registry' = IF UseRegistry THEN Registered(Registered(registry, m.key), m.val)
                                       ELSE registry
  /\ TakeMessage
  /\ UNCHANGED <<db, slot, sent, session, export, cache, kafka, exits, opts>>

\* What a request that fails leaves: the registry has refused the schema, or
\* has registered it and its answer was lost, cut short or not understood
registry_parse_response_error(reg, s) == {reg, Registered(reg, s)}

\* The topic cannot be opened, or the request for the key or, after it, for the
\* row fails
table_mapper_error ==
  /\ chan_end > 0 /\ chan[1].type = "schema"
  /\ registry' \in IF UseRegistry
       THEN registry_parse_response_error(registry, chan[1].key)
            \cup registry_parse_response_error(Registered(registry, chan[1].key), chan[1].val)
       ELSE {registry}
  /\ Exit
  /\ UNCHANGED kafka

\* read_entirely succeeds for the key and for the row of m
Decodable(m) ==
  /\ reader[m.relid] # Null
  /\ m.key # Null => reader[m.relid].key = m.key
  /\ m.val # Null => reader[m.relid].row = m.val

\* schema_registry_encode_msg and json_encode_msg: what goes with the bytes
\* is the id of their schema, or the schema they are turned into JSON with
Encoded(bin, id, schema) ==
  [bin |-> bin, tag |-> IF opts.output_format = "avro" THEN id ELSE schema]

\* Variant: key and row schema are mixed up
send_kafka_msg_swapped(m) ==
  LET t == mapper[m.relid]
  IN  kafka' = kafka \cup
        {[topic |-> t.topic, def |-> m.def,
          key |-> Encoded(m.key, t.row_schema_id, t.row_schema),
          val |-> Encoded(m.val, t.key_schema_id, t.key_schema)]}

send_kafka_msg(m) ==
  LET t == mapper[m.relid]
  IN  kafka' = kafka \cup
        {[topic |-> t.topic, def |-> m.def,
          key |-> Encoded(m.key, t.key_schema_id, t.key_schema),
          val |-> Encoded(m.val, t.row_schema_id, t.row_schema)]}

\* A row message, and its callback.  A delete without key is dropped.
process_frame_row ==
  /\ chan_end > 0 /\ chan[1].type # "schema"
  /\ Decodable(chan[1]) /\ mapper[chan[1].relid] # Null
  /\ IF chan[1].type = "delete" /\ chan[1].key = Null
       THEN UNCHANGED kafka
       ELSE send_kafka_msg(chan[1])
  /\ TakeMessage
  /\ UNCHANGED <<db, slot, sent, session, export, cache, client, registry, exits, opts>>

\* The client dies, or is stopped, or loses a connection, or has the query or
\* the stream end in an error of the server
Stop ==
  /\ session # "none"
  /\ Exit
  /\ UNCHANGED <<registry, kafka>>
-----------------------------------------------------------------------------
NoSchemas ==
  [id |-> [s \in AvroSchemas |-> TABLE_MAPPER_SCHEMA_ID_MISSING], last |-> 0]

Init ==
  /\ catalog \in [Relids -> Def]
  /\ wal = Nothing /\ wal_end = 0
  /\ slot = FALSE /\ snap = NoSnapshot /\ sent = 0 /\ session = "none"
  /\ tables = Nothing /\ current_table = 1 /\ rows = 0
  /\ cache = schema_cache_new /\ chan = Nothing /\ chan_end = 0
  /\ reader = [r \in Relids |-> Null] /\ mapper = [r \in Relids |-> Null]
  /\ registry = NoSchemas /\ kafka = {} /\ ddls = 0 /\ exits = 0
  /\ opts = init_producer

Next ==
  \/ parse_option \/ parse_options
  \/ \E r \in Relids, d \in Def : AlterTable(r, d)
  \/ \E r \in Relids, op \in Op : ChangeRow(r, op)
  \/ CreateSlot \/ get_table_list \/ format_snapshot_row \/ close_current_table
  \/ SnapshotDone \/ output_avro_change
  \/ \E from \in 0 .. MaxChanges : ResumeStream(from)
  \/ process_frame_table_schema \/ table_mapper_error \/ process_frame_row
  \/ Stop

Spec == Init /\ [][Next]_vars
-----------------------------------------------------------------------------
(* Properties *)

Schema(d) == [key |-> schema_for_table_key(d), row |-> schema_for_table_row(d)]
Announced(m) == [key |-> m.key, row |-> m.val]

\* Message i of the channel announces a schema of table r
Announces(i, r) == chan[i].type = "schema" /\ chan[i].relid = r

\* The client will have schema s for r when it has processed n more messages:
\* the last of them for r announces it, or none does and it has it already
WillHave(r, n, s) ==
  \/ reader[r] = s /\ \A i \in 1 .. n : ~ Announces(i, r)
  \/ \E i \in 1 .. n : /\ Announces(i, r) /\ Announced(chan[i]) = s
                        /\ \A j \in i + 1 .. n : ~ Announces(j, r)

\* The cache on the server and the schemas of the client agree: what the
\* server believes to have announced is what the client has, or will have
\* once it has read what is under way, although the caches of the snapshot
\* and of the stream are different and the client's list outlives the first.
CacheCoherent ==
  \A r \in Relids : cache[r] # Null => WillHave(r, chan_end, Schema(cache[r]))

\* Every row under way will be decoded with the schema it was encoded with,
\* and that is the schema of the definition the row was made under.
RowsDecodable ==
  \A i \in 1 .. chan_end : chan[i].type # "schema" =>
    LET m == chan[i] IN
    /\ WillHave(m.relid, i - 1, Schema(m.def))
    /\ m.key \in {Null, schema_for_table_key(m.def)}
    /\ m.val \in {Null, schema_for_table_row(m.def)}

\* A consumer can read every message ever produced: its prefix, looked up in
\* the registry, or its JSON conversion, is by the schema of its bytes.
Readable(e) == e.bin # Null =>
  IF opts.output_format = "avro"
    THEN {s \in AvroSchemas : registry.id[s] = e.tag} = {e.bin}
    ELSE e.tag = e.bin
Published == \A m \in kafka : Readable(m.key) /\ Readable(m.val)

\* Every message is in the topic of the name its table had at the time, and
\* has the key of the table at the time, or none if it had none.
RightTopic ==
  \A m \in kafka : m.topic = m.def.relname /\ m.key.bin = schema_for_table_key(m.def)

\* The mapper's metadata follows the frame reader's, although with a registry
\* it only looks at ids: a table without key has no key schema and no key id.
MapperAgrees ==
  \A r \in Relids :
    /\ mapper[r] = Null <=> reader[r] = Null
    /\ mapper[r] # Null =>
         /\ mapper[r].key_schema = reader[r].key /\ mapper[r].row_schema = reader[r].row
         /\ UseRegistry => (mapper[r].key_schema_id = TABLE_MAPPER_SCHEMA_ID_MISSING
                              <=> reader[r].key = Null)

\* "Re-updating an already known relid with the same table name and schemas is
\* idempotent" (table_mapper.c): a schema that the client already has, sent
\* again because the session is new or the definition changed in something Avro
\* does not express, changes neither the metadata nor the registry.
Repeated == process_frame_table_schema /\ reader[chan[1].relid] = Announced(chan[1])
ReUpdateIdempotent == [][Repeated => UNCHANGED <<mapper, registry>>]_vars

\* "Allow export of tables that don't have a primary key. This is disallowed by
\* default" (bottledwater.c, usage): without the option no row without a key is
\* ever produced.
KeyedByDefault == ~ allow_unkeyed => \A m \in kafka : m.key.bin # Null
=============================================================================
