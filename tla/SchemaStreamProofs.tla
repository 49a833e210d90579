------------------------- MODULE SchemaStreamProofs -------------------------
(***************************************************************************)
(* Proofs about SchemaStream, for any number of tables, definitions and    *)
(* messages under way: the schema cache of the server and the schemas of   *)
(* the client agree, so every row is decoded, and published, with the      *)
(* schema it was encoded with.                                             *)
(***************************************************************************)
EXTENDS SchemaStream, TLAPS

Message ==
  [type : {"schema", "insert", "update", "delete"}, relid : Relids,
   key : KeySchemas \cup {Null}, val : RowSchemas \cup {Null}, def : Def]

Options ==
  [phase : {"options", "run", "exited"}, conninfo : BOOLEAN,
   output_format : {"avro", "json"}, registry : BOOLEAN]

Types ==
  /\ catalog \in [Relids -> Def]
  /\ wal_end \in Nat /\ wal \in [1 .. wal_end -> [relid : Relids, def : Def, op : Op]]
  /\ sent \in Nat
  /\ session = "snapshot" => tables \in [1 .. num_tables -> Relids]
  /\ current_table \in Nat \ {0}
  /\ cache \in [Relids -> Def \cup {Null}]
  /\ chan_end \in Nat /\ chan \in [1 .. chan_end -> Message]
  /\ reader \in [Relids -> Schemas \cup {Null}]
  /\ mapper \in [Relids -> Metadata \cup {Null}]
  /\ opts \in Options

\* Ids are given once, in increasing order
IsRegistry(reg) ==
  /\ reg \in [id : [AvroSchemas -> Int], last : Nat]
  /\ \A s \in AvroSchemas :
       reg.id[s] = TABLE_MAPPER_SCHEMA_ID_MISSING \/ (0 < reg.id[s] /\ reg.id[s] <= reg.last)
  /\ \A s, t \in AvroSchemas :
       reg.id[s] = reg.id[t] /\ reg.id[s] # TABLE_MAPPER_SCHEMA_ID_MISSING => s = t

\* Schema s is registered, with this id
HasId(s, id) == s \in AvroSchemas /\ registry.id[s] = id /\ id # TABLE_MAPPER_SCHEMA_ID_MISSING

\* What is under way: rows will be decoded with the schema of their definition
MessageInv(i) ==
  LET m == chan[i] IN
  IF m.type = "schema" THEN m.val # Null
  ELSE /\ WillHave(m.relid, i - 1, Schema(m.def))
       /\ m.key \in {Null, schema_for_table_key(m.def)}
       /\ m.val \in {Null, schema_for_table_row(m.def)}
       /\ m.type # "delete" => m.key = schema_for_table_key(m.def)
ChannelInv == \A i \in 1 .. chan_end : MessageInv(i)

\* The metadata of a table is that of the schema its reader has
MapperInv(r) ==
  /\ mapper[r] = Null <=> reader[r] = Null
  /\ mapper[r] # Null =>
       /\ mapper[r].topic = reader[r].row.relname
       /\ mapper[r].key_schema = reader[r].key
       /\ mapper[r].row_schema = reader[r].row
       /\ IF UseRegistry /\ reader[r].key # Null
            THEN HasId(reader[r].key, mapper[r].key_schema_id)
            ELSE mapper[r].key_schema_id = TABLE_MAPPER_SCHEMA_ID_MISSING
       /\ IF UseRegistry
            THEN HasId(reader[r].row, mapper[r].row_schema_id)
            ELSE mapper[r].row_schema_id = TABLE_MAPPER_SCHEMA_ID_MISSING

\* Nothing happens before the options are parsed, and Avro means a registry
OptionsInv ==
  /\ opts.phase = "run" => (opts.registry <=> opts.output_format = "avro")
  /\ opts.phase # "run" =>
       /\ session = "none" /\ chan_end = 0 /\ kafka = {}
       /\ \A r \in Relids : mapper[r] = Null

\* What has been produced carries the id of its schema, or the schema
Tagged(e) == e.bin # Null =>
  IF opts.output_format = "avro" THEN HasId(e.bin, e.tag) ELSE e.tag = e.bin
KafkaInv == \A m \in kafka : Tagged(m.key) /\ Tagged(m.val)

IInv ==
  /\ Types
  /\ IsRegistry(registry)
  /\ OptionsInv
  /\ ChannelInv
  /\ CacheCoherent
  /\ \A r \in Relids : MapperInv(r)
  /\ KafkaInv
  /\ RightTopic
-----------------------------------------------------------------------------
(* Definitions, schemas and the registry *)

\* The options stay options, and a client that runs has a registry if and only
\* if it writes Avro.
LEMMA ParseIs ==
  ASSUME opts \in Options, parse_option \/ parse_options
  PROVE  /\ opts' \in Options
         /\ opts'.phase = "run" => (opts'.registry <=> opts'.output_format = "avro")
  BY Zenon DEF parse_option, parse_options, set_output_format, Options

\* A client with messages to read is running.
LEMMA RunningIs ==
  ASSUME OptionsInv, chan_end > 0, opts' = opts
  PROVE  opts.phase = "run" /\ OptionsInv'
  BY DEF OptionsInv

\* The first message of the channel.
LEMMA FirstMessage ==
  ASSUME Types, ChannelInv, chan_end > 0
  PROVE  /\ chan_end \in Nat /\ 1 \in 1 .. chan_end
         /\ chan[1] \in Message /\ MessageInv(1)
  BY DEF Types, ChannelInv

\* The row schema has the name of its table.
LEMMA SchemaName ==
  ASSUME NEW d
  PROVE  Schema(d).row.relname = d.relname
  BY DEF Schema, schema_for_table_row

\* The schemas derived from a definition are schemas.
LEMMA SchemaTypes ==
  ASSUME NEW d \in Def
  PROVE  /\ schema_for_table_key(d) \in KeySchemas \cup {Null}
         /\ schema_for_table_row(d) \in RowSchemas
         /\ Schema(d) \in Schemas
  BY DEF Def, schema_for_table_key, schema_for_table_row, Schema, Schemas, KeySchemas, RowSchemas

\* schema_cache_lookup returns the definition it was asked for: an entry that
\* schema_cache_entry_changed passes as unchanged is equal to it.
LEMMA LookupIs ==
  ASSUME NEW r \in Relids, NEW d \in Def, cache \in [Relids -> Def \cup {Null}]
  PROVE  LET found == schema_cache_lookup(r, d) IN
         /\ found.entry = d
         /\ found.changed \in BOOLEAN
         /\ ~ found.changed => cache[r] = d
<1> DEFINE changed == cache[r] = Null \/ schema_cache_entry_changed(cache[r], d)
<1>1. ASSUME ~ changed PROVE cache[r] = d
  <2>1. cache[r] \in Def
    BY <1>1
  <2>2. /\ cache[r].relname = d.relname /\ cache[r].cols = d.cols
        /\ cache[r].attrs = d.attrs /\ cache[r].key = d.key
    BY <1>1 DEF schema_cache_entry_changed
  <2> QED
    BY <2>1, <2>2 DEF Def
<1>2. schema_cache_lookup(r, d) = [changed |-> changed, entry |-> IF changed THEN d ELSE cache[r]]
  BY DEF schema_cache_lookup
<1>3. changed \in BOOLEAN
  BY Zenon DEF schema_cache_entry_changed
<1> HIDE DEF changed
<1> QED
  BY <1>1, <1>2, <1>3

\* Registering a schema keeps the ids given before, and gives it an id of its
\* own unless it has one.
LEMMA RegisteredIs ==
  ASSUME NEW reg, IsRegistry(reg), NEW s \in AvroSchemas \cup {Null}
  PROVE  /\ IsRegistry(Registered(reg, s))
         /\ \A t \in AvroSchemas : reg.id[t] # TABLE_MAPPER_SCHEMA_ID_MISSING =>
              Registered(reg, s).id[t] = reg.id[t]
         /\ s # Null => Registered(reg, s).id[s] # TABLE_MAPPER_SCHEMA_ID_MISSING
         /\ s # Null => schema_registry_request(reg, s) = Registered(reg, s).id[s]
         /\ s = Null \/ reg.id[s] # TABLE_MAPPER_SCHEMA_ID_MISSING => Registered(reg, s) = reg
<1>1. CASE s = Null \/ reg.id[s] # TABLE_MAPPER_SCHEMA_ID_MISSING
  <2>1. Registered(reg, s) = reg
    BY <1>1 DEF Registered
  <2> QED
    BY <1>1, <2>1 DEF schema_registry_request
<1>2. CASE s # Null /\ reg.id[s] = TABLE_MAPPER_SCHEMA_ID_MISSING
  <2> DEFINE new == Registered(reg, s)
  <2>1. new = [id |-> [reg.id EXCEPT ![s] = reg.last + 1], last |-> reg.last + 1]
    BY <1>2 DEF Registered
  <2>2. s \in AvroSchemas
    BY <1>2
  <2>3. /\ reg.id \in [AvroSchemas -> Int] /\ reg.last \in Nat
    BY DEF IsRegistry
  <2>4. /\ new.id \in [AvroSchemas -> Int] /\ new.last = reg.last + 1
        /\ new.id[s] = reg.last + 1
        /\ \A t \in AvroSchemas \ {s} : new.id[t] = reg.id[t]
    BY <2>1, <2>2, <2>3
  <2>5. new \in [id : [AvroSchemas -> Int], last : Nat]
    BY <2>1, <2>2, <2>3
  <2> HIDE DEF new
  <2>6. \A t \in AvroSchemas :
          new.id[t] = TABLE_MAPPER_SCHEMA_ID_MISSING \/ (0 < new.id[t] /\ new.id[t] <= new.last)
    <3> TAKE t \in AvroSchemas
    <3>1. reg.id[t] = TABLE_MAPPER_SCHEMA_ID_MISSING \/ (0 < reg.id[t] /\ reg.id[t] <= reg.last)
      BY DEF IsRegistry
    <3>2. reg.id[t] \in Int
      BY <2>3
    <3> QED
      BY <2>3, <2>4, <3>1, <3>2
  <2>7. ASSUME NEW t \in AvroSchemas, NEW u \in AvroSchemas,
               new.id[t] = new.id[u], new.id[t] # TABLE_MAPPER_SCHEMA_ID_MISSING
        PROVE  t = u
    <3>1. \A w \in AvroSchemas : reg.id[w] \in Int /\ reg.id[w] < reg.last + 1
      <4> TAKE w \in AvroSchemas
      <4>1. reg.id[w] = TABLE_MAPPER_SCHEMA_ID_MISSING \/ (0 < reg.id[w] /\ reg.id[w] <= reg.last)
        BY DEF IsRegistry
      <4> QED
        BY <4>1, <2>3 DEF TABLE_MAPPER_SCHEMA_ID_MISSING
    <3>2. CASE t = s \/ u = s
      BY <3>1, <3>2, <2>4, <2>7, <2>3
    <3>3. CASE t # s /\ u # s
      BY <3>3, <2>4, <2>7, Zenon DEF IsRegistry
    <3> QED
      BY <3>2, <3>3
  <2>8. IsRegistry(new)
    BY <2>5, <2>6, <2>7, Zenon DEF IsRegistry
  <2>9. new.id[s] # TABLE_MAPPER_SCHEMA_ID_MISSING
    BY <2>4, <2>3 DEF TABLE_MAPPER_SCHEMA_ID_MISSING
  <2>10. \A t \in AvroSchemas : reg.id[t] # TABLE_MAPPER_SCHEMA_ID_MISSING => new.id[t] = reg.id[t]
    BY <2>4, <1>2
  <2>11. schema_registry_request(reg, s) = new.id[s]
    BY <1>2, Zenon DEF schema_registry_request, new
  <2> QED
    BY <1>2, <2>8, <2>9, <2>10, <2>11 DEF new
<1> QED
  BY <1>1, <1>2
-----------------------------------------------------------------------------
(* The channel *)

\* A frame: what is under way stays, the schema of the table's definition goes
\* before the row unless the cache says the client will have it, and every row
\* message carries the key and the row of that definition.
LEMMA FrameIs ==
  ASSUME Types, NEW r \in Relids, NEW d \in Def, NEW op \in Op, write_frame(r, d, op)
  PROVE  /\ cache' = [cache EXCEPT ![r] = d]
         /\ chan_end' \in Nat /\ chan' \in [1 .. chan_end' -> Message]
         /\ chan_end < chan_end'
         /\ \A i \in 1 .. chan_end : chan'[i] = chan[i]
         /\ \E first \in chan_end + 1 .. chan_end + 2 :
              /\ first <= chan_end'
              /\ first = chan_end + 1 => cache[r] = d
              /\ first = chan_end + 2 => /\ chan'[chan_end + 1].type = "schema"
                                         /\ chan'[chan_end + 1].relid = r
                                         /\ Announced(chan'[chan_end + 1]) = Schema(d)
                                         /\ chan'[chan_end + 1].val # Null
              /\ \A i \in first .. chan_end' :
                   /\ chan'[i].type # "schema" /\ chan'[i].relid = r /\ chan'[i].def = d
                   /\ chan'[i].key \in {Null, schema_for_table_key(d)}
                   /\ chan'[i].val \in {Null, schema_for_table_row(d)}
                   /\ chan'[i].type # "delete" => chan'[i].key = schema_for_table_key(d)
<1> DEFINE found == schema_cache_lookup(r, d)
           first == IF found.changed THEN chan_end + 2 ELSE chan_end + 1
           last == IF Rekeyed(d, op) THEN first + 1 ELSE first
           schema == update_frame_with_table_schema(r, d)
           delete == update_frame_with_delete(r, d, d, TRUE)
           row == LastMsg(r, d, d, op)
           msg(i) == IF i <= chan_end THEN chan[i]
                     ELSE IF i < first THEN schema
                     ELSE IF i < last THEN delete
                     ELSE row
<1>1. /\ found.entry = d /\ found.changed \in BOOLEAN
      /\ ~ found.changed => cache[r] = d
  BY LookupIs DEF Types
<1>2. /\ cache' = [cache EXCEPT ![r] = d]
      /\ chan_end' = last
      /\ chan' = [i \in 1 .. last |-> msg(i)]
  BY <1>1 DEF write_frame
<1>3. /\ chan_end \in Nat /\ chan \in [1 .. chan_end -> Message]
  BY Zenon DEF Types
<1>4. /\ first \in chan_end + 1 .. chan_end + 2 /\ first <= last /\ last \in Nat
      /\ first = chan_end + 1 => cache[r] = d
  BY <1>1, <1>3
<1> HIDE DEF found
<1> DEFINE RowOk(m) == /\ m \in Message
                       /\ m.type # "schema" /\ m.relid = r /\ m.def = d
                       /\ m.key \in {Null, schema_for_table_key(d)}
                       /\ m.val \in {Null, schema_for_table_row(d)}
                       /\ m.type # "delete" => m.key = schema_for_table_key(d)
<1>5. RowOk(delete) /\ RowOk(row)
  <2>1. \A logged \in BOOLEAN : RowOk(update_frame_with_delete(r, d, d, logged))
    BY SchemaTypes, Zenon DEF update_frame_with_delete, RowMsg, Message
  <2>2. RowOk(update_frame_with_insert(r, d, d))
    BY SchemaTypes, Zenon DEF update_frame_with_insert, RowMsg, Message
  <2>3. \A rekeyed \in BOOLEAN : RowOk(update_frame_with_update(r, d, d, rekeyed))
    BY <2>2, SchemaTypes DEF update_frame_with_update, RowMsg, Message
  <2>4. Rekeyed(d, op) \in BOOLEAN /\ (op = "delete") \in BOOLEAN
    BY DEF Rekeyed
  <2> HIDE DEF RowOk
  <2>5. \/ LastMsg(r, d, d, op) = update_frame_with_insert(r, d, d)
        \/ LastMsg(r, d, d, op) = update_frame_with_update(r, d, d, Rekeyed(d, op))
        \/ LastMsg(r, d, d, op) = update_frame_with_delete(r, d, d, op = "delete")
    BY DEF LastMsg, Op
  <2> QED
    BY <2>1, <2>2, <2>3, <2>4, <2>5, Zenon
<1>6. /\ schema \in Message /\ schema.type = "schema" /\ schema.relid = r
      /\ Announced(schema) = Schema(d) /\ schema.val # Null
  BY SchemaTypes, SchemaAssumption, Zenon
  DEF update_frame_with_table_schema, Message, Announced, Schema, AvroSchemas
<1> HIDE DEF RowOk, first, last, schema, delete, row
<1>7. \A i \in 1 .. chan_end : msg(i) = chan[i]
  BY <1>3, <1>4
<1>8. first = chan_end + 2 => msg(chan_end + 1) = schema
  BY <1>3, <1>4
<1>9. \A i \in first .. last : msg(i) \in {delete, row}
  BY <1>3, <1>4
<1> HIDE DEF msg
<1>10. \A i \in 1 .. last : i \in 1 .. chan_end \/ (i = chan_end + 1 /\ first = chan_end + 2) \/ i \in first .. last
  BY <1>3, <1>4
<1>11. \A i \in 1 .. last : msg(i) \in Message
  <2> TAKE i \in 1 .. last
  <2>1. CASE i \in 1 .. chan_end
    BY <2>1, <1>3, <1>7, Zenon
  <2>2. CASE i = chan_end + 1 /\ first = chan_end + 2
    BY <2>2, <1>6, <1>8, Zenon
  <2>3. CASE i \in first .. last
    BY <2>3, <1>5, <1>9, Zenon DEF RowOk
  <2> QED
    BY <2>1, <2>2, <2>3, <1>10, Zenon
<1>12. \A i \in first .. last : RowOk(chan'[i])
  <2> TAKE i \in first .. last
  <2>1. i \in 1 .. last
    BY <1>3, <1>4
  <2>2. chan'[i] = msg(i)
    BY <1>2, <2>1, Zenon
  <2> QED
    BY <2>2, <1>5, <1>9
<1>13. \A i \in 1 .. chan_end : chan'[i] = chan[i]
  <2> TAKE i \in 1 .. chan_end
  <2>1. i \in 1 .. last
    BY <1>3, <1>4
  <2> QED
    BY <1>2, <1>7, <2>1, Zenon
<1>14. first = chan_end + 2 => chan'[chan_end + 1] = schema
  <2> HAVE first = chan_end + 2
  <2>1. chan_end + 1 \in 1 .. last
    BY <1>3, <1>4
  <2> QED
    BY <1>2, <1>8, <2>1
<1>15. chan' \in [1 .. chan_end' -> Message] /\ chan_end' \in Nat
  BY <1>2, <1>4, <1>11, Zenon
<1>16. chan_end < chan_end' /\ first <= chan_end'
  BY <1>2, <1>3, <1>4
<1>17. \A i \in first .. chan_end' : RowOk(chan'[i])
  BY <1>2, <1>12, Zenon
<1> QED
  BY <1>2, <1>4, <1>6, <1>13, <1>14, <1>15, <1>16, <1>17 DEF RowOk

\* What the client will have after n messages it will have after more of them
\* that announce nothing for the table.
LEMMA WillHaveMore ==
  ASSUME NEW q, NEW s, NEW n \in Nat, NEW m \in Nat, n <= m,
         WillHave(q, n, s)', \A i \in n + 1 .. m : ~ Announces(i, q)'
  PROVE  WillHave(q, m, s)'
<1>1. \A i \in 1 .. m : i \in 1 .. n \/ i \in n + 1 .. m
  OBVIOUS
<1>2. CASE reader'[q] = s /\ \A i \in 1 .. n : ~ Announces(i, q)'
  BY <1>1, <1>2, Zenon DEF WillHave
<1>3. CASE \E i \in 1 .. n : /\ Announces(i, q)' /\ Announced(chan'[i]) = s
                             /\ \A j \in i + 1 .. n : ~ Announces(j, q)'
  <2>1. PICK i \in 1 .. n : /\ Announces(i, q)' /\ Announced(chan'[i]) = s
                            /\ \A j \in i + 1 .. n : ~ Announces(j, q)'
    BY <1>3
  <2>2. \A j \in i + 1 .. m : j \in i + 1 .. n \/ j \in n + 1 .. m
    OBVIOUS
  <2>3. i \in 1 .. m /\ \A j \in i + 1 .. m : ~ Announces(j, q)'
    BY <2>1, <2>2
  <2> QED
    BY <2>1, <2>3, Zenon DEF WillHave
<1> QED
  BY <1>2, <1>3 DEF WillHave

\* Sending a frame behind what is under way changes nothing about that.
LEMMA WillHaveStays ==
  ASSUME NEW q, NEW s, NEW n \in Nat, chan_end \in Nat, n <= chan_end,
         reader' = reader, \A i \in 1 .. chan_end : chan'[i] = chan[i],
         WillHave(q, n, s)
  PROVE  WillHave(q, n, s)'
<1>1. \A i \in 1 .. n : i \in 1 .. chan_end
  OBVIOUS
<1>2. \A i \in 1 .. n : chan'[i] = chan[i] /\ (Announces(i, q)' <=> Announces(i, q))
  BY <1>1 DEF Announces
<1>3. CASE reader[q] = s /\ \A i \in 1 .. n : ~ Announces(i, q)
  BY <1>2, <1>3, Zenon DEF WillHave
<1>4. CASE \E i \in 1 .. n : /\ Announces(i, q) /\ Announced(chan[i]) = s
                             /\ \A j \in i + 1 .. n : ~ Announces(j, q)
  <2>1. PICK i \in 1 .. n : /\ Announces(i, q) /\ Announced(chan[i]) = s
                            /\ \A j \in i + 1 .. n : ~ Announces(j, q)
    BY <1>4, Zenon
  <2>2. \A j \in i + 1 .. n : j \in 1 .. n
    OBVIOUS
  <2>3. /\ Announces(i, q)' /\ Announced(chan'[i]) = s
        /\ \A j \in i + 1 .. n : ~ Announces(j, q)'
    BY <1>2, <2>1, <2>2, Zenon
  <2> QED
    BY <2>3, Zenon DEF WillHave
<1> QED
  BY <1>3, <1>4, Zenon DEF WillHave

\* Processing the first message brings the client one message nearer to what it
\* will have, whether that message is a row or a schema.
LEMMA WillHaveSooner ==
  ASSUME Types, chan_end > 0, TakeMessage,
         reader' = IF chan[1].type = "schema"
                     THEN [reader EXCEPT ![chan[1].relid] = Announced(chan[1])]
                     ELSE reader,
         NEW q \in Relids, NEW s, NEW n \in 1 .. chan_end, WillHave(q, n, s)
  PROVE  WillHave(q, n - 1, s)'
<1>1. chan_end \in Nat /\ chan \in [1 .. chan_end -> Message] /\ reader \in [Relids -> Schemas \cup {Null}]
  BY DEF Types
<1>2. \A i \in 1 .. n - 1 : i \in 1 .. chan_end - 1 /\ i + 1 \in 1 .. n
  BY <1>1
<1>3. \A i \in 1 .. n - 1 : chan'[i] = chan[i + 1]
  BY <1>2, Zenon DEF TakeMessage
<1>4. \A i \in 1 .. n - 1 : Announces(i, q)' <=> Announces(i + 1, q)
  BY <1>3, Zenon DEF Announces
<1>5. ~ Announces(1, q) => reader'[q] = reader[q]
  BY <1>1 DEF Announces
<1>6. Announces(1, q) => reader'[q] = Announced(chan[1])
  BY <1>1, Zenon DEF Announces
<1>7. CASE reader[q] = s /\ \A i \in 1 .. n : ~ Announces(i, q)
  <2>1. 1 \in 1 .. n
    BY <1>1
  <2>2. reader'[q] = s
    BY <1>5, <1>7, <2>1, Zenon
  <2>3. \A i \in 1 .. n - 1 : ~ Announces(i, q)'
    BY <1>2, <1>4, <1>7, Zenon
  <2> QED
    BY <2>2, <2>3, Zenon DEF WillHave
<1>8. CASE \E i \in 1 .. n : /\ Announces(i, q) /\ Announced(chan[i]) = s
                             /\ \A j \in i + 1 .. n : ~ Announces(j, q)
  <2>1. PICK i \in 1 .. n : /\ Announces(i, q) /\ Announced(chan[i]) = s
                            /\ \A j \in i + 1 .. n : ~ Announces(j, q)
    BY <1>8, Zenon
  <2>2. CASE i = 1
    <3>1. reader'[q] = s
      BY <1>6, <2>1, <2>2, Zenon
    <3>2. \A j \in 1 .. n - 1 : j + 1 \in i + 1 .. n
      BY <2>2
    <3>3. \A j \in 1 .. n - 1 : ~ Announces(j, q)'
      BY <1>4, <2>1, <3>2, Zenon
    <3> QED
      BY <3>1, <3>3, Zenon DEF WillHave
  <2>3. CASE i # 1
    <3>1. i - 1 \in 1 .. n - 1 /\ (i - 1) + 1 = i
      BY <2>3
    <3>2. Announces(i - 1, q)' /\ Announced(chan'[i - 1]) = s
      BY <1>3, <1>4, <2>1, <3>1, Zenon
    <3>3. \A j \in (i - 1) + 1 .. n - 1 : j \in 1 .. n - 1 /\ j + 1 \in i + 1 .. n
      OBVIOUS
    <3>4. \A j \in (i - 1) + 1 .. n - 1 : ~ Announces(j, q)'
      BY <1>4, <2>1, <3>3, Zenon
    <3> QED
      BY <3>1, <3>2, <3>4, Zenon DEF WillHave
  <2> QED
    BY <2>2, <2>3
<1> QED
  BY <1>7, <1>8, Zenon DEF WillHave

\* A frame of table r keeps the server's cache and the client's schemas in
\* agreement, and its rows decodable.
LEMMA FrameStep ==
  ASSUME Types, ChannelInv, CacheCoherent, reader' = reader,
         NEW r \in Relids, NEW d \in Def, NEW op \in Op, write_frame(r, d, op)
  PROVE  ChannelInv' /\ CacheCoherent'
<1>1. /\ cache' = [cache EXCEPT ![r] = d]
      /\ chan_end' \in Nat /\ chan' \in [1 .. chan_end' -> Message]
      /\ chan_end < chan_end'
      /\ \A i \in 1 .. chan_end : chan'[i] = chan[i]
  BY FrameIs
<1>2. PICK first \in chan_end + 1 .. chan_end + 2 :
              /\ first <= chan_end'
              /\ first = chan_end + 1 => cache[r] = d
              /\ first = chan_end + 2 => /\ chan'[chan_end + 1].type = "schema"
                                         /\ chan'[chan_end + 1].relid = r
                                         /\ Announced(chan'[chan_end + 1]) = Schema(d)
                                         /\ chan'[chan_end + 1].val # Null
              /\ \A i \in first .. chan_end' :
                   /\ chan'[i].type # "schema" /\ chan'[i].relid = r /\ chan'[i].def = d
                   /\ chan'[i].key \in {Null, schema_for_table_key(d)}
                   /\ chan'[i].val \in {Null, schema_for_table_row(d)}
                   /\ chan'[i].type # "delete" => chan'[i].key = schema_for_table_key(d)
  BY FrameIs
<1>3. chan_end \in Nat /\ cache \in [Relids -> Def \cup {Null}]
  BY DEF Types
<1>n. PICK n \in Nat : n = chan_end
  BY <1>3, Zenon
<1>4. WillHave(r, first - 1, Schema(d))'
  <2>1. CASE first = chan_end + 1
    <3>1. cache[r] = d /\ d # Null
      BY <1>2, <2>1, SchemaAssumption, Zenon
    <3>2. WillHave(r, n, Schema(d))
      BY <1>n, <3>1, Zenon DEF CacheCoherent
    <3>3. WillHave(r, n, Schema(d))'
      BY <1>1, <1>n, <3>2, WillHaveStays
    <3> QED
      BY <1>n, <2>1, <3>3
  <2>2. CASE first = chan_end + 2
    <3>1. Announces(n + 1, r)' /\ Announced(chan'[n + 1]) = Schema(d)
      BY <1>2, <1>n, <2>2, Zenon DEF Announces
    <3>2. first - 1 = n + 1 /\ n + 1 \in 1 .. first - 1
      BY <1>n, <2>2
    <3>3. \A j \in (n + 1) + 1 .. first - 1 : FALSE
      BY <1>n, <2>2
    <3> QED
      BY <3>1, <3>2, <3>3, Zenon DEF WillHave
  <2> QED
    BY <1>2, <1>3, <2>1, <2>2
<1>5. ASSUME NEW m \in Nat, first - 1 <= m, m <= chan_end'
      PROVE  WillHave(r, m, Schema(d))'
  <2>1. first - 1 \in Nat /\ \A i \in (first - 1) + 1 .. m : i \in first .. chan_end'
    BY <1>1, <1>2, <1>3, <1>5
  <2>2. \A i \in (first - 1) + 1 .. m : ~ Announces(i, r)'
    BY <1>2, <2>1, Zenon DEF Announces
  <2> QED
    BY <1>4, <1>5, <2>1, <2>2, WillHaveMore, Zenon
<1>6. \A i \in 1 .. chan_end' : \/ i \in 1 .. chan_end
                                \/ i = chan_end + 1 /\ first = chan_end + 2
                                \/ i \in first .. chan_end'
  BY <1>1, <1>2, <1>3
<1>7. ASSUME NEW i \in 1 .. chan_end'
      PROVE  MessageInv(i)'
  <2>1. CASE i \in 1 .. chan_end
    <3>1. chan'[i] = chan[i] /\ MessageInv(i)
      BY <1>1, <2>1, Zenon DEF ChannelInv
    <3>2. CASE chan[i].type = "schema"
      BY <3>1, <3>2, Zenon DEF MessageInv
    <3>3. CASE chan[i].type # "schema"
      <4>1. PICK m : m = chan[i]
        BY Zenon
      <4>2. WillHave(m.relid, i - 1, Schema(m.def))
        BY <3>1, <3>3, <4>1, Zenon DEF MessageInv
      <4>3. i - 1 \in Nat /\ i - 1 <= chan_end
        BY <1>3, <2>1
      <4>4. WillHave(m.relid, i - 1, Schema(m.def))'
        BY <1>1, <1>3, <4>2, <4>3, WillHaveStays, Zenon
      <4>5. chan'[i] = m
        BY <3>1, <4>1, Zenon
      <4> QED
        BY <3>1, <3>3, <4>1, <4>4, <4>5, Zenon DEF MessageInv
    <3> QED
      BY <3>2, <3>3, Zenon
  <2>2. CASE i = chan_end + 1 /\ first = chan_end + 2
    BY <1>2, <2>2, Zenon DEF MessageInv
  <2>3. CASE i \in first .. chan_end'
    <3>1. i - 1 \in Nat /\ first - 1 <= i - 1 /\ i - 1 <= chan_end'
      BY <1>1, <1>2, <1>3, <2>3
    <3>2. WillHave(r, i - 1, Schema(d))'
      BY <1>5, <3>1
    <3> QED
      BY <1>2, <2>3, <3>2, Zenon DEF MessageInv
  <2> QED
    BY <1>6, <2>1, <2>2, <2>3, Zenon
<1>8. ASSUME NEW q \in Relids, cache'[q] # Null
      PROVE  WillHave(q, chan_end, Schema(cache[q]))'
  <2>1. CASE q = r
    <3>1. cache'[q] = d
      BY <1>1, <1>3, <2>1, Zenon
    <3>2. chan_end' \in Nat /\ first - 1 <= chan_end' /\ chan_end' <= chan_end'
      BY <1>1, <1>2, <1>3
    <3>3. \A m \in Nat : m = chan_end' => WillHave(r, m, Schema(d))'
      BY <1>5, <3>2, Zenon
    <3> QED
      BY <2>1, <3>1, <3>2, <3>3, Zenon DEF WillHave
  <2>2. CASE q # r
    <3>1. cache'[q] = cache[q]
      BY <1>1, <1>3, <2>2, Zenon
    <3>3. PICK m \in Nat : m = chan_end'
      BY <1>1, Zenon
    <3>4. PICK s : s = Schema(cache[q])
      BY Zenon
    <3>5. WillHave(q, n, s)
      BY <1>8, <3>1, <1>n, <3>4, Zenon DEF CacheCoherent
    <3>6. WillHave(q, n, s)'
      BY <1>1, <1>n, <3>5, WillHaveStays
    <3>7. /\ n <= m
          /\ \A i \in n + 1 .. m : \/ i = chan_end + 1 /\ first = chan_end + 2
                                   \/ i \in first .. chan_end'
      BY <1>1, <1>2, <1>n, <3>3
    <3>8. \A i \in n + 1 .. m : ~ Announces(i, q)'
      BY <1>2, <2>2, <3>7, Zenon DEF Announces
    <3>9. WillHave(q, m, s)'
      BY <3>6, <3>7, <3>8, WillHaveMore, Zenon
    <3>10. Schema(cache'[q]) = s
      BY <3>1, <3>4, Zenon
    <3> QED
      BY <3>3, <3>9, <3>10, Zenon DEF WillHave, Schema
  <2> QED
    BY <2>1, <2>2, Zenon
<1> QED
  BY <1>7, <1>8, Zenon DEF ChannelInv, CacheCoherent

\* Processing a message keeps the rest of the channel as it has to be.
LEMMA TakeStep ==
  ASSUME Types, ChannelInv, CacheCoherent, chan_end > 0, TakeMessage, cache' = cache,
         reader' = IF chan[1].type = "schema"
                     THEN [reader EXCEPT ![chan[1].relid] = Announced(chan[1])]
                     ELSE reader
  PROVE  /\ chan_end' \in Nat /\ chan' \in [1 .. chan_end' -> Message]
         /\ ChannelInv' /\ CacheCoherent'
<1>1. chan_end \in Nat /\ chan \in [1 .. chan_end -> Message]
  BY Zenon DEF Types
<1>2. chan_end' = chan_end - 1 /\ chan' = [i \in 1 .. chan_end - 1 |-> chan[i + 1]]
  BY Zenon DEF TakeMessage
<1>3. \A i \in 1 .. chan_end - 1 : i + 1 \in 1 .. chan_end /\ chan'[i] = chan[i + 1]
  BY <1>1, <1>2
<1>4. chan_end' \in Nat /\ chan' \in [1 .. chan_end' -> Message]
  BY <1>1, <1>2, <1>3
<1>5. ASSUME NEW i \in 1 .. chan_end'
      PROVE  MessageInv(i)'
  <2>1. i \in 1 .. chan_end - 1 /\ i + 1 \in 1 .. chan_end /\ i \in 1 .. chan_end /\ (i + 1) - 1 = i
    BY <1>1, <1>2
  <2>2. PICK m : m = chan[i + 1]
    BY Zenon
  <2>3. chan'[i] = m /\ MessageInv(i + 1) /\ m \in Message
    BY <1>1, <1>3, <2>1, <2>2, Zenon DEF ChannelInv
  <2>4. CASE m.type = "schema"
    BY <2>2, <2>3, <2>4, Zenon DEF MessageInv
  <2>5. CASE m.type # "schema"
    <3>1. WillHave(m.relid, i, Schema(m.def))
      BY <2>1, <2>2, <2>3, <2>5, Zenon DEF MessageInv
    <3>2. m.relid \in Relids
      BY <2>3, Zenon DEF Message
    <3>3. WillHave(m.relid, i - 1, Schema(m.def))'
      BY <2>1, <3>1, <3>2, WillHaveSooner, Zenon
    <3>4. /\ m.key \in {Null, schema_for_table_key(m.def)}
          /\ m.val \in {Null, schema_for_table_row(m.def)}
          /\ m.type # "delete" => m.key = schema_for_table_key(m.def)
      BY <2>2, <2>3, <2>5, Zenon DEF MessageInv
    <3> QED
      BY <2>3, <2>5, <3>3, <3>4, Zenon DEF MessageInv
  <2> QED
    BY <2>4, <2>5, Zenon
<1>6. ASSUME NEW q \in Relids, cache'[q] # Null
      PROVE  WillHave(q, chan_end, Schema(cache[q]))'
  <2>1. PICK n \in 1 .. chan_end : n = chan_end
    BY <1>1
  <2>2. PICK s : s = Schema(cache[q])
    BY Zenon
  <2>3. WillHave(q, n, s)
    BY <1>6, <2>1, <2>2, Zenon DEF CacheCoherent
  <2>4. WillHave(q, n - 1, s)'
    BY <2>3, WillHaveSooner, Zenon
  <2>5. n - 1 = chan_end' /\ Schema(cache'[q]) = s
    BY <1>2, <2>1, <2>2, Zenon
  <2> QED
    BY <2>4, <2>5, Zenon DEF WillHave, Schema
<1> QED
  BY <1>4, <1>5, <1>6, Zenon DEF ChannelInv, CacheCoherent
-----------------------------------------------------------------------------
(* The table mapper *)

\* table_metadata_update_schema ends with the schema it is given, although it
\* only compares ids: an id that did not change means the same schema.
LEMMA UpdateSchemaIs ==
  ASSUME NEW reg, IsRegistry(reg), NEW s \in AvroSchemas \cup {Null}, NEW id, NEW schema,
         UseRegistry \in BOOLEAN,
         IF UseRegistry /\ schema # Null
           THEN /\ schema \in AvroSchemas /\ reg.id[schema] = id
                /\ id # TABLE_MAPPER_SCHEMA_ID_MISSING
           ELSE id = TABLE_MAPPER_SCHEMA_ID_MISSING
  PROVE  LET u == table_metadata_update_schema(id, schema, reg, s) IN
         /\ u.schema = s
         /\ u.id = IF UseRegistry /\ s # Null THEN Registered(reg, s).id[s]
                                              ELSE TABLE_MAPPER_SCHEMA_ID_MISSING
<1> DEFINE new == IF UseRegistry THEN schema_registry_request(reg, s)
                                 ELSE TABLE_MAPPER_SCHEMA_ID_MISSING
<1>1. table_metadata_update_schema(id, schema, reg, s) =
        [id |-> new,
         schema |-> IF id = TABLE_MAPPER_SCHEMA_ID_MISSING \/ id # new THEN s ELSE schema]
  BY Zenon DEF table_metadata_update_schema
<1>2. new = IF UseRegistry /\ s # Null THEN Registered(reg, s).id[s]
                                       ELSE TABLE_MAPPER_SCHEMA_ID_MISSING
  <2>1. CASE s = Null
    BY <2>1 DEF schema_registry_request
  <2>2. CASE s # Null
    BY <2>2, RegisteredIs, Zenon
  <2> QED
    BY <2>1, <2>2, Zenon
<1>3. ASSUME id # TABLE_MAPPER_SCHEMA_ID_MISSING, id = new
      PROVE  schema = s
  <2>1. UseRegistry /\ s # Null /\ schema \in AvroSchemas /\ reg.id[schema] = id
    BY <1>2, <1>3
  <2>2. Registered(reg, s).id[schema] = id /\ IsRegistry(Registered(reg, s))
    BY <1>3, <2>1, RegisteredIs, Zenon
  <2>3. Registered(reg, s).id[s] = id /\ s \in AvroSchemas
    BY <1>2, <1>3, <2>1, Zenon
  <2> QED
    BY <1>3, <2>1, <2>2, <2>3, Zenon DEF IsRegistry
<1> HIDE DEF new
<1> QED
  BY <1>1, <1>2, <1>3

\* Schemas keep the ids they have
Grows ==
  /\ IsRegistry(registry')
  /\ \A s \in AvroSchemas : registry.id[s] # TABLE_MAPPER_SCHEMA_ID_MISSING =>
       registry'.id[s] = registry.id[s]

\* Ids once given stay.
LEMMA HasIdStays ==
  ASSUME Grows, NEW s, NEW id, HasId(s, id)
  PROVE  HasId(s, id)'
  BY DEF Grows, HasId

\* What was produced stays readable as the registry grows.
LEMMA KafkaStays ==
  ASSUME Grows, KafkaInv, opts' = opts, kafka' = kafka
  PROVE  KafkaInv'
<1>1. ASSUME NEW e, Tagged(e) PROVE Tagged(e)'
  BY <1>1, HasIdStays, Zenon DEF Tagged
<1> QED
  BY <1>1, Zenon DEF KafkaInv

\* table_mapper_update leaves the metadata of the table in agreement with the
\* schema that process_frame_table_schema has stored, and no other touched.
LEMMA UpdateStep ==
  ASSUME Types, ChannelInv, IsRegistry(registry), \A r \in Relids : MapperInv(r),
         process_frame_table_schema
  PROVE  /\ reader' \in [Relids -> Schemas \cup {Null}]
         /\ mapper' \in [Relids -> Metadata \cup {Null}]
         /\ Grows
         /\ \A r \in Relids : MapperInv(r)'
         /\ reader[chan[1].relid] = Announced(chan[1]) => UNCHANGED <<mapper, registry>>
<1> DEFINE m == chan[1]
           q == m.relid
           old == IF mapper[q] = Null THEN table_metadata_new ELSE mapper[q]
           reg == IF UseRegistry THEN Registered(registry, m.key) ELSE registry
           k == table_metadata_update_schema(old.key_schema_id, old.key_schema, registry, m.key)
           v == table_metadata_update_schema(old.row_schema_id, old.row_schema, reg, m.val)
           new == [topic |-> m.val.relname,
                   key_schema_id |-> k.id, key_schema |-> k.schema,
                   row_schema_id |-> v.id, row_schema |-> v.schema]
<1> HIDE DEF m, q, old, reg, k, v, new
<1>1. /\ chan_end > 0 /\ chan_end \in Nat /\ 1 \in 1 .. chan_end
      /\ m \in Message /\ MessageInv(1) /\ m.type = "schema"
      /\ reader \in [Relids -> Schemas \cup {Null}] /\ mapper \in [Relids -> Metadata \cup {Null}]
      /\ UseRegistry \in BOOLEAN
  <2>1. chan_end > 0 /\ m.type = "schema"
    BY Zenon DEF process_frame_table_schema, m
  <2>2. UseRegistry \in BOOLEAN
    BY Zenon DEF Types, Options, UseRegistry
  <2> QED
    BY <2>1, <2>2, FirstMessage, Zenon DEF Types, m
<1>2. /\ q \in Relids /\ m.key \in KeySchemas \cup {Null} /\ m.val \in RowSchemas
      /\ m.key \in AvroSchemas \cup {Null} /\ m.val \in AvroSchemas /\ m.val # Null
  BY <1>1, SchemaAssumption DEF Message, MessageInv, AvroSchemas, q, m
<1>3. table_mapper_update(q, m.key, m.val) = new
  BY Zenon DEF table_mapper_update, table_metadata_update_topic, new, k, v, reg, old
<1>4. /\ reader' = [reader EXCEPT ![q] = Announced(m)]
      /\ mapper' = [mapper EXCEPT ![q] = new]
      /\ registry' = IF UseRegistry THEN Registered(reg, m.val) ELSE registry
      /\ opts' = opts
  <2>1. reader' = [reader EXCEPT ![q] = Announced(m)] /\ mapper' = [mapper EXCEPT ![q] = new]
    BY <1>3, Zenon DEF process_frame_table_schema, Announced, m, q
  <2>2. registry' = IF UseRegistry THEN Registered(reg, m.val) ELSE registry
    BY Zenon DEF process_frame_table_schema, m, reg
  <2>3. opts' = opts
    BY Zenon DEF process_frame_table_schema
  <2> QED
    BY <2>1, <2>2, <2>3
<1>5. /\ IsRegistry(reg)
      /\ \A s \in AvroSchemas : registry.id[s] # TABLE_MAPPER_SCHEMA_ID_MISSING =>
           reg.id[s] = registry.id[s]
      /\ UseRegistry /\ m.key # Null => reg.id[m.key] # TABLE_MAPPER_SCHEMA_ID_MISSING
  BY <1>1, <1>2, RegisteredIs DEF reg
<1>6. Grows
  <2>1. CASE UseRegistry
    <3>1. IsRegistry(registry')
      BY <1>2, <1>4, <1>5, <2>1, RegisteredIs, Zenon
    <3>2. ASSUME NEW s \in AvroSchemas, registry.id[s] # TABLE_MAPPER_SCHEMA_ID_MISSING
          PROVE  registry'.id[s] = registry.id[s]
      <4>1. reg.id[s] = registry.id[s]
        BY <1>5, <3>2, Zenon
      <4>2. Registered(reg, m.val).id[s] = reg.id[s]
        BY <1>2, <1>5, <3>2, <4>1, RegisteredIs
      <4> QED
        BY <1>4, <2>1, <4>1, <4>2, Zenon
    <3> QED
      BY <3>1, <3>2, Zenon DEF Grows
  <2>2. CASE ~ UseRegistry
    BY <1>4, <2>2, Zenon DEF Grows
  <2> QED
    BY <2>1, <2>2
<1>7. /\ k.schema = m.key
      /\ k.id = IF UseRegistry /\ m.key # Null THEN reg.id[m.key]
                                               ELSE TABLE_MAPPER_SCHEMA_ID_MISSING
  <2>1. IF UseRegistry /\ old.key_schema # Null
          THEN /\ old.key_schema \in AvroSchemas /\ registry.id[old.key_schema] = old.key_schema_id
               /\ old.key_schema_id # TABLE_MAPPER_SCHEMA_ID_MISSING
          ELSE old.key_schema_id = TABLE_MAPPER_SCHEMA_ID_MISSING
    <3>1. CASE mapper[q] = Null
      BY <3>1, Zenon DEF table_metadata_new, old
    <3>2. CASE mapper[q] # Null
      BY <1>2, <3>2 DEF MapperInv, HasId, old
    <3> QED
      BY <3>1, <3>2, Zenon
  <2>2. PICK id, schema : id = old.key_schema_id /\ schema = old.key_schema
    BY ZenonT(30)
  <2>3. LET u == table_metadata_update_schema(id, schema, registry, m.key) IN
        /\ u.schema = m.key
        /\ u.id = IF UseRegistry /\ m.key # Null THEN Registered(registry, m.key).id[m.key]
                                                 ELSE TABLE_MAPPER_SCHEMA_ID_MISSING
    BY <1>1, <1>2, <2>1, <2>2, UpdateSchemaIs
  <2>4. k = table_metadata_update_schema(id, schema, registry, m.key)
    BY <2>2, Zenon DEF k
  <2>5. UseRegistry => reg = Registered(registry, m.key)
    BY DEF reg
  <2> QED
    BY <2>3, <2>4, <2>5, Zenon
<1>8. /\ v.schema = m.val
      /\ v.id = IF UseRegistry THEN registry'.id[m.val] ELSE TABLE_MAPPER_SCHEMA_ID_MISSING
  <2>1. IF UseRegistry /\ old.row_schema # Null
          THEN /\ old.row_schema \in AvroSchemas /\ reg.id[old.row_schema] = old.row_schema_id
               /\ old.row_schema_id # TABLE_MAPPER_SCHEMA_ID_MISSING
          ELSE old.row_schema_id = TABLE_MAPPER_SCHEMA_ID_MISSING
    <3>1. CASE mapper[q] = Null
      BY <3>1, Zenon DEF table_metadata_new, old
    <3>2. CASE mapper[q] # Null
      <4>1. old = mapper[q] /\ reader[q] \in Schemas
        BY <1>1, <1>2, <3>2, Zenon DEF MapperInv, old
      <4>2. reader[q].row # Null /\ old.row_schema = reader[q].row
        BY <1>2, <3>2, <4>1, SchemaAssumption, Zenon DEF MapperInv, Schemas, AvroSchemas
      <4>3. IF UseRegistry THEN HasId(reader[q].row, old.row_schema_id)
                           ELSE old.row_schema_id = TABLE_MAPPER_SCHEMA_ID_MISSING
        BY <1>2, <3>2, <4>1 DEF MapperInv
      <4> QED
        BY <1>5, <4>2, <4>3, Zenon DEF HasId
    <3> QED
      BY <3>1, <3>2
  <2>2. PICK id, schema : id = old.row_schema_id /\ schema = old.row_schema
    BY ZenonT(30)
  <2>3. LET u == table_metadata_update_schema(id, schema, reg, m.val) IN
        /\ u.schema = m.val
        /\ u.id = IF UseRegistry /\ m.val # Null THEN Registered(reg, m.val).id[m.val]
                                                 ELSE TABLE_MAPPER_SCHEMA_ID_MISSING
    BY <1>1, <1>2, <1>5, <2>1, <2>2, UpdateSchemaIs
  <2>4. v = table_metadata_update_schema(id, schema, reg, m.val)
    BY <2>2, Zenon DEF v
  <2> QED
    BY <1>2, <1>4, <2>3, <2>4, Zenon
<1>9. UseRegistry => /\ registry'.id[m.val] # TABLE_MAPPER_SCHEMA_ID_MISSING
                     /\ m.key # Null => /\ registry'.id[m.key] = reg.id[m.key]
                                        /\ reg.id[m.key] # TABLE_MAPPER_SCHEMA_ID_MISSING
  <2> SUFFICES ASSUME UseRegistry
               PROVE  /\ registry'.id[m.val] # TABLE_MAPPER_SCHEMA_ID_MISSING
                      /\ m.key # Null => /\ registry'.id[m.key] = reg.id[m.key]
                                         /\ reg.id[m.key] # TABLE_MAPPER_SCHEMA_ID_MISSING
    BY Zenon
  <2>1. registry' = Registered(reg, m.val)
    BY <1>4, Zenon
  <2>2. Registered(reg, m.val).id[m.val] # TABLE_MAPPER_SCHEMA_ID_MISSING
    BY <1>2, <1>5, RegisteredIs
  <2>3. ASSUME m.key # Null PROVE Registered(reg, m.val).id[m.key] = reg.id[m.key]
    BY <1>2, <1>5, <2>3, RegisteredIs
  <2> QED
    BY <1>5, <2>1, <2>2, <2>3, Zenon
<1>10. new.topic = m.val.relname /\ new.key_schema = m.key /\ new.row_schema = m.val
       /\ new.key_schema_id = k.id /\ new.row_schema_id = v.id
  BY <1>7, <1>8, Zenon DEF new
<1>11. new \in Metadata /\ Announced(m) \in Schemas /\ new # Null /\ Announced(m) # Null
  <2>1. Announced(m) \in Schemas
    BY <1>2, Zenon DEF Announced, Schemas
  <2>2. k.id \in Int
    BY <1>2, <1>5, <1>7 DEF IsRegistry, TABLE_MAPPER_SCHEMA_ID_MISSING
  <2>3. v.id \in Int
    BY <1>2, <1>6, <1>8 DEF Grows, IsRegistry, TABLE_MAPPER_SCHEMA_ID_MISSING
  <2>4. m.val.relname \in Names
    BY <1>2, Zenon DEF RowSchemas
  <2>5. new \in Metadata
    BY <1>2, <1>7, <1>8, <2>2, <2>3, <2>4, Zenon DEF Metadata, new
  <2> QED
    BY <2>1, <2>5, SchemaAssumption, Zenon
<1>12. /\ reader' \in [Relids -> Schemas \cup {Null}]
       /\ mapper' \in [Relids -> Metadata \cup {Null}]
       /\ reader'[q] = Announced(m) /\ mapper'[q] = new
       /\ \A r \in Relids \ {q} : reader'[r] = reader[r] /\ mapper'[r] = mapper[r]
  BY <1>1, <1>2, <1>4, <1>11, Zenon
<1>13. Announced(m).key = m.key /\ Announced(m).row = m.val
  BY DEF Announced
<1>14. ASSUME NEW r \in Relids, r = q PROVE MapperInv(r)'
  <2>1. CASE UseRegistry
    <3>1. UseRegistry' /\ mapper'[r] = new /\ reader'[r] = Announced(m)
      BY <1>4, <1>12, <1>14, <2>1, Zenon DEF UseRegistry
    <3>2. m.val \in AvroSchemas /\ registry'.id[m.val] = new.row_schema_id
          /\ new.row_schema_id # TABLE_MAPPER_SCHEMA_ID_MISSING
      BY <1>2, <1>8, <1>9, <1>10, <2>1, Zenon
    <3>3. CASE m.key # Null
      <4>1. m.key \in AvroSchemas /\ registry'.id[m.key] = new.key_schema_id
            /\ new.key_schema_id # TABLE_MAPPER_SCHEMA_ID_MISSING
        BY <1>2, <1>7, <1>9, <1>10, <2>1, <3>3
      <4> QED
        BY <1>10, <1>11, <1>13, <3>1, <3>2, <3>3, <4>1, ZenonT(30) DEF MapperInv, HasId
    <3>4. CASE m.key = Null
      <4>1. new.key_schema_id = TABLE_MAPPER_SCHEMA_ID_MISSING
        BY <1>7, <1>10, <3>4, Zenon
      <4> QED
        BY <1>10, <1>11, <1>13, <3>1, <3>2, <3>4, <4>1, Zenon DEF MapperInv, HasId
    <3> QED
      BY <3>3, <3>4
  <2>2. CASE ~ UseRegistry
    BY <1>2, <1>4, <1>7, <1>8, <1>10, <1>11, <1>12, <1>13, <1>14, <2>2, Zenon DEF MapperInv, UseRegistry
  <2> QED
    BY <2>1, <2>2, Zenon
<1>15. ASSUME NEW r \in Relids, r # q PROVE MapperInv(r)'
  <2>1. reader'[r] = reader[r] /\ mapper'[r] = mapper[r] /\ MapperInv(r)
    BY <1>12, <1>15, Zenon
  <2>2. \A s, id : HasId(s, id) => HasId(s, id)'
    BY <1>6, HasIdStays
  <2> QED
    BY <1>4, <2>1, <2>2, Zenon DEF MapperInv, UseRegistry
<1>16. ASSUME reader[q] = Announced(m) PROVE UNCHANGED <<mapper, registry>>
  <2>1. mapper[q] # Null /\ mapper[q] \in Metadata /\ MapperInv(q)
    BY <1>1, <1>2, <1>11, <1>16, ZenonT(30) DEF MapperInv
  <2>2. /\ mapper[q].topic = m.val.relname /\ mapper[q].key_schema = m.key
        /\ mapper[q].row_schema = m.val
    BY <1>13, <1>16, <2>1 DEF MapperInv
  <2>3. CASE UseRegistry
    <3>1. m.key # Null => HasId(m.key, mapper[q].key_schema_id)
      BY <1>13, <1>16, <2>1, <2>3, Zenon DEF MapperInv
    <3>2. m.key = Null => mapper[q].key_schema_id = TABLE_MAPPER_SCHEMA_ID_MISSING
      BY <1>13, <1>16, <2>1, <2>3, Zenon DEF MapperInv
    <3>3. HasId(m.val, mapper[q].row_schema_id)
      BY <1>13, <1>16, <2>1, <2>3, ZenonT(30) DEF MapperInv
    <3>4. reg = registry
      BY <1>2, <2>3, <3>1, RegisteredIs, SMTT(20) DEF reg, HasId
    <3>5. registry' = registry
      BY <1>2, <1>4, <2>3, <3>3, <3>4, RegisteredIs DEF HasId
    <3>6. new.key_schema_id = mapper[q].key_schema_id /\ new.row_schema_id = mapper[q].row_schema_id
      BY <1>7, <1>8, <1>10, <2>3, <3>1, <3>2, <3>3, <3>4, <3>5, Zenon DEF HasId
    <3>7. new = mapper[q]
      BY <1>10, <1>11, <2>1, <2>2, <3>6 DEF Metadata
    <3> QED
      BY <1>1, <1>2, <1>4, <3>5, <3>7, Zenon
  <2>4. CASE ~ UseRegistry
    <3>1. /\ mapper[q].key_schema_id = TABLE_MAPPER_SCHEMA_ID_MISSING
          /\ mapper[q].row_schema_id = TABLE_MAPPER_SCHEMA_ID_MISSING
      BY <2>1, <2>4, Zenon DEF MapperInv
    <3>2. new = mapper[q]
      BY <1>7, <1>8, <1>10, <1>11, <2>1, <2>2, <2>4, <3>1 DEF Metadata
    <3> QED
      BY <1>1, <1>2, <1>4, <2>4, <3>2, Zenon
  <2> QED
    BY <1>1, <2>3, <2>4, Zenon
<1> QED
  BY <1>6, <1>12, <1>14, <1>15, <1>16, Zenon DEF m, q
-----------------------------------------------------------------------------
(* The steps *)

\* The channel, and what the server and the client know, depend on these alone.
LEMMA ChannelStays ==
  ASSUME ChannelInv, CacheCoherent, UNCHANGED <<chan, chan_end, cache, reader>>
  PROVE  ChannelInv' /\ CacheCoherent'
<1>1. \A q, n, s : WillHave(q, n, s)' <=> WillHave(q, n, s)
  BY SMTT(20) DEF WillHave, Announces
<1>2. \A i \in 1 .. chan_end : MessageInv(i) => MessageInv(i)'
  BY <1>1 DEF MessageInv
<1> QED
  BY <1>1, <1>2, Zenon DEF ChannelInv, CacheCoherent

\* The metadata of a table depends on these alone.
LEMMA MapperStays ==
  ASSUME \A r \in Relids : MapperInv(r), UNCHANGED <<mapper, reader, registry, opts>>
  PROVE  \A r \in Relids : MapperInv(r)'
  BY Zenon DEF MapperInv, HasId, UseRegistry

\* The messages produced are judged by these alone.
LEMMA KafkaUnchanged ==
  ASSUME KafkaInv, RightTopic, UNCHANGED <<kafka, registry, opts>>
  PROVE  KafkaInv' /\ RightTopic'
  BY Zenon DEF KafkaInv, Tagged, HasId, RightTopic

\* With an empty channel and an empty cache there is nothing to agree on.
LEMMA NothingUnderWay ==
  ASSUME chan_end' = 0, cache' = schema_cache_new
  PROVE  ChannelInv' /\ CacheCoherent' /\ cache' \in [Relids -> Def \cup {Null}]
  BY DEF ChannelInv, CacheCoherent, schema_cache_new

\* A new cache, whatever the client has, promises nothing.
LEMMA NewCache ==
  ASSUME ChannelInv, UNCHANGED <<chan, chan_end, reader>>, cache' = schema_cache_new
  PROVE  ChannelInv' /\ CacheCoherent' /\ cache' \in [Relids -> Def \cup {Null}]
<1>1. \A q, n, s : WillHave(q, n, s)' <=> WillHave(q, n, s)
  BY DEF WillHave, Announces
<1>2. \A i \in 1 .. chan_end : MessageInv(i) => MessageInv(i)'
  BY <1>1, Zenon DEF MessageInv
<1> QED
  BY <1>2, Zenon DEF ChannelInv, CacheCoherent, schema_cache_new

\* There are finitely many tables.
LEMMA TableCount == num_tables \in Nat
  BY SchemaAssumption, Zenon DEF num_tables

\* An exit forgets the session and the client's tables; what was produced and
\* registered stays.
LEMMA ExitStep ==
  ASSUME IInv, Exit, Grows, kafka' = kafka
  PROVE  IInv'
<1> USE DEF IInv
<1>1. Types'
  BY DEF Types, Exit, db, EndExport, schema_cache_new, Nothing
<1>2. OptionsInv'
  BY DEF OptionsInv, Exit
<1>3. ChannelInv' /\ CacheCoherent'
  BY NothingUnderWay, Zenon DEF Exit
<1>4. \A r \in Relids : MapperInv(r)'
  BY Zenon DEF MapperInv, Exit
<1>5. KafkaInv' /\ RightTopic'
  BY KafkaStays, Zenon DEF RightTopic, Exit
<1> QED
  BY <1>1, <1>2, <1>3, <1>4, <1>5, Zenon DEF Grows

\* A row is sent to the topic and with the tags of the schema it was made under.
LEMMA RowStep ==
  ASSUME IInv, process_frame_row
  PROVE  IInv'
<1> USE DEF IInv
<1>1. /\ chan_end > 0 /\ chan[1].type # "schema" /\ Decodable(chan[1])
      /\ mapper[chan[1].relid] # Null
      /\ IF chan[1].type = "delete" /\ chan[1].key = Null
           THEN UNCHANGED kafka ELSE send_kafka_msg(chan[1])
      /\ TakeMessage
  BY Zenon DEF process_frame_row
<1>2. UNCHANGED <<catalog, wal, wal_end, sent, session, tables, current_table, cache,
                  reader, mapper, registry, opts>>
  BY Zenon DEF process_frame_row, db, export, client
<1>3. /\ chan_end' \in Nat /\ chan' \in [1 .. chan_end' -> Message]
      /\ ChannelInv' /\ CacheCoherent'
  BY <1>1, <1>2, TakeStep, Zenon
<1>4. Types'
  BY <1>2, <1>3, Zenon DEF Types
<1>5. opts.phase = "run" /\ OptionsInv'
  BY <1>1, <1>2, RunningIs, Zenon
<1>6. \A r \in Relids : MapperInv(r)'
  BY <1>2, MapperStays
<1>7. KafkaInv' /\ RightTopic'
  <2>1. CASE kafka' = kafka
    BY <1>2, <2>1, KafkaUnchanged, Zenon
  <2>2. CASE send_kafka_msg(chan[1]) /\ ~ (chan[1].type = "delete" /\ chan[1].key = Null)
    <3> DEFINE m == chan[1]
               t == mapper[m.relid]
    <3>0. PICK e : e = [topic |-> t.topic, def |-> m.def,
                        key |-> Encoded(m.key, t.key_schema_id, t.key_schema),
                        val |-> Encoded(m.val, t.row_schema_id, t.row_schema)]
      BY Zenon
    <3>1. kafka' = kafka \cup {e}
      BY <2>2, <3>0, Zenon DEF send_kafka_msg
    <3>2. m \in Message /\ m.relid \in Relids /\ MessageInv(1) /\ m.def \in Def
      BY <1>1, FirstMessage, Zenon DEF Message
    <3>3. reader[m.relid] = Schema(m.def)
      <4>1. WillHave(m.relid, 0, Schema(m.def))
        BY <1>1, <3>2 DEF MessageInv
      <4> QED
        BY <4>1, SMTT(20) DEF WillHave
    <3>4. /\ t.topic = reader[m.relid].row.relname
          /\ t.key_schema = reader[m.relid].key /\ t.row_schema = reader[m.relid].row
          /\ UseRegistry => /\ reader[m.relid].key # Null => HasId(reader[m.relid].key, t.key_schema_id)
                            /\ HasId(reader[m.relid].row, t.row_schema_id)
      BY <1>1, <3>2, Zenon DEF MapperInv
    <3>5. /\ m.key # Null => reader[m.relid].key = m.key
          /\ m.val # Null => reader[m.relid].row = m.val
      BY <1>1, Zenon DEF Decodable
    <3>6. m.key = schema_for_table_key(m.def)
      BY <1>1, <2>2, <3>2, Zenon DEF MessageInv
    <3>7. e.topic = m.def.relname /\ e.def = m.def /\ e.key.bin = m.key
      <4>1. e.topic = t.topic /\ e.def = m.def /\ e.key.bin = m.key
        BY <3>0, Zenon DEF Encoded
      <4> QED
        BY <3>3, <3>4, <4>1, SchemaName, Zenon
    <3>8. Tagged(e.key) /\ Tagged(e.val)
      <4>1. CASE opts.output_format = "avro"
        <5>1. UseRegistry
          BY <1>5, <4>1, Zenon DEF OptionsInv, UseRegistry
        <5>2. /\ e.key.bin = m.key /\ e.key.tag = t.key_schema_id
              /\ e.val.bin = m.val /\ e.val.tag = t.row_schema_id
          BY <3>0, <4>1, Zenon DEF Encoded
        <5> QED
          BY <3>4, <3>5, <4>1, <5>1, <5>2, Zenon DEF Tagged
      <4>2. CASE opts.output_format # "avro"
        <5>1. /\ e.key.bin = m.key /\ e.key.tag = t.key_schema
              /\ e.val.bin = m.val /\ e.val.tag = t.row_schema
          BY <3>0, <4>2, Zenon DEF Encoded
        <5> QED
          BY <3>4, <3>5, <4>2, <5>1, Zenon DEF Tagged
      <4> QED
        BY <4>1, <4>2, Zenon
    <3>9. \A x : Tagged(x) => Tagged(x)'
      BY <1>2, Zenon DEF Tagged, HasId
    <3>10. KafkaInv'
      BY <3>1, <3>8, <3>9, Zenon DEF KafkaInv
    <3>11. RightTopic'
      BY <3>1, <3>6, <3>7, Zenon DEF RightTopic
    <3> QED
      BY <3>10, <3>11
  <2> QED
    BY <1>1, <2>1, <2>2, Zenon
<1> QED
  BY <1>2, <1>3, <1>4, <1>5, <1>6, <1>7, Zenon

\* The initial states satisfy the inductive invariant.
LEMMA InitIInv == Init => IInv
<1> SUFFICES ASSUME Init PROVE IInv
  BY Zenon
<1> USE DEF Init
<1>1. Types
  BY DEF Types, schema_cache_new, Nothing, init_producer, Options
<1>2. IsRegistry(registry)
  BY DEF IsRegistry, NoSchemas, TABLE_MAPPER_SCHEMA_ID_MISSING
<1>3. OptionsInv
  BY Zenon DEF OptionsInv, init_producer
<1>4. ChannelInv /\ CacheCoherent
  BY DEF ChannelInv, CacheCoherent, schema_cache_new
<1>5. KafkaInv /\ RightTopic /\ \A r \in Relids : MapperInv(r)
  BY Zenon DEF KafkaInv, RightTopic, MapperInv
<1> QED
  BY <1>1, <1>2, <1>3, <1>4, <1>5, Zenon DEF IInv

\* Every step preserves the inductive invariant.
LEMMA NextIInv == IInv /\ [Next]_vars => IInv'
<1> SUFFICES ASSUME IInv, [Next]_vars PROVE IInv'
  BY Zenon
<1> USE DEF IInv
<1>1. CASE parse_option \/ parse_options
  <2>1. UNCHANGED <<catalog, wal, wal_end, sent, session, tables, current_table, cache, chan,
                    chan_end, reader, mapper, registry, kafka>>
    BY <1>1, Zenon DEF parse_option, parse_options, db, export, channel, client
  <2>2. opts.phase = "options" /\ opts \in Options
    BY <1>1 DEF parse_option, parse_options, Types
  <2>3. opts' \in Options /\ (opts'.phase = "run" => (opts'.registry <=> opts'.output_format = "avro"))
    BY <1>1, <2>2, ParseIs, Zenon
  <2>4. Types'
    BY <2>1, <2>3, Zenon DEF Types
  <2>5. OptionsInv'
    BY <2>1, <2>2, <2>3, Zenon DEF OptionsInv
  <2>6. \A r \in Relids : MapperInv(r)'
    BY <2>1, <2>2, Zenon DEF OptionsInv, MapperInv
  <2>7. KafkaInv' /\ RightTopic'
    BY <2>1, <2>2, Zenon DEF OptionsInv, KafkaInv, RightTopic
  <2> QED
    BY <2>1, <2>4, <2>5, <2>6, <2>7, ChannelStays, Zenon
<1>2. ASSUME NEW r \in Relids, NEW d \in Def, AlterTable(r, d) PROVE IInv'
  <2>1. /\ catalog' = [catalog EXCEPT ![r] = d]
        /\ UNCHANGED <<wal, wal_end, sent, session, tables, current_table, cache, chan,
                       chan_end, reader, mapper, registry, kafka, opts>>
    BY <1>2, Zenon DEF AlterTable, export, channel, client
  <2>2. Types' /\ OptionsInv'
    BY <2>1, Zenon DEF Types, OptionsInv
  <2> QED
    BY <2>1, <2>2, ChannelStays, MapperStays, KafkaUnchanged, Zenon
<1>3. ASSUME NEW r \in Relids, NEW op \in Op, ChangeRow(r, op) PROVE IInv'
  <2>1. /\ wal_end' = wal_end + 1
        /\ wal' = [i \in 1 .. wal_end + 1 |->
             IF i <= wal_end THEN wal[i] ELSE [relid |-> r, def |-> catalog[r], op |-> op]]
        /\ UNCHANGED <<catalog, sent, session, tables, current_table, cache, chan,
                       chan_end, reader, mapper, registry, kafka, opts>>
    BY <1>3, Zenon DEF ChangeRow, export, channel, client
  <2>2. wal_end' \in Nat /\ wal' \in [1 .. wal_end' -> [relid : Relids, def : Def, op : Op]]
    BY <2>1 DEF Types
  <2>3. Types' /\ OptionsInv'
    BY <2>1, <2>2, Zenon DEF Types, OptionsInv
  <2> QED
    BY <2>1, <2>3, ChannelStays, MapperStays, KafkaUnchanged, Zenon
<1>4. CASE CreateSlot
  <2>1. /\ Started /\ sent' = wal_end /\ session' = "created"
        /\ UNCHANGED <<catalog, wal, wal_end, tables, current_table, cache, chan,
                       chan_end, reader, mapper, registry, kafka, opts>>
    BY <1>4, Zenon DEF CreateSlot, db, channel, client
  <2>2. Types' /\ OptionsInv'
    BY <2>1, Zenon DEF Types, OptionsInv, Started
  <2> QED
    BY <2>1, <2>2, ChannelStays, MapperStays, KafkaUnchanged, Zenon
<1>5. CASE get_table_list
  <2>1. /\ session = "created" /\ session' = "snapshot"
        /\ tables' \in [1 .. num_tables -> Relids] /\ current_table' = 1
        /\ cache' = schema_cache_new
        /\ UNCHANGED <<catalog, wal, wal_end, sent, chan, chan_end, reader, mapper, registry,
                       kafka, opts>>
    BY <1>5, Zenon DEF get_table_list, db, channel, client
  <2>2. ChannelInv' /\ CacheCoherent' /\ cache' \in [Relids -> Def \cup {Null}]
    BY <2>1, NewCache, Zenon
  <2>3. Types' /\ OptionsInv'
    BY <2>1, <2>2 DEF Types, OptionsInv
  <2> QED
    BY <2>1, <2>2, <2>3, MapperStays, KafkaUnchanged, Zenon
<1>6. CASE format_snapshot_row
  <2>1. /\ session = "snapshot" /\ current_table <= num_tables
        /\ write_frame(tables[current_table], catalog[tables[current_table]], "insert")
        /\ UNCHANGED <<catalog, wal, wal_end, sent, session, tables, current_table,
                       reader, mapper, registry, kafka, opts>>
    BY <1>6, Zenon DEF format_snapshot_row, db, client
  <2>2. PICK r \in Relids : r = tables[current_table]
    BY <2>1, TableCount DEF Types
  <2>3. PICK d \in Def : d = catalog[tables[current_table]]
    BY <2>2, Zenon DEF Types
  <2>4. "insert" \in Op /\ write_frame(r, d, "insert")
    BY <2>1, <2>2, <2>3, Zenon DEF Op
  <2>5. ChannelInv' /\ CacheCoherent'
    BY <2>1, <2>4, FrameStep, ZenonT(30)
  <2>6. /\ cache' = [cache EXCEPT ![r] = d]
        /\ chan_end' \in Nat /\ chan' \in [1 .. chan_end' -> Message]
    BY <2>4, FrameIs
  <2>7. Types' /\ OptionsInv'
    BY <2>1, <2>6, Zenon DEF Types, OptionsInv
  <2> QED
    BY <2>1, <2>5, <2>7, MapperStays, KafkaUnchanged, Zenon
<1>7. CASE close_current_table
  <2>1. /\ current_table' = current_table + 1
        /\ UNCHANGED <<catalog, wal, wal_end, sent, session, tables, cache, chan,
                       chan_end, reader, mapper, registry, kafka, opts>>
    BY <1>7, Zenon DEF close_current_table, db, channel, client
  <2>2. Types' /\ OptionsInv'
    BY <2>1 DEF Types, OptionsInv
  <2> QED
    BY <2>1, <2>2, ChannelStays, MapperStays, KafkaUnchanged, Zenon
<1>8. CASE SnapshotDone
  <2>1. /\ session = "snapshot" /\ session' = "stream" /\ current_table' = 1
        /\ cache' = schema_cache_new
        /\ UNCHANGED <<catalog, wal, wal_end, sent, chan, chan_end, reader, mapper, registry,
                       kafka, opts>>
    BY <1>8, Zenon DEF SnapshotDone, EndExport, db, channel, client
  <2>2. ChannelInv' /\ CacheCoherent' /\ cache' \in [Relids -> Def \cup {Null}]
    BY <2>1, NewCache, Zenon
  <2>3. Types' /\ OptionsInv'
    BY <2>1, <2>2 DEF Types, OptionsInv
  <2> QED
    BY <2>1, <2>2, <2>3, MapperStays, KafkaUnchanged, Zenon
<1>9. CASE output_avro_change
  <2>1. /\ session = "stream" /\ sent < wal_end /\ sent' = sent + 1
        /\ write_frame(wal[sent + 1].relid, wal[sent + 1].def, wal[sent + 1].op)
        /\ UNCHANGED <<catalog, wal, wal_end, session, tables, current_table,
                       reader, mapper, registry, kafka, opts>>
    BY <1>9, Zenon DEF output_avro_change, db, export, client
  <2>2. sent + 1 \in 1 .. wal_end
    BY <2>1 DEF Types
  <2>3. wal[sent + 1] \in [relid : Relids, def : Def, op : Op]
    BY <2>2, Zenon DEF Types
  <2>4. PICK r \in Relids, d \in Def, op \in Op :
          r = wal[sent + 1].relid /\ d = wal[sent + 1].def /\ op = wal[sent + 1].op
    BY <2>3, Zenon
  <2>5. write_frame(r, d, op)
    BY <2>1, <2>4, Zenon
  <2>6. ChannelInv' /\ CacheCoherent'
    BY <2>1, <2>5, FrameStep, ZenonT(30)
  <2>7. /\ cache' = [cache EXCEPT ![r] = d]
        /\ chan_end' \in Nat /\ chan' \in [1 .. chan_end' -> Message]
    BY <2>5, FrameIs
  <2>8. Types' /\ OptionsInv'
    <3>1. sent' \in Nat
      BY <2>1 DEF Types
    <3>2. opts.phase = "run"
      BY <2>1 DEF OptionsInv
    <3> QED
      BY <2>1, <2>7, <3>1, <3>2, Zenon DEF Types, OptionsInv
  <2> QED
    BY <2>1, <2>6, <2>8, MapperStays, KafkaUnchanged, Zenon
<1>10. ASSUME NEW from \in 0 .. MaxChanges, ResumeStream(from) PROVE IInv'
  <2>1. /\ Started /\ session' = "stream" /\ sent' = from
        /\ cache' = schema_cache_new
        /\ UNCHANGED <<catalog, wal, wal_end, tables, current_table, chan, chan_end, reader, mapper,
                       registry, kafka, opts>>
    BY <1>10, Zenon DEF ResumeStream, db, export, channel, client
  <2>2. ChannelInv' /\ CacheCoherent' /\ cache' \in [Relids -> Def \cup {Null}]
    BY <2>1, NewCache, Zenon
  <2>3. from \in Nat
    BY SchemaAssumption
  <2>4. Types' /\ OptionsInv'
    BY <2>1, <2>2, <2>3, Zenon DEF Types, OptionsInv, Started
  <2> QED
    BY <2>1, <2>2, <2>4, MapperStays, KafkaUnchanged
<1>11. CASE process_frame_table_schema
  <2>1. /\ chan_end > 0 /\ TakeMessage
        /\ reader' = [reader EXCEPT ![chan[1].relid] = Announced(chan[1])]
        /\ chan[1].type = "schema"
        /\ UNCHANGED <<catalog, wal, wal_end, sent, session, tables, current_table, cache,
                       kafka, opts>>
    BY <1>11, Zenon DEF process_frame_table_schema, db, export, Announced
  <2>2. /\ chan_end' \in Nat /\ chan' \in [1 .. chan_end' -> Message]
        /\ ChannelInv' /\ CacheCoherent'
    BY <2>1, TakeStep, Zenon
  <2>3. /\ reader' \in [Relids -> Schemas \cup {Null}]
        /\ mapper' \in [Relids -> Metadata \cup {Null}]
        /\ Grows
        /\ \A r \in Relids : MapperInv(r)'
    BY <1>11, UpdateStep, Zenon
  <2>4. Types'
    BY <2>1, <2>2, <2>3, Zenon DEF Types
  <2>5. OptionsInv'
    BY <2>1, RunningIs, Zenon
  <2>6. KafkaInv' /\ RightTopic'
    BY <2>1, <2>3, KafkaStays, Zenon DEF RightTopic
  <2> QED
    BY <2>2, <2>3, <2>4, <2>5, <2>6, Zenon DEF Grows
<1>12. CASE table_mapper_error
  <2>1. /\ chan_end > 0 /\ chan[1].type = "schema" /\ Exit /\ kafka' = kafka
        /\ \/ registry' = registry
           \/ registry' = Registered(registry, chan[1].key)
           \/ registry' = Registered(Registered(registry, chan[1].key), chan[1].val)
    BY <1>12, Zenon DEF table_mapper_error, registry_parse_response_error
  <2>2. chan[1] \in Message
    BY <2>1, FirstMessage, Zenon
  <2>3. chan[1].key \in AvroSchemas \cup {Null} /\ chan[1].val \in AvroSchemas \cup {Null}
    BY <2>2, Zenon DEF Message, AvroSchemas
  <2> DEFINE reg == Registered(registry, chan[1].key)
  <2>4. /\ IsRegistry(reg)
        /\ \A s \in AvroSchemas : registry.id[s] # TABLE_MAPPER_SCHEMA_ID_MISSING =>
             reg.id[s] = registry.id[s]
    BY <2>3, RegisteredIs, ZenonT(30)
  <2> HIDE DEF reg
  <2>5. /\ IsRegistry(Registered(reg, chan[1].val))
        /\ \A s \in AvroSchemas : reg.id[s] # TABLE_MAPPER_SCHEMA_ID_MISSING =>
             Registered(reg, chan[1].val).id[s] = reg.id[s]
    BY <2>3, <2>4, RegisteredIs
  <2>6. Grows
    <3>1. CASE registry' = registry
      BY <3>1, Zenon DEF Grows
    <3>2. CASE registry' = reg
      BY <3>2, <2>4, Zenon DEF Grows
    <3>3. CASE registry' = Registered(reg, chan[1].val)
      BY <3>3, <2>4, <2>5, Zenon DEF Grows
    <3> QED
      BY <2>1, <3>1, <3>2, <3>3, Zenon DEF reg
  <2> QED
    BY <2>1, <2>6, ExitStep, Zenon
<1>13. CASE process_frame_row
  BY <1>13, RowStep, Zenon
<1>14. CASE Stop
  BY <1>14, ExitStep, Zenon DEF Stop, Grows
<1>15. CASE UNCHANGED vars
  <2>1. UNCHANGED <<catalog, wal, wal_end, sent, session, tables, current_table, cache, chan,
                    chan_end, reader, mapper, registry, kafka, opts>>
    BY <1>15, Zenon DEF vars
  <2>2. Types' /\ OptionsInv'
    BY <2>1 DEF Types, OptionsInv
  <2> QED
    BY <2>1, <2>2, ChannelStays, MapperStays, KafkaUnchanged, Zenon
<1> QED
  BY <1>1, <1>2, <1>3, <1>4, <1>5, <1>6, <1>7, <1>8, <1>9, <1>10, <1>11, <1>12, <1>13, <1>14,
     <1>15, Zenon DEF Next

\* The inductive invariant holds in every reachable state.
THEOREM Invariance == Spec => []IInv
  BY InitIInv, NextIInv, PTL DEF Spec
-----------------------------------------------------------------------------
(* The theorems *)

\* What the server's schema cache says the client has been told
\* (schema_cache_lookup), the client has or will have once it has read what is
\* under way.
THEOREM CacheIsCoherent == Spec => []CacheCoherent
<1>1. IInv => CacheCoherent
  BY Zenon DEF IInv
<1> QED
  BY <1>1, Invariance, PTL

\* Every row under way will be decoded (read_entirely) with the schema it was
\* encoded with, the one of the definition it was made under.
THEOREM RowsAreDecodable == Spec => []RowsDecodable
<1>1. IInv => RowsDecodable
  BY Zenon DEF IInv, ChannelInv, MessageInv, RowsDecodable
<1> QED
  BY <1>1, Invariance, PTL

\* The id or schema that goes with every message ever produced
\* (schema_registry_encode_msg, json_encode_msg) is the one of its bytes.
THEOREM PublishedIsReadable == Spec => []Published
<1>1. ASSUME IInv PROVE Published
  <2>1. ASSUME NEW e, Tagged(e) PROVE Readable(e)
    <3>1. CASE e.bin = Null
      BY <3>1, Zenon DEF Readable
    <3>2. CASE e.bin # Null /\ opts.output_format = "avro"
      <4>1. HasId(e.bin, e.tag)
        BY <2>1, <3>2, Zenon DEF Tagged
      <4>2. \A s \in AvroSchemas : registry.id[s] = e.tag => s = e.bin
        BY <1>1, <4>1, Zenon DEF IInv, IsRegistry, HasId
      <4> QED
        BY <3>2, <4>1, <4>2, Zenon DEF Readable, HasId
    <3>3. CASE e.bin # Null /\ opts.output_format # "avro"
      BY <2>1, <3>3, Zenon DEF Tagged, Readable
    <3> QED
      BY <3>1, <3>2, <3>3, Zenon
  <2> QED
    BY <1>1, <2>1 DEF IInv, KafkaInv, Published
<1> QED
  BY <1>1, Invariance, PTL

\* Every message is in the topic of the name its table had when the row was
\* made, with the key the table had then.
THEOREM TopicIsRight == Spec => []RightTopic
<1>1. IInv => RightTopic
  BY Zenon DEF IInv
<1> QED
  BY <1>1, Invariance, PTL

\* The table mapper and the frame reader have the same tables, with the same
\* schemas, although the mapper compares registry ids only.
THEOREM MapperAgreesWithReader == Spec => []MapperAgrees
<1>1. IInv => MapperAgrees
  BY Zenon DEF IInv, MapperInv, MapperAgrees, HasId
<1> QED
  BY <1>1, Invariance, PTL

\* "Re-updating an already known relid with the same table name and schemas is
\* idempotent": a schema the client has already changes neither the metadata
\* nor the registry.
THEOREM ReUpdateIsIdempotent == Spec => ReUpdateIdempotent
<1>1. IInv => (Repeated => UNCHANGED <<mapper, registry>>)
  BY UpdateStep, Zenon DEF IInv, Repeated
<1> QED
  BY <1>1, Invariance, PTL DEF ReUpdateIdempotent
=============================================================================
