--------------------------- MODULE FrameProtocol ---------------------------
(***************************************************************************)
(* The wire protocol between the output plugin and its clients:            *)
(* ext/protocol.c holds the schema of a frame, ext/protocol_server.c fills *)
(* the fields of a message by their index, Avro encodes the frame, and     *)
(* client/protocol_client.c takes the fields out by their index again.     *)
(*                                                                         *)
(* A payload (a schema as JSON, an encoded key or row) is represented by   *)
(* its length, so the bytes of a frame are a sequence of numbers: a long   *)
(* or the branch of a union is one number, a string or bytes are the       *)
(* length that is written ahead of them and the payload.                   *)
(***************************************************************************)
EXTENDS Integers, Sequences, SequencesExt

CONSTANTS
  Xids, Lsns, Relids,
  Jsons,  \* schemas, as their lengths
  Keys,   \* encoded keys, as their lengths
  Rows    \* encoded rows, as their lengths

Absent == -1   \* a NULL pointer

VARIABLES
  events,   \* what the server was called with for the current frame
  buf,      \* the encoded frame
  messages, \* the frame as the client has parsed it, from the next message on
  list,     \* the client's schema list: the values parsed last, per relid
  called    \* what the client's callbacks were called with for this frame

vars == <<events, buf, messages, list, called>>
-----------------------------------------------------------------------------
(* ext/protocol.c *)

PROTOCOL_MSG_BEGIN_TXN == 0
PROTOCOL_MSG_COMMIT_TXN == 1
PROTOCOL_MSG_TABLE_SCHEMA == 2
PROTOCOL_MSG_INSERT == 3
PROTOCOL_MSG_UPDATE == 4
PROTOCOL_MSG_DELETE == 5

nullable_schema(type) == [type |-> type, nullable |-> TRUE]

Required(type) == [type |-> type, nullable |-> FALSE]

schema_for_begin_txn == << Required("long") >>
schema_for_commit_txn == << Required("long"), Required("long") >>
schema_for_table_schema == << Required("long"), nullable_schema("string"), Required("string") >>
schema_for_insert == << Required("long"), nullable_schema("bytes"), Required("bytes") >>
schema_for_update ==
  << Required("long"), nullable_schema("bytes"), nullable_schema("bytes"), Required("bytes") >>
schema_for_delete == << Required("long"), nullable_schema("bytes"), nullable_schema("bytes") >>

\* The branches of the union, in the order in which they are appended
schema_for_frame ==
  << schema_for_begin_txn, schema_for_commit_txn, schema_for_table_schema,
     schema_for_insert, schema_for_update, schema_for_delete >>

Branch(msg_type) == schema_for_frame[msg_type + 1]
-----------------------------------------------------------------------------
(* The Avro library.  The size of a string counts the null byte, which is   *)
(* not sent.                                                                *)

Long(v) == [type |-> "long", branch |-> Absent, val |-> v, size |-> 0]
String(v, size) == [type |-> "string", branch |-> Absent, val |-> v, size |-> size]
Bytes(v) == [type |-> "bytes", branch |-> Absent, val |-> v, size |-> v]
Null == [type |-> "null", branch |-> 0, val |-> Absent, size |-> 0]
InBranch1(value) == [value EXCEPT !.branch = 1]

\* A setter fails on a value of another type, a field or a branch that the
\* schema does not have
Conforms(field, value) ==
  IF field.nullable THEN value.branch = 0 \/ (value.branch = 1 /\ value.type = field.type)
  ELSE value.branch = Absent /\ value.type = field.type

ConformsTo(record, msg) ==
  Len(record) = Len(msg) /\ \A i \in DOMAIN record : Conforms(record[i], msg[i])

WriteValue(value) ==
  (IF value.branch = Absent THEN << >> ELSE << value.branch >>)
  \o (CASE value.type = "long" -> << value.val >>
        [] value.type = "string" -> << value.size - 1, value.val >>
        [] value.type = "bytes" -> << value.size, value.val >>
        [] value.type = "null" -> << >>)

WriteMessage(m) == FoldLeft(LAMBDA bytes, value : bytes \o WriteValue(value), << m.type >>, m.fields)

avro_value_write(msgs) == FoldLeft(LAMBDA bytes, m : bytes \o WriteMessage(m), << Len(msgs) >>, msgs)

\* The value of a type at the head of the bytes; a length that is not the
\* payload's reads something else
ReadPlain(type, bytes) ==
  IF type = "long" THEN Long(bytes[1])
  ELSE LET val == IF bytes[1] = bytes[2] THEN bytes[2] ELSE Absent - 1
       IN  IF type = "string" THEN String(val, bytes[1] + 1) ELSE Bytes(val)

Width(type) == IF type = "long" THEN 1 ELSE 2

ReadValue(r, field) ==
  CASE ~ field.nullable ->
         [fields |-> Append(r.fields, ReadPlain(field.type, r.rest)),
          rest |-> SubSeq(r.rest, Width(field.type) + 1, Len(r.rest))]
    [] field.nullable /\ Head(r.rest) = 0 ->
         [fields |-> Append(r.fields, Null), rest |-> Tail(r.rest)]
    [] field.nullable /\ Head(r.rest) = 1 ->
         [fields |-> Append(r.fields, InBranch1(ReadPlain(field.type, Tail(r.rest)))),
          rest |-> SubSeq(r.rest, Width(field.type) + 2, Len(r.rest))]

ReadMessage(r) ==
  LET m == FoldLeft(ReadValue, [fields |-> << >>, rest |-> Tail(r.rest)], Branch(Head(r.rest)))
  IN  [msgs |-> Append(r.msgs, [type |-> Head(r.rest), fields |-> m.fields]), rest |-> m.rest]

\* The array of messages, as read_entirely gets it
read_entirely(bytes) ==
  FoldLeft(LAMBDA r, i : ReadMessage(r), [msgs |-> << >>, rest |-> Tail(bytes)],
           [i \in 1 .. Head(bytes) |-> i])
-----------------------------------------------------------------------------
(* ext/protocol_server.c: the fields that a call sets, by index             *)

Optional(v) == IF v = Absent THEN Null ELSE InBranch1(Bytes(v))

update_frame_with_begin_txn(e) ==
  [type |-> PROTOCOL_MSG_BEGIN_TXN, fields |-> << Long(e.xid) >>]

update_frame_with_commit_txn(e) ==
  [type |-> PROTOCOL_MSG_COMMIT_TXN, fields |-> << Long(e.xid), Long(e.lsn) >>]

\* The null byte behind the JSON is part of the string
update_frame_with_table_schema(e) ==
  [type |-> PROTOCOL_MSG_TABLE_SCHEMA,
   fields |-> << Long(e.relid),
                 IF e.key = Absent THEN Null ELSE InBranch1(String(e.key, e.key + 1)),
                 String(e.new, e.new + 1) >>]

update_frame_with_insert_raw(e) ==
  [type |-> PROTOCOL_MSG_INSERT, fields |-> << Long(e.relid), Optional(e.key), Bytes(e.new) >>]

update_frame_with_update_raw(e) ==
  [type |-> PROTOCOL_MSG_UPDATE,
   fields |-> << Long(e.relid), Optional(e.key), Optional(e.old), Bytes(e.new) >>]

update_frame_with_delete_raw(e) ==
  [type |-> PROTOCOL_MSG_DELETE, fields |-> << Long(e.relid), Optional(e.key), Optional(e.old) >>]

Message(e) ==
  CASE e.kind = "begin" -> update_frame_with_begin_txn(e)
    [] e.kind = "commit" -> update_frame_with_commit_txn(e)
    [] e.kind = "schema" -> update_frame_with_table_schema(e)
    [] e.kind = "insert" -> update_frame_with_insert_raw(e)
    [] e.kind = "update" -> update_frame_with_update_raw(e)
    [] e.kind = "delete" -> update_frame_with_delete_raw(e)

Frame(es) == [i \in DOMAIN es |-> Message(es[i])]

\* What the plugin's callbacks put in a frame: a transaction's begin or commit,
\* or one change, after the table's schema if that is new.  The rows of a table
\* with a key have one, unless the deleted row was not logged.
Maybe(S) == S \cup {Absent}
KeyOf(keyed) == IF keyed THEN Keys ELSE {Absent}

Schemas(r, keyed) ==
  [kind : {"schema"}, relid : {r}, key : IF keyed THEN Jsons ELSE {Absent}, new : Jsons]
Inserts(r, keyed) == [kind : {"insert"}, relid : {r}, key : KeyOf(keyed), new : Rows]
Updates(r, keyed) ==
  [kind : {"update"}, relid : {r}, key : KeyOf(keyed), old : Maybe(Rows), new : Rows]
Deletes(r, keyed) == [kind : {"delete"}, relid : {r}, key : KeyOf(keyed), old : Rows]
BareDelete(r) == [kind |-> "delete", relid |-> r, key |-> Absent, old |-> Absent]

Changes(r, keyed) ==
  { << e >> : e \in Inserts(r, keyed) \cup Updates(r, keyed) \cup Deletes(r, keyed) \cup {BareDelete(r)} }
  \cup (IF keyed
        THEN { de \in Deletes(r, keyed) \X Inserts(r, keyed) : de[1].key # de[2].key }
        ELSE {})

Frames ==
  { << e >> : e \in [kind : {"begin"}, xid : Xids] \cup [kind : {"commit"}, xid : Xids, lsn : Lsns] }
  \cup UNION { UNION { Changes(r, entry.key_schema) : entry \in list[r] } : r \in Relids }
  \cup UNION { { << s >> \o c : s \in Schemas(r, keyed), c \in Changes(r, keyed) } :
                 r \in Relids, keyed \in BOOLEAN }
-----------------------------------------------------------------------------
(* client/protocol_client.c *)

\* The value of a nullable field: the entry's value, if the field is present
Present(value) == value.branch = 1

\* Variant: an old row that is sent is not parsed
ParsedInto_stale(entry, key, old, new) ==
  [entry EXCEPT !.key = IF Present(key) THEN key.val ELSE @,
                !.new = IF new = Null THEN @ ELSE new.val]

\* The entry's values after the fields of a message were read into them
ParsedInto(entry, key, old, new) ==
  [entry EXCEPT !.key = IF Present(key) THEN key.val ELSE @,
                !.old = IF Present(old) THEN old.val ELSE @,
                !.new = IF new = Null THEN @ ELSE new.val]

\* A new entry: no value is parsed yet
Entry(keyed) == [key_schema |-> keyed, key |-> Absent, old |-> Absent, new |-> Absent]

ValueIf(value, parsed) == IF Present(value) THEN parsed ELSE Absent

process_frame_begin_txn(f) ==
  called' = Append(called, [kind |-> "begin", xid |-> f[1].val]) /\ UNCHANGED list

process_frame_commit_txn(f) ==
  called' = Append(called, [kind |-> "commit", xid |-> f[1].val]) /\ UNCHANGED list

\* schema_list_replace drops the values of an older schema
process_frame_table_schema(f) ==
  /\ list' = [list EXCEPT ![f[1].val] = {Entry(Present(f[2]))}]
  /\ called' = Append(called, [kind |-> "schema", relid |-> f[1].val,
                               key |-> IF Present(f[2]) THEN f[2].size - 1 ELSE Absent,
                               new |-> f[3].size - 1])

\* schema_list_lookup; a relid that is not in the list is an error
Lookup(relid) == list[relid] # {}

process_frame_insert(f) ==
  LET relid == f[1].val
      entry == ParsedInto(CHOOSE x \in list[relid] : TRUE, f[2], Null, f[3])
  IN  /\ Lookup(relid)
      /\ list' = [list EXCEPT ![relid] = {entry}]
      /\ called' = Append(called, [kind |-> "insert", relid |-> relid,
                                   key |-> ValueIf(f[2], entry.key), new |-> entry.new])

process_frame_update(f) ==
  LET relid == f[1].val
      entry == ParsedInto(CHOOSE x \in list[relid] : TRUE, f[2], f[3], f[4])
  IN  /\ Lookup(relid)
      /\ list' = [list EXCEPT ![relid] = {entry}]
      /\ called' = Append(called, [kind |-> "update", relid |-> relid,
                                   key |-> ValueIf(f[2], entry.key),
                                   old |-> ValueIf(f[3], entry.old), new |-> entry.new])

process_frame_delete(f) ==
  LET relid == f[1].val
      entry == ParsedInto(CHOOSE x \in list[relid] : TRUE, f[2], f[3], Null)
  IN  /\ Lookup(relid)
      /\ list' = [list EXCEPT ![relid] = {entry}]
      /\ called' = Append(called, [kind |-> "delete", relid |-> relid,
                                   key |-> ValueIf(f[2], entry.key),
                                   old |-> ValueIf(f[3], entry.old)])
-----------------------------------------------------------------------------
(* The steps *)

Init ==
  /\ events = << >> /\ buf = << >> /\ messages = << >> /\ called = << >>
  /\ list = [r \in Relids |-> {}]

Accepted(es) ==
  \A i \in DOMAIN es : ConformsTo(Branch(Message(es[i]).type), Message(es[i]).fields)

\* The plugin writes a frame, or fails when a setter does
output ==
  /\ buf = << >> /\ messages = << >>
  /\ \E es \in Frames :
       /\ events' = es
       /\ buf' = IF Accepted(es) THEN avro_value_write(Frame(es)) ELSE << >>
  /\ called' = << >>
  /\ UNCHANGED <<messages, list>>

\* The client reads the whole frame before it processes a message
parse_frame ==
  /\ buf # << >>
  /\ LET r == read_entirely(buf) IN r.rest = << >> /\ messages' = r.msgs
  /\ buf' = << >>
  /\ UNCHANGED <<events, list, called>>

process_frame ==
  /\ messages # << >>
  /\ LET m == Head(messages) IN
       \/ m.type = PROTOCOL_MSG_BEGIN_TXN /\ process_frame_begin_txn(m.fields)
       \/ m.type = PROTOCOL_MSG_COMMIT_TXN /\ process_frame_commit_txn(m.fields)
       \/ m.type = PROTOCOL_MSG_TABLE_SCHEMA /\ process_frame_table_schema(m.fields)
       \/ m.type = PROTOCOL_MSG_INSERT /\ process_frame_insert(m.fields)
       \/ m.type = PROTOCOL_MSG_UPDATE /\ process_frame_update(m.fields)
       \/ m.type = PROTOCOL_MSG_DELETE /\ process_frame_delete(m.fields)
  /\ messages' = Tail(messages)
  /\ UNCHANGED <<events, buf>>

Next == output \/ parse_frame \/ process_frame

Spec == Init /\ [][Next]_vars
-----------------------------------------------------------------------------
(* Properties *)

\* The commit's lsn is sent, but the client does not read it
Told(e) == IF e.kind = "commit" THEN [kind |-> "commit", xid |-> e.xid] ELSE e

\* The plugin's setters find in the protocol's schema every field they fill in,
\* and leave none out, so that the frame is accepted; and the
\* callbacks are called with what the plugin was given, message by message: every
\* field is read where it was written, an absent key or old row is NULL and
\* never the value an earlier message left in the entry, and a schema is given its
\* length without the null byte.
CallbacksGetWhatWasSent ==
  /\ Accepted(events)
  /\ called = [i \in 1 .. Len(called) |-> Told(events[i])]
=============================================================================
