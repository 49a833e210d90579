---------------------------- MODULE RowEncoding ----------------------------
(***************************************************************************)
(* The Avro conversion of the extension (ext/oid2avro.c): the schema of a  *)
(* table, a row and its key.  The loops of schema_for_table_row,           *)
(* tuple_to_avro_row and tuple_to_avro_key each take one step per column.  *)
(* The types are abstracted to the classes that the two switch statements  *)
(* tell apart, and a value to whether it is null, infinite or finite, with *)
(* the column it belongs to.  What has been encoded is written to the      *)
(* output buffer of module TryWriting.                                     *)
(***************************************************************************)
EXTENDS TryWriting, Sequences

CONSTANTS
  Tables \* the bounds of the tables: sets of [types, cols, key], the types of
         \* the columns, the most columns and the most columns of the key

\* The types written as a record, those that may also be infinite, and the
\* Avro types of the others
Times == {"date", "timestamp", "timestamptz"}
RecordTypes == Times \cup {"timetz", "interval"}
Plain == [bool |-> "boolean", float4 |-> "float", float8 |-> "double", int2 |-> "int",
          int4 |-> "int", int8 |-> "long", oid |-> "long", time |-> "long",
          numeric |-> "double", bytea |-> "bytes", text |-> "string", uuid |-> "string"]
AllTypes == RecordTypes \cup DOMAIN Plain

ASSUME EncodingAssumption ==
  \A t \in Tables : t.types \subseteq AllTypes /\ t.cols \in Nat /\ t.key \in Nat

VARIABLES
  natts, rel,    \* rel[c]: column c of the table, [type, dropped], for c in 1..natts
  tup_natts, at, \* at[k]: the column that attribute k of the tuple stands for
  dim1, indkey,  \* indkey[f]: column f of the key's index
  row,           \* row[c]: the value of column c
  phase, i,      \* the loop that runs, and its counter
  predef,        \* the named types defined so far in the schema
  fields, schema, \* the fields of the row schema: [name, union], name being a column
  field, value,  \* the Avro values of the row's fields, and the field that is next
  rel_i, tup_i,  \* the counters of the search for a column of the key
  key            \* the Avro values of the key's fields

relation == <<natts, rel, tup_natts, at, dim1, indkey, row>>
encoding == <<relation, i, predef, fields, schema, field, value, rel_i, tup_i, key>>
encvars == <<encoding, phase, buffer>>

Attribute(types) == [type : types, dropped : BOOLEAN]
ValuesOf(type) == IF type \in Times THEN {"null", "finite", "-infinity", "infinity"}
                                    ELSE {"null", "finite"}

Live == {c \in 1..natts : ~ rel[c].dropped}

\* The descriptor of the tuple: that of the table, or one of its columns that
\* are not dropped
tupdesc(k) == rel[at[k]]
Lists(kept) ==
  /\ tup_natts \in 0..natts
  /\ at \in [1..tup_natts -> kept]
  /\ \A j, k \in 1..tup_natts : j < k => at[j] < at[k]
  /\ \A c \in kept : \E k \in 1..tup_natts : at[k] = c

Empty == [n \in 1..0 |-> n]

\* Any table, any key of it and any row
InitEncoding ==
  /\ \E t \in Tables :
       /\ natts \in 1..t.cols /\ rel \in [1..natts -> Attribute(t.types)]
       /\ dim1 \in 1..t.key /\ indkey \in [1..dim1 -> Live]
       /\ \A f, g \in 1..dim1 : indkey[f] = indkey[g] => f = g
  /\ \E kept \in {Live, 1..natts} : Lists(kept)
  /\ row \in [1..natts -> {"null", "finite", "-infinity", "infinity"}]
  /\ \A c \in 1..natts : row[c] \in IF rel[c].dropped THEN {"null"} ELSE ValuesOf(rel[c].type)
  /\ phase = "schema" /\ i = 1 /\ predef = {} /\ fields = 0 /\ schema = Empty
  /\ field = 0 /\ value = Empty /\ rel_i = 0 /\ tup_i = 0 /\ key = Empty
  /\ InitBuffer
-----------------------------------------------------------------------------
(* Schemas *)

RecordName == [date |-> "Date", timestamp |-> "DateTime", timestamptz |-> "DateTimeTZ",
               timetz |-> "TimeTZ", interval |-> "Interval"]

schema_for_date_fields == <<"year", "month", "day">>
schema_for_time_fields == <<"hour", "minute", "second", "micro">>

\* The fields of the named records
FieldsOf ==
  [Date |-> schema_for_date_fields,
   DateTime |-> schema_for_date_fields \o schema_for_time_fields,
   DateTimeTZ |-> schema_for_date_fields \o schema_for_time_fields \o <<"zoneOffset">>,
   TimeTZ |-> <<"micro", "zoneOffset">>,
   Interval |-> schema_for_date_fields \o schema_for_time_fields]
SpecialTime == [n \in 0..1 |-> IF n = 0 THEN "infinity" ELSE "-infinity"]

\* A named type is defined where it is first used, and a link to it later
Named(name) == [ref |-> IF name \in predef THEN "link" ELSE "definition", type |-> name]
Avro(name) == [ref |-> "plain", type |-> name]

\* Variant: the enumeration is defined anew for every column
schema_for_special_times_anew(name) ==
  [b \in 0..2 |-> IF b = 0 THEN Avro("null") ELSE IF b = 1 THEN Named(name)
                  ELSE [ref |-> "definition", type |-> "SpecialTime"]]

\* Unions are functions of the number of the branch
schema_for_special_times(name) ==
  [b \in 0..2 |-> IF b = 0 THEN Avro("null") ELSE IF b = 1 THEN Named(name)
                  ELSE Named("SpecialTime")]

schema_for_oid(type) ==
  IF type \in Times THEN schema_for_special_times(RecordName[type])
  ELSE [b \in 0..1 |-> IF b = 0 THEN Avro("null")
                       ELSE IF type \in RecordTypes THEN Named(RecordName[type])
                       ELSE Avro(Plain[type])]

\* The named types a column adds to predef
Defines(type) == (IF type \in RecordTypes THEN {RecordName[type]} ELSE {})
                 \cup (IF type \in Times THEN {"SpecialTime"} ELSE {})

Unset == [branch |-> -1, set |-> "nothing", col |-> 0]

\* The loop over the columns; the value of the row is reset behind it
schema_for_table_row ==
  /\ phase = "schema"
  /\ IF i > natts
     THEN /\ phase' = "row" /\ i' = 1 /\ value' = [f \in 1..fields |-> Unset]
          /\ UNCHANGED <<predef, fields, schema>>
     ELSE /\ i' = i + 1
          /\ IF rel[i].dropped THEN UNCHANGED <<predef, fields, schema>>
             ELSE /\ fields' = fields + 1
                  /\ schema' = [f \in 1..fields + 1 |->
                       IF f <= fields THEN schema[f]
                       ELSE [name |-> i, union |-> schema_for_oid(rel[i].type)]]
                  /\ predef' = predef \cup Defines(rel[i].type)
          /\ UNCHANGED <<phase, value>>
  /\ UNCHANGED <<relation, field, rel_i, tup_i, key, buffer>>
-----------------------------------------------------------------------------
(* Values: the branch of the union that is set, and what is set in it *)

Null == [branch |-> 0, set |-> "null", col |-> 0]

date_values == <<"year", "month", "day">>
time_values == <<"hour", "minute", "second", "micro">>

\* What is set in the record, by the index of the field
RecordValues ==
  [date |-> date_values,
   timestamp |-> date_values \o time_values,
   timestamptz |-> date_values \o time_values \o <<"zoneOffset">>,
   timetz |-> <<"micro", "zoneOffset">>,
   interval |-> date_values \o time_values]

\* Variant: the symbols of the enumeration are swapped
update_avro_with_special_swapped(v, col) ==
  [branch |-> 2, set |-> IF v = "-infinity" THEN 0 ELSE 1, col |-> col]

\* DATE_NOT_FINITE, TIMESTAMP_NOT_FINITE: the number of the enumeration's symbol
update_avro_with_special(v, col) ==
  [branch |-> 2, set |-> IF v = "-infinity" THEN 1 ELSE 0, col |-> col]

\* The value of a numeric column is not set ("TODO"): it stays as reset
update_avro_with_datum(type, v, col) ==
  IF v \in {"-infinity", "infinity"} THEN update_avro_with_special(v, col)
  ELSE [branch |-> 1, col |-> col,
        set |-> IF type \in RecordTypes THEN RecordValues[type]
                ELSE IF type = "numeric" THEN "nothing" ELSE Plain[type]]

\* Attribute k of the tuple: its null, or its value
Field(k) ==
  IF row[at[k]] = "null" THEN Null
  ELSE update_avro_with_datum(tupdesc(k).type, row[at[k]], at[k])

\* The loop over the attributes: avro_value_get_by_index fails behind the last
\* field.  The value of the key is reset behind it.
tuple_to_avro_row ==
  /\ phase = "row"
  /\ IF i > tup_natts
     THEN /\ phase' = "key" /\ i' = 1 /\ key' = [f \in 1..dim1 |-> Unset]
          /\ UNCHANGED <<field, value>>
     ELSE IF tupdesc(i).dropped THEN i' = i + 1 /\ UNCHANGED <<phase, field, value, key>>
     ELSE IF field >= fields THEN phase' = "error" /\ UNCHANGED <<i, field, value, key>>
     ELSE /\ value' = [value EXCEPT ![field + 1] = Field(i)]
          /\ field' = field + 1 /\ i' = i + 1
          /\ UNCHANGED <<phase, key>>
  /\ UNCHANGED <<relation, predef, fields, schema, rel_i, tup_i, buffer>>

\* Variant: the columns dropped in the table are always left out
Passed_dropped == ~ rel[rel_i + 1].dropped

\* Does column rel_i of the table, counted from 0 like tup_i, take up an
\* attribute of the tuple?
Passed == ~ rel[rel_i + 1].dropped \/ tupdesc(tup_i + 1).dropped

Searching == i <= dim1 /\ rel_i < indkey[i] - 1

\* A turn of the loop over the columns in front of the index's
search_attribute ==
  /\ phase = "key" /\ Searching
  /\ rel_i' = rel_i + 1
  /\ tup_i' = IF Passed THEN tup_i + 1 ELSE tup_i
  /\ UNCHANGED <<relation, i, predef, fields, schema, field, value, key, phase, buffer>>

tuple_to_avro_key ==
  /\ phase = "key" /\ ~ Searching
  /\ IF i > dim1 THEN phase' = "done" /\ UNCHANGED <<i, rel_i, tup_i, key>>
     ELSE IF tup_i >= tup_natts \/ tupdesc(tup_i + 1).dropped
     THEN phase' = "error" /\ UNCHANGED <<i, rel_i, tup_i, key>>
     ELSE /\ key' = [key EXCEPT ![i] = Field(tup_i + 1)]
          /\ i' = i + 1 /\ rel_i' = 0 /\ tup_i' = 0
          /\ UNCHANGED phase
  /\ UNCHANGED <<relation, predef, fields, schema, field, value, buffer>>

\* The encoded value is written: its length is any of Lengths.  Nothing reads
\* the tuple any more, which is left out of the states.
write_avro_binary ==
  /\ phase = "done" /\ phase' = "written"
  /\ \E l \in Lengths, b \in BOOLEAN : try_writing(l, b)
  /\ natts' = 0 /\ rel' = Empty /\ tup_natts' = 0 /\ at' = Empty /\ dim1' = 0 /\ indkey' = Empty
  /\ row' = Empty /\ i' = 1 /\ predef' = {} /\ fields' = 0 /\ schema' = Empty
  /\ field' = 0 /\ value' = Empty /\ rel_i' = 0 /\ tup_i' = 0 /\ key' = Empty

\* A turn of the loop of try_writing
writing == Turn /\ UNCHANGED <<encoding, phase>>

NextEncoding == \/ schema_for_table_row \/ tuple_to_avro_row
                \/ search_attribute \/ tuple_to_avro_key
                \/ write_avro_binary \/ writing

EncodingSpec == InitEncoding /\ [][NextEncoding]_encvars
-----------------------------------------------------------------------------
(* Properties *)

Names == {"SpecialTime", "Date", "DateTime", "DateTimeTZ", "TimeTZ", "Interval"}

\* Does name occur in the text of the schema, in front of branch b of field f?
OccursBefore(name, f, b) ==
  \E g \in 1..f : \E a \in DOMAIN schema[g].union :
    (g < f \/ a < b) /\ schema[g].union[a].type = name

\* A schema is one Avro accepts: it has one field for every column that is not
\* dropped, in the table's order, null is the first branch of every union, and a
\* name is defined where it first occurs and nowhere else, and a link wherever
\* it occurs again (predef, schema_for_special_times).
SchemaValid ==
  /\ \A f, g \in 1..fields : f < g => schema[f].name < schema[g].name
  /\ phase \in {"row", "key", "done"} => {schema[f].name : f \in 1..fields} = Live
  /\ \A f \in 1..fields : schema[f].union[0] = Avro("null")
  /\ \A f \in 1..fields : \A b \in DOMAIN schema[f].union :
       LET s == schema[f].union[b] IN
       s.ref = IF s.type \notin Names THEN "plain"
               ELSE IF OccursBefore(s.type, f, b) THEN "link" ELSE "definition"

\* Does e stand for the value of column c, read as the Avro type?
Stands(e, type, c) ==
  IF row[c] = "null" THEN type = "null"
  ELSE /\ e.col = c
       /\ IF type = "SpecialTime" THEN SpecialTime[e.set] = row[c]
          ELSE /\ row[c] = "finite"
               /\ e.set = IF type \in Names THEN FieldsOf[type] ELSE type

\* Every field of an encoded row reads back, under the schema of the table, as
\* the value of the column it is named after, with or without dropped columns in
\* the tuple (schema_for_oid and update_avro_with_datum agree; numeric is not
\* written), and no field is left unset.
RowReadsBack ==
  /\ phase \in {"key", "done"} => field = fields
  /\ \A f \in 1..field :
       LET c == schema[f].name IN
       rel[c].type # "numeric" \/ row[c] = "null" =>
         /\ value[f].branch \in DOMAIN schema[f].union
         /\ Stands(value[f], schema[f].union[value[f].branch].type, c)

\* The fields of the key are, in the order of the index, the row's fields of the
\* index's columns, whichever columns have been dropped and whether or not the
\* tuple has them (tup_i), and the loop that finds them never looks behind the
\* last attribute of the tuple.
KeyIsKey ==
  /\ phase # "error"
  /\ phase \in {"key", "done"} =>
       \A f \in 1..(i - 1) : \E g \in 1..fields :
         schema[g].name = indkey[f] /\ key[f] = value[g]
  /\ phase = "key" /\ Searching /\ rel[rel_i + 1].dropped => tup_i < tup_natts
=============================================================================
