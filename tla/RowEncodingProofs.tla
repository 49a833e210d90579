------------------------- MODULE RowEncodingProofs -------------------------
(***************************************************************************)
(* Proofs about module RowEncoding: schemas are valid, rows read back and  *)
(* keys are keys, for tables with any number of columns and any key; and   *)
(* about module TryWriting: the buffer that they are written to holds all  *)
(* of what is returned, for values of every length.                        *)
(***************************************************************************)
EXTENDS RowEncoding, TLAPS

\* The table, the tuple's descriptor, which lists all columns or those that
\* are not dropped, the key and the row
TableInv ==
  /\ natts \in Nat /\ rel \in [1..natts -> Attribute(AllTypes)]
  /\ tup_natts \in Nat /\ at \in [1..tup_natts -> 1..natts]
  /\ \A j, k \in 1..tup_natts : j < k => at[j] < at[k]
  /\ \A c \in Live : \E k \in 1..tup_natts : at[k] = c
  /\ \/ \A k \in 1..tup_natts : at[k] \in Live
     \/ \A c \in 1..natts : \E k \in 1..tup_natts : at[k] = c
  /\ dim1 \in Nat /\ indkey \in [1..dim1 -> Live]
  /\ \A c \in Live : row[c] \in ValuesOf(rel[c].type)

\* The columns in front of which the loop of the schema stands
Columns == IF phase = "schema" THEN i - 1 ELSE natts

\* The type of the column a field is named after
TypeOf(f) == rel[schema[f].name].type

\* The fields are the columns seen that are not dropped, in order
FieldsInv ==
  /\ fields \in Nat
  /\ phase = "schema" => i \in 1..(natts + 1)
  /\ \A f \in 1..fields : schema[f].name \in Live /\ schema[f].name <= Columns
  /\ \A f, g \in 1..fields : f < g => schema[f].name < schema[g].name
  /\ \A c \in Live : c <= Columns => \E f \in 1..fields : schema[f].name = c

\* Is name defined by one of the fields before f?
Defined(name, f) == \E g \in 1..(f - 1) : name \in Defines(TypeOf(g))
Reference(name, f) ==
  [ref |-> IF Defined(name, f) THEN "link" ELSE "definition", type |-> name]

\* The union of field f is that of its type
HasUnion(f, type) ==
  LET union == schema[f].union IN
  /\ DOMAIN union = IF type \in Times THEN 0..2 ELSE 0..1
  /\ union[0] = Avro("null")
  /\ union[1] = IF type \in RecordTypes THEN Reference(RecordName[type], f)
                                        ELSE Avro(Plain[type])
  /\ type \in Times => union[2] = Reference("SpecialTime", f)

\* Every field has the union of its type, and predef the names of those so far
UnionsInv ==
  /\ phase = "schema" => \A n \in Names : n \in predef <=> Defined(n, fields + 1)
  /\ \A f \in 1..fields : HasUnion(f, TypeOf(f))

\* What becomes of column c, in the row and in the key
Encoded(c) ==
  IF row[c] = "null" THEN Null ELSE update_avro_with_datum(rel[c].type, row[c], c)

\* The fields that are set are those of the attributes seen
RowInv ==
  /\ field \in 0..fields
  /\ phase = "schema" => field = 0
  /\ phase # "schema" => DOMAIN value = 1..fields
  /\ phase = "row" =>
       /\ i \in 1..(tup_natts + 1)
       /\ \A f \in 1..field : \A k \in i..tup_natts : schema[f].name < at[k]
       /\ \A f \in (field + 1)..fields : \A k \in 1..(i - 1) : at[k] < schema[f].name
  /\ phase \in {"key", "done"} => field = fields
  /\ \A f \in 1..field : value[f] = Encoded(schema[f].name)

\* The search for a column of the key has passed the attributes of the columns
\* that it has passed
KeyInv ==
  /\ phase \in {"schema", "row"} => rel_i = 0 /\ tup_i = 0
  /\ phase \in {"key", "done"} =>
       /\ i \in 1..(dim1 + 1) /\ DOMAIN key = 1..dim1
       /\ \A f \in 1..(i - 1) : key[f] = Encoded(indkey[f])
  /\ phase = "key" =>
       /\ rel_i \in Nat /\ tup_i \in 0..tup_natts
       /\ i <= dim1 => rel_i < indkey[i]
       /\ \A k \in 1..tup_i : at[k] <= rel_i
       /\ \A k \in (tup_i + 1)..tup_natts : rel_i < at[k]

EncodingInv ==
  /\ phase \in {"schema", "row", "key", "done", "written"}
  /\ phase # "written" => TableInv /\ FieldsInv /\ UnionsInv /\ RowInv /\ KeyInv
  /\ phase = "written" => fields = 0 /\ field = 0

\* The search stays inside the tuple, which has an attribute for the column that
\* is looked at if and only if tuple_to_avro_key says so: the next one.
LEMMA NextAttribute ==
  ASSUME TableInv, KeyInv, phase = "key", i <= dim1, rel_i < natts
  PROVE  /\ tup_i < tup_natts
         /\ Passed => at[tup_i + 1] = rel_i + 1
         /\ ~ Passed => \A k \in 1..tup_natts : at[k] # rel_i + 1
<1>. DEFINE c == rel_i + 1
<1>1. /\ c \in 1..natts /\ tup_i \in 0..tup_natts /\ tup_natts \in Nat
      /\ at \in [1..tup_natts -> 1..natts]
      /\ \A k \in 1..tup_i : at[k] < c
      /\ \A k \in (tup_i + 1)..tup_natts : c <= at[k]
      /\ \A j, k \in 1..tup_natts : j < k => at[j] < at[k]
  <2>1. natts \in Nat /\ rel_i \in Nat /\ tup_i \in 0..tup_natts /\ tup_natts \in Nat
        /\ at \in [1..tup_natts -> 1..natts]
    BY Zenon DEF TableInv, KeyInv
  <2>2. \A k \in 1..tup_i : at[k] < c
    BY <2>1 DEF KeyInv
  <2>3. \A k \in (tup_i + 1)..tup_natts : c <= at[k]
    BY <2>1 DEF KeyInv
  <2>. QED
    BY <2>1, <2>2, <2>3 DEF TableInv
<1>. HIDE DEF c
<1>2. ASSUME NEW k \in 1..tup_natts, at[k] = c
      PROVE  tup_i < tup_natts /\ at[tup_i + 1] = c
  <2>1. k > tup_i
    BY <1>1, <1>2
  <2>. QED
    BY <1>1, <1>2, <2>1, SMTT(20)
<1>3. indkey[i] \in Live /\ indkey[i] \in 1..natts /\ indkey[i] >= c
  <2>1. i \in 1..dim1 /\ rel_i < indkey[i] /\ rel_i \in Nat
    BY DEF TableInv, KeyInv
  <2>2. indkey[i] \in Live
    BY <2>1 DEF TableInv
  <2>3. indkey[i] \in 1..natts
    BY <2>2 DEF Live
  <2>. QED
    BY <1>1, <2>1, <2>2, <2>3 DEF c
<1>4. tup_i < tup_natts
  <2>1. PICK k \in 1..tup_natts : at[k] = indkey[i]
    BY <1>3 DEF TableInv
  <2>. QED
    BY <1>1, <1>3, <2>1
<1>5. CASE c \in Live
  <2>1. at[tup_i + 1] = c
    BY <1>2, <1>5 DEF TableInv
  <2>2. Passed
    BY <1>5 DEF Passed, Live, c
  <2>. QED
    BY <1>4, <2>1, <2>2 DEF c
<1>6. CASE c \notin Live
  <2>1. rel[c].dropped
    BY <1>1, <1>6 DEF Live
  <2>2. CASE \A k \in 1..tup_natts : at[k] \in Live
    <3>1. tup_i + 1 \in 1..tup_natts
      BY <1>1, <1>4
    <3>2. ~ Passed
      BY <2>1, <2>2, <3>1 DEF Passed, Live, tupdesc, c
    <3>. QED
      BY <1>4, <1>6, <2>2, <3>2 DEF c
  <2>3. CASE \A d \in 1..natts : \E k \in 1..tup_natts : at[k] = d
    <3>1. at[tup_i + 1] = c
      BY <1>1, <1>2, <2>3
    <3>2. Passed
      BY <2>1, <3>1 DEF Passed, tupdesc
    <3>. QED
      BY <1>4, <3>1, <3>2 DEF c
  <2>. QED
    BY <2>2, <2>3 DEF TableInv
<1>. QED
  BY <1>5, <1>6

\* A field that is not dropped goes with the next attribute that is not dropped.
LEMMA NextField ==
  ASSUME TableInv, FieldsInv, RowInv, phase = "row", i <= tup_natts
  PROVE  /\ at[i] \in Live => field < fields /\ schema[field + 1].name = at[i]
         /\ at[i] \notin Live => \A f \in (field + 1)..fields : at[i] < schema[f].name
<1>1. /\ tup_natts \in Nat /\ i \in 1..tup_natts /\ fields \in Nat /\ field \in 0..fields
      /\ at \in [1..tup_natts -> 1..natts] /\ natts \in Nat
  BY DEF TableInv, FieldsInv, RowInv
<1>2. \A j, k \in 1..tup_natts : j < k => at[j] < at[k]
  BY DEF TableInv
<1>3. \A f \in 1..fields : schema[f].name \in Live /\ schema[f].name \in 1..natts
  BY DEF FieldsInv, Live
<1>4. /\ \A f \in 1..field : schema[f].name < at[i]
      /\ \A f \in (field + 1)..fields : \A k \in 1..(i - 1) : at[k] < schema[f].name
  <2>1. i \in i..tup_natts
    BY <1>1
  <2>. QED
    BY <2>1, Zenon DEF RowInv
<1>5. ASSUME NEW f \in (field + 1)..fields
      PROVE  /\ at[i] <= schema[f].name
             /\ at[i] \notin Live => at[i] < schema[f].name
  <2>1. f \in 1..fields
    BY <1>1
  <2>2. PICK k \in 1..tup_natts : at[k] = schema[f].name
    BY <1>3, <2>1, Zenon DEF TableInv
  <2>3. k >= i
    BY <1>1, <1>3, <1>4, <2>1, <2>2
  <2>4. CASE k = i
    BY <1>1, <1>3, <2>1, <2>2, <2>4
  <2>5. CASE k > i
    BY <1>1, <1>2, <2>2, <2>5
  <2>. QED
    BY <1>1, <2>3, <2>4, <2>5
<1>6. ASSUME at[i] \in Live
      PROVE  field < fields /\ schema[field + 1].name = at[i]
  <2>1. PICK f \in 1..fields : schema[f].name = at[i]
    BY <1>1, <1>6, SMTT(20) DEF FieldsInv, Columns, Live
  <2>2. f > field
    BY <1>1, <1>3, <1>4, <2>1
  <2>3. CASE f = field + 1
    BY <1>1, <2>1, <2>3
  <2>4. CASE f > field + 1
    <3>1. schema[field + 1].name < schema[f].name
      BY <1>1, <2>4 DEF FieldsInv
    <3>2. at[i] <= schema[field + 1].name
      BY <1>1, <1>5, <2>4
    <3>. QED
      BY <1>1, <1>3, <2>1, <2>4, <3>1, <3>2
  <2>. QED
    BY <1>1, <2>2, <2>3, <2>4
<1>. QED
  BY <1>5, <1>6

\* The table is left alone while it is encoded.
LEMMA TableKept == ASSUME TableInv, UNCHANGED relation PROVE TableInv' /\ Live' = Live
BY DEF TableInv, relation, Live

\* The names of the records, and of the enumeration, are told apart.
LEMMA NameFacts ==
  /\ \A t \in RecordTypes : RecordName[t] \in Names \ {"SpecialTime"}
  /\ \A t \in DOMAIN Plain : Plain[t] \notin Names
  /\ \A t \in AllTypes : Defines(t) \subseteq Names
  /\ \A t \in AllTypes \ RecordTypes : t \in DOMAIN Plain
<1>1. \A t \in RecordTypes : RecordName[t] \in Names \ {"SpecialTime"}
  BY DEF RecordTypes, Times, RecordName, Names
<1>2. \A t \in DOMAIN Plain : Plain[t] \notin Names
  BY DEF Plain, Names
<1>3. \A t \in AllTypes : Defines(t) \subseteq Names
  <2>1. "SpecialTime" \in Names
    BY DEF Names
  <2>. QED
    BY <1>1, <2>1 DEF Defines
<1>. QED
  BY <1>1, <1>2, <1>3 DEF AllTypes

\* The end of the loop of the schema.
LEMMA SchemaEnd ==
  ASSUME EncodingInv, schema_for_table_row, i > natts
  PROVE  EncodingInv'
<1>1. TableInv /\ FieldsInv /\ UnionsInv /\ RowInv /\ KeyInv /\ phase = "schema"
  BY DEF EncodingInv, schema_for_table_row
<1>2. /\ phase' = "row" /\ i' = 1 /\ value' = [f \in 1..fields |-> Unset]
      /\ UNCHANGED <<predef, fields, schema, relation, field, rel_i, tup_i, key>>
  BY DEF schema_for_table_row
<1>3. TableInv' /\ Live' = Live /\ natts' = natts /\ rel' = rel
  BY <1>1, <1>2, TableKept, Zenon DEF relation
<1>4. natts \in Nat /\ i = natts + 1 /\ field = 0 /\ fields \in Nat /\ tup_natts \in Nat
  BY <1>1 DEF TableInv, FieldsInv, RowInv
<1>5. FieldsInv'
  <2>1. Columns' = Columns
    BY <1>1, <1>2, <1>3, <1>4, SMTT(20) DEF Columns
  <2>. QED
    BY <1>1, <1>2, <1>3, <2>1 DEF FieldsInv
<1>6. UnionsInv'
  BY <1>1, <1>2, <1>3 DEF UnionsInv, HasUnion, Reference, Defined, TypeOf
<1>7. RowInv'
  <2>1. field' = 0 /\ fields' = fields /\ DOMAIN value' = 1..fields
    BY <1>2, <1>4
  <2>2. tup_natts' = tup_natts
    BY <1>2, Zenon DEF relation
  <2>. QED
    BY <1>2, <1>4, <2>1, <2>2 DEF RowInv
<1>8. KeyInv'
  BY <1>1, <1>2, Zenon DEF KeyInv
<1>. QED
  BY <1>2, <1>3, <1>5, <1>6, <1>7, <1>8, Zenon DEF EncodingInv

\* A column that is dropped.
LEMMA SchemaSkip ==
  ASSUME EncodingInv, schema_for_table_row, ~ (i > natts), rel[i].dropped
  PROVE  EncodingInv'
<1>1. TableInv /\ FieldsInv /\ UnionsInv /\ RowInv /\ KeyInv /\ phase = "schema"
  BY Zenon DEF EncodingInv, schema_for_table_row
<1>2. /\ phase' = "schema" /\ i' = i + 1
      /\ UNCHANGED <<value, predef, fields, schema, relation, field, rel_i, tup_i, key>>
  BY DEF schema_for_table_row
<1>3. TableInv' /\ Live' = Live /\ natts' = natts /\ rel' = rel
  BY <1>1, <1>2, TableKept, Zenon DEF relation
<1>4. natts \in Nat /\ i \in 1..natts /\ field = 0 /\ fields \in Nat
  BY <1>1 DEF TableInv, FieldsInv, RowInv
<1>5. FieldsInv'
  <2>1. Columns = i - 1 /\ Columns' = i
    BY <1>1, <1>2, <1>4 DEF Columns
  <2>2. \A c \in Live : c \in 1..natts /\ c # i
    BY DEF Live
  <2>3. \A c \in Live : c <= i => c <= i - 1
    BY <1>4, <2>2
  <2>4. \A f \in 1..fields : schema[f].name \in Live /\ schema[f].name <= i
    BY <1>1, <1>4, <2>1, <2>2 DEF FieldsInv
  <2>5. /\ \A f, g \in 1..fields : f < g => schema[f].name < schema[g].name
        /\ \A c \in Live : c <= i => \E f \in 1..fields : schema[f].name = c
    BY <1>1, <2>1, <2>3 DEF FieldsInv
  <2>6. i + 1 \in 1..(natts + 1)
    BY <1>4
  <2>. QED
    BY <1>2, <1>3, <1>4, <2>1, <2>4, <2>5, <2>6, Zenon DEF FieldsInv
<1>6. UnionsInv'
  BY <1>1, <1>2, <1>3, ZenonT(30) DEF UnionsInv, HasUnion, Reference, Defined, TypeOf
<1>7. RowInv'
  <2>1. field' = 0 /\ fields' = fields
    BY <1>2, <1>4
  <2>. QED
    BY <1>2, <1>4, <2>1 DEF RowInv
<1>8. KeyInv'
  BY <1>1, <1>2 DEF KeyInv
<1>. QED
  BY <1>2, <1>3, <1>5, <1>6, <1>7, <1>8, Zenon DEF EncodingInv

\* A column that becomes a field.
LEMMA SchemaField ==
  ASSUME EncodingInv, schema_for_table_row, ~ (i > natts), ~ rel[i].dropped
  PROVE  EncodingInv'
<1>. PICK n, type : n = fields + 1 /\ type = rel[i].type
  BY Zenon
<1>. DEFINE new == [name |-> i, union |-> schema_for_oid(type)]
<1>1. TableInv /\ FieldsInv /\ UnionsInv /\ RowInv /\ KeyInv /\ phase = "schema"
  BY Zenon DEF EncodingInv, schema_for_table_row
<1>2. /\ phase' = "schema" /\ i' = i + 1 /\ fields' = n
      /\ schema' = [f \in 1..n |-> IF f <= fields THEN schema[f] ELSE new]
      /\ predef' = predef \cup Defines(type)
      /\ UNCHANGED <<value, relation, field, rel_i, tup_i, key>>
  BY Zenon DEF schema_for_table_row
<1>3. TableInv' /\ Live' = Live /\ natts' = natts /\ rel' = rel
  BY <1>1, <1>2, TableKept, Zenon DEF relation
<1>4. natts \in Nat /\ i \in 1..natts /\ field = 0 /\ fields \in Nat
  BY <1>1 DEF TableInv, FieldsInv, RowInv
<1>5. type \in AllTypes /\ i \in Live
  BY <1>1, <1>4, Zenon DEF TableInv, Live, Attribute
<1>6. /\ \A f \in 1..fields : schema'[f] = schema[f]
      /\ schema'[n] = new /\ n \in Nat /\ 1..n = (1..fields) \cup {n}
  <2>. HIDE DEF new
  <2>. QED
    BY <1>2, <1>4
<1>7. new.name = i /\ new.union = schema_for_oid(type)
  BY Zenon
<1>. HIDE DEF new
<1>8. FieldsInv'
  <2>1. Columns = i - 1 /\ Columns' = i
    BY <1>1, <1>2, <1>4 DEF Columns
  <2>2. Live \subseteq 1..natts
    BY DEF Live
  <2>7. \A f \in 1..fields : schema[f].name \in Live /\ schema[f].name \in 1..natts
                             /\ schema[f].name <= i - 1
    BY <1>1, <2>1, <2>2, Zenon DEF FieldsInv
  <2>3. \A f \in 1..n : schema'[f].name \in Live /\ schema'[f].name <= i
    BY <1>4, <1>5, <1>6, <1>7, <2>7
  <2>4. ASSUME NEW f \in 1..n, NEW g \in 1..n, f < g
        PROVE  schema'[f].name < schema'[g].name
    <3>1. f \in 1..fields /\ schema'[f] = schema[f] /\ schema[f].name \in 1..natts
          /\ schema[f].name <= i - 1
      BY <1>4, <1>6, <2>4, <2>7
    <3>2. CASE g = n
      BY <1>4, <1>6, <1>7, <3>1, <3>2
    <3>3. CASE g \in 1..fields
      BY <1>1, <1>6, <2>4, <3>1, <3>3, Zenon DEF FieldsInv
    <3>. QED
      BY <1>6, <3>2, <3>3, Zenon
  <2>5. ASSUME NEW c \in Live, c <= i
        PROVE  \E f \in 1..n : schema'[f].name = c
    <3>1. CASE c = i
      BY <1>6, <1>7, <3>1, Zenon
    <3>2. CASE c # i
      <4>1. c <= i - 1
        BY <1>4, <2>2, <2>5, <3>2
      <4>2. PICK f \in 1..fields : schema[f].name = c
        BY <1>1, <2>1, <4>1 DEF FieldsInv
      <4>. QED
        BY <1>6, <4>2, Zenon
    <3>. QED
      BY <3>1, <3>2, Zenon
  <2>6. i + 1 \in 1..(natts + 1)
    BY <1>4
  <2>. QED
    BY <1>2, <1>3, <1>6, <2>1, <2>3, <2>4, <2>5, <2>6 DEF FieldsInv
<1>9. /\ \A f \in 1..fields : TypeOf(f)' = TypeOf(f)
      /\ TypeOf(n)' = type
  BY <1>2, <1>3, <1>6, <1>7, Zenon DEF TypeOf
<1>10. UnionsInv'
  <2>1. ASSUME NEW f \in 1..n, NEW name PROVE Defined(name, f)' <=> Defined(name, f)
    <3>1. 1..(f - 1) \subseteq 1..fields
      BY <1>4
    <3>. QED
      BY <1>9, <3>1 DEF Defined
  <2>2. ASSUME NEW name \in Names PROVE name \in predef' <=> Defined(name, n + 1)'
    <3>1. name \in predef <=> \E g \in 1..fields : name \in Defines(TypeOf(g))
      BY <1>1, <1>4 DEF UnionsInv, Defined
    <3>2. Defined(name, n + 1)' <=> \E g \in 1..n : name \in Defines(TypeOf(g)')
      BY <1>4 DEF Defined, Defines
    <3>. QED
      BY <1>2, <1>6, <1>9, <3>1, <3>2, Zenon
  <2>3. ASSUME NEW name \in Names PROVE Named(name) = Reference(name, n)'
    BY <1>1, <1>6, <2>1, <2>3 DEF UnionsInv, Named, Reference
  <2>4. ASSUME NEW f \in 1..fields
        PROVE  HasUnion(f, TypeOf(f))'
    <3>1. PICK t : t = TypeOf(f)
      BY Zenon
    <3>2. \A name : Reference(name, f)' = Reference(name, f)
      BY <1>6, <2>1, Zenon DEF Reference
    <3>3. HasUnion(f, t)
      BY <1>1, <3>1, Zenon DEF UnionsInv
    <3>4. HasUnion(f, t)'
      BY <1>6, <3>2, <3>3, Zenon DEF HasUnion
    <3>. QED
      BY <1>9, <3>1, <3>4
  <2>5. HasUnion(n, type)'
    <3>1. type \in RecordTypes => RecordName[type] \in Names
      BY NameFacts
    <3>2. "SpecialTime" \in Names
      BY Zenon DEF Names
    <3>3. schema'[n].union = schema_for_oid(type)
      BY <1>6, <1>7, Zenon
    <3>4. CASE type \in Times
      <4>1. type \in RecordTypes
        BY <3>4, Zenon DEF RecordTypes
      <4>2. schema_for_oid(type) = schema_for_special_times(RecordName[type])
        BY <3>4, Zenon DEF schema_for_oid
      <4>3. /\ Named(RecordName[type]) = Reference(RecordName[type], n)'
            /\ Named("SpecialTime") = Reference("SpecialTime", n)'
        BY <2>3, <3>1, <3>2, <4>1, Zenon
      <4>. QED
        BY <3>3, <3>4, <4>1, <4>2, <4>3 DEF schema_for_special_times, HasUnion
    <3>5. CASE type \notin Times
      <4>1. schema_for_oid(type) =
              [b \in 0..1 |-> IF b = 0 THEN Avro("null")
                             ELSE IF type \in RecordTypes THEN Named(RecordName[type])
                             ELSE Avro(Plain[type])]
        BY <3>5, Zenon DEF schema_for_oid
      <4>2. type \in RecordTypes => Named(RecordName[type]) = Reference(RecordName[type], n)'
        BY <2>3, <3>1, Zenon
      <4>. QED
        BY <3>3, <3>5, <4>1, <4>2 DEF HasUnion
    <3>. QED
      BY <3>4, <3>5, Zenon
  <2>. QED
    BY <1>2, <1>6, <1>9, <2>2, <2>4, <2>5, Zenon DEF UnionsInv
<1>11. RowInv'
  <2>1. field' = 0 /\ fields' = n
    BY <1>2, <1>4, Zenon
  <2>. QED
    BY <1>2, <1>4, <1>6, <2>1 DEF RowInv
<1>12. KeyInv'
  BY <1>1, <1>2 DEF KeyInv
<1>. QED
  BY <1>2, <1>3, <1>8, <1>10, <1>11, <1>12 DEF EncodingInv

\* The schema is left alone behind its loop, and its types are those of the table.
LEMMA SchemaKept ==
  ASSUME FieldsInv, UnionsInv, phase # "schema", phase' # "schema",
         UNCHANGED <<relation, fields, schema>>
  PROVE  FieldsInv' /\ UnionsInv'
<1>1. rel' = rel /\ natts' = natts /\ Live' = Live /\ fields' = fields /\ schema' = schema
  BY Zenon DEF relation, Live
<1>2. FieldsInv'
  BY <1>1, ZenonT(30) DEF FieldsInv, Columns
<1>3. UnionsInv'
  BY <1>1, ZenonT(30) DEF UnionsInv, HasUnion, Reference, Defined, TypeOf
<1>. QED
  BY <1>2, <1>3, Zenon

\* What a column becomes does not change.
LEMMA EncodedKept ==
  ASSUME UNCHANGED relation
  PROVE  \A c : Encoded(c)' = Encoded(c)
BY Zenon DEF relation, Encoded, update_avro_with_datum, update_avro_with_special, Null

\* An attribute is encoded as its column.
LEMMA FieldIsEncoded == \A k : Field(k) = Encoded(at[k])
BY DEF Field, Encoded, tupdesc

\* A step of the loop over the attributes of the row: there is a field for every
\* one that is not dropped, and it is the next one.
LEMMA RowStep == ASSUME EncodingInv, tuple_to_avro_row PROVE EncodingInv'
<1>1. TableInv /\ FieldsInv /\ UnionsInv /\ RowInv /\ KeyInv /\ phase = "row"
  BY Zenon DEF EncodingInv, tuple_to_avro_row
<1>2. UNCHANGED <<relation, predef, fields, schema, rel_i, tup_i>>
  BY Zenon DEF tuple_to_avro_row
<1>3. /\ natts \in Nat /\ tup_natts \in Nat /\ i \in 1..(tup_natts + 1) /\ fields \in Nat
      /\ field \in 0..fields /\ DOMAIN value = 1..fields /\ dim1 \in Nat
      /\ at \in [1..tup_natts -> 1..natts]
  BY <1>1, Zenon DEF TableInv, FieldsInv, RowInv
<1>4. TableInv' /\ at' = at /\ dim1' = dim1 /\ tup_natts' = tup_natts
  BY <1>1, <1>2, TableKept, Zenon DEF relation
<1>5. CASE i > tup_natts
  <2>1. /\ phase' = "key" /\ i' = 1 /\ key' = [f \in 1..dim1 |-> Unset]
        /\ field' = field /\ value' = value
    BY <1>1, <1>5, Zenon DEF tuple_to_avro_row
  <2>2. FieldsInv' /\ UnionsInv'
    BY <1>1, <1>2, <2>1, SchemaKept, Zenon
  <2>3. field = fields
    <3>1. SUFFICES ASSUME field < fields PROVE FALSE
      BY <1>3
    <3>2. field + 1 \in 1..fields
      BY <1>3, <3>1
    <3>3. schema[field + 1].name \in Live
      BY <1>1, <3>2, Zenon DEF FieldsInv
    <3>4. PICK k \in 1..tup_natts : at[k] = schema[field + 1].name
      BY <1>1, <3>3, Zenon DEF TableInv
    <3>5. at[k] < schema[field + 1].name
      BY <1>1, <1>3, <1>5, <3>1 DEF RowInv
    <3>. QED
      BY <1>3, <3>4, <3>5
  <2>4. RowInv'
    <3>1. \A f \in 1..field : value'[f] = Encoded(schema[f].name)'
      BY <1>1, <1>2, <2>1, EncodedKept, Zenon DEF RowInv
    <3>. QED
      BY <1>2, <1>3, <2>1, <2>3, <3>1, Zenon DEF RowInv
  <2>5. KeyInv'
    <3>1. rel_i' = 0 /\ tup_i' = 0
      BY <1>1, <1>2, Zenon DEF KeyInv
    <3>2. 1 <= dim1 => 0 < indkey'[1]
      <4>1. 1 <= dim1 => indkey'[1] \in Live'
        BY <1>3, <1>4 DEF TableInv
      <4>. QED
        BY <1>3, <4>1 DEF Live
    <3>3. \A k \in 1..tup_natts : 0 < at[k]
      BY <1>3
    <3>. QED
      BY <1>3, <1>4, <2>1, <3>1, <3>2, <3>3 DEF KeyInv
  <2>. QED
    BY <1>4, <2>1, <2>2, <2>4, <2>5, Zenon DEF EncodingInv
<1>6. ASSUME i <= tup_natts PROVE EncodingInv'
  <2>1. i \in 1..tup_natts /\ ~ (i > tup_natts) /\ at[i] \in 1..natts
    BY <1>3, <1>6
  <2>2. /\ at[i] \in Live => field < fields /\ schema[field + 1].name = at[i]
        /\ at[i] \notin Live => \A f \in (field + 1)..fields : at[i] < schema[f].name
    BY <1>1, <1>6, NextField, Zenon
  <2>3. tupdesc(i).dropped <=> at[i] \notin Live
    BY <2>1, Zenon DEF tupdesc, Live
  <2>4. at[i] \in Live => ~ (field >= fields)
    BY <1>3, <2>2
  <2>5. phase' = "row" /\ i' = i + 1 /\ key' = key
    BY <1>1, <2>1, <2>3, <2>4, Zenon DEF tuple_to_avro_row
  <2>6. FieldsInv' /\ UnionsInv'
    BY <1>1, <1>2, <2>5, SchemaKept, Zenon
  <2>7. KeyInv'
    BY <1>1, <1>2, <2>5, Zenon DEF KeyInv
  <2>8. /\ \A f \in 1..field : \A k \in i..tup_natts : schema[f].name < at[k]
        /\ \A f \in (field + 1)..fields : \A k \in 1..(i - 1) : at[k] < schema[f].name
    BY <1>1, Zenon DEF RowInv
  <2>9. \A f, g \in 1..fields : f < g => schema[f].name < schema[g].name
    BY <1>1, Zenon DEF FieldsInv
  <2>10. \A j, k \in 1..tup_natts : j < k => at[j] < at[k]
    BY <1>1, Zenon DEF TableInv
  <2>11. CASE at[i] \notin Live
    <3>1. field' = field /\ value' = value
      BY <1>1, <2>1, <2>3, <2>11, Zenon DEF tuple_to_avro_row
    <3>2. \A f \in (field + 1)..fields : \A k \in 1..i : at[k] < schema[f].name
      BY <1>3, <2>1, <2>2, <2>8, <2>11
    <3>3. \A f \in 1..field : \A k \in (i + 1)..tup_natts : schema[f].name < at[k]
      BY <1>3, <2>8
    <3>4. \A f \in 1..field : value'[f] = Encoded(schema[f].name)'
      BY <1>1, <1>2, <3>1, EncodedKept, Zenon DEF RowInv
    <3>5. RowInv'
      BY <1>2, <1>3, <1>4, <2>1, <2>5, <3>1, <3>2, <3>3, <3>4 DEF RowInv
    <3>. QED
      BY <1>4, <2>5, <2>6, <2>7, <3>5, Zenon DEF EncodingInv
  <2>12. CASE at[i] \in Live
    <3>1. field' = field + 1 /\ value' = [value EXCEPT ![field + 1] = Field(i)]
      BY <1>1, <2>1, <2>3, <2>4, <2>12, Zenon DEF tuple_to_avro_row
    <3>2. field < fields /\ schema[field + 1].name = at[i]
      BY <2>2, <2>12, Zenon
    <3>3. \A f \in (field + 2)..fields : \A k \in 1..i : at[k] < schema[f].name
      <4>1. \A f \in (field + 2)..fields : at[i] < schema[f].name
        BY <1>3, <2>9, <3>2
      <4>2. \A f \in (field + 2)..fields : f \in (field + 1)..fields
        BY <1>3
      <4>3. \A k \in 1..i : k = i \/ k \in 1..(i - 1)
        BY <2>1
      <4>. QED
        BY <2>8, <4>1, <4>2, <4>3, Zenon
    <3>4. \A f \in 1..(field + 1) : \A k \in (i + 1)..tup_natts : schema[f].name < at[k]
      <4>1. \A k \in (i + 1)..tup_natts : at[i] < at[k]
        BY <1>3, <2>1, <2>10
      <4>. QED
        BY <1>3, <2>8, <3>2, <4>1, SMTT(20)
    <3>5. \A f \in 1..(field + 1) : value'[f] = Encoded(schema[f].name)'
      <4>1. \A f \in 1..field : value[f] = Encoded(schema[f].name)
        BY <1>1, Zenon DEF RowInv
      <4>2. \A f \in 1..(field + 1) : value'[f] = Encoded(schema[f].name)
        BY <1>3, <3>1, <3>2, <4>1, FieldIsEncoded, SMTT(20)
      <4>. QED
        BY <1>2, <4>2, EncodedKept
    <3>6. DOMAIN value' = 1..fields /\ field + 1 \in 0..fields
      BY <1>3, <3>1, <3>2
    <3>7. RowInv'
      BY <1>2, <1>3, <1>4, <2>1, <2>5, <3>1, <3>3, <3>4, <3>5, <3>6 DEF RowInv
    <3>. QED
      BY <1>4, <2>5, <2>6, <2>7, <3>7 DEF EncodingInv
  <2>. QED
    BY <2>11, <2>12
<1>. QED
  BY <1>3, <1>5, <1>6

\* The row is left alone behind its loop.
LEMMA RowKept ==
  ASSUME RowInv, phase = "key", phase' \in {"key", "done"},
         UNCHANGED <<relation, fields, schema, field, value>>
  PROVE  RowInv'
<1>1. \A f \in 1..field : value'[f] = Encoded(schema[f].name)'
  BY EncodedKept, Zenon DEF RowInv
<1>. QED
  BY <1>1, Zenon DEF RowInv

\* A turn of the search keeps apart the attributes passed and those to come.
LEMMA SearchStep == ASSUME EncodingInv, search_attribute PROVE EncodingInv'
<1>1. TableInv /\ FieldsInv /\ UnionsInv /\ RowInv /\ KeyInv /\ phase = "key"
  BY Zenon DEF EncodingInv, search_attribute
<1>2. /\ UNCHANGED <<relation, i, fields, schema, field, value, key, phase>>
      /\ rel_i' = rel_i + 1 /\ tup_i' = (IF Passed THEN tup_i + 1 ELSE tup_i)
  BY Zenon DEF search_attribute
<1>3. /\ natts \in Nat /\ tup_natts \in Nat /\ dim1 \in Nat /\ i \in 1..dim1
      /\ rel_i \in Nat /\ tup_i \in 0..tup_natts /\ rel_i < indkey[i] - 1
      /\ at \in [1..tup_natts -> 1..natts]
  <2>1. i <= dim1 /\ rel_i < indkey[i] - 1
    BY DEF search_attribute, Searching
  <2>. QED
    BY <1>1, <2>1, SMTT(20) DEF TableInv, KeyInv
<1>4. TableInv' /\ at' = at /\ indkey' = indkey /\ dim1' = dim1 /\ tup_natts' = tup_natts
  BY <1>1, <1>2, TableKept DEF relation
<1>5. FieldsInv' /\ UnionsInv' /\ RowInv'
  BY <1>1, <1>2, SchemaKept, RowKept
<1>6. indkey[i] \in 1..natts
  <2>1. indkey[i] \in Live
    BY <1>1, <1>3, Zenon DEF TableInv
  <2>. QED
    BY <2>1 DEF Live
<1>7. /\ tup_i < tup_natts
      /\ Passed => at[tup_i + 1] = rel_i + 1
      /\ ~ Passed => \A k \in 1..tup_natts : at[k] # rel_i + 1
  BY <1>1, <1>3, <1>6, NextAttribute
<1>8. /\ \A k \in 1..tup_i : at[k] <= rel_i
      /\ \A k \in (tup_i + 1)..tup_natts : rel_i < at[k]
      /\ \A f \in 1..(i - 1) : key[f] = Encoded(indkey[f])
      /\ DOMAIN key = 1..dim1
  BY <1>1, Zenon DEF KeyInv
<1>9. /\ tup_i' \in 0..tup_natts
      /\ \A k \in 1..tup_i' : at[k] <= rel_i + 1
      /\ \A k \in (tup_i' + 1)..tup_natts : rel_i + 1 < at[k]
  <2>1. CASE Passed
    <3>1. tup_i' = tup_i + 1 /\ tup_i + 1 \in 1..tup_natts /\ at[tup_i + 1] = rel_i + 1
      BY <1>2, <1>3, <1>7, <2>1
    <3>2. \A j, k \in 1..tup_natts : j < k => at[j] < at[k]
      BY <1>1, Zenon DEF TableInv
    <3>3. \A k \in 1..(tup_i + 1) : at[k] <= rel_i + 1
      BY <1>3, <1>8, <3>1, SMTT(20)
    <3>4. \A k \in (tup_i + 2)..tup_natts : rel_i + 1 < at[k]
      BY <1>3, <3>1, <3>2
    <3>. QED
      BY <1>3, <3>1, <3>3, <3>4
  <2>2. CASE ~ Passed
    <3>1. tup_i' = tup_i
      BY <1>2, <2>2, Zenon
    <3>2. \A k \in 1..tup_i : at[k] <= rel_i + 1
      BY <1>3, <1>8
    <3>3. \A k \in (tup_i + 1)..tup_natts : rel_i + 1 < at[k]
      BY <1>3, <1>7, <1>8, <2>2
    <3>. QED
      BY <1>3, <3>1, <3>2, <3>3
  <2>. QED
    BY <2>1, <2>2, Zenon
<1>10. KeyInv'
  <2>1. \A f \in 1..(i - 1) : key'[f] = Encoded(indkey[f])'
    BY <1>2, <1>4, <1>8, EncodedKept, Zenon
  <2>2. rel_i' \in Nat /\ rel_i' < indkey[i]
    BY <1>2, <1>3, <1>6
  <2>. QED
    BY <1>1, <1>2, <1>3, <1>4, <1>8, <1>9, <2>1, <2>2, Zenon DEF KeyInv
<1>. QED
  BY <1>1, <1>2, <1>4, <1>5, <1>10, Zenon DEF EncodingInv

\* Once the search has passed the columns in front of the index's, the next
\* attribute is that column's.
LEMMA KeyStep == ASSUME EncodingInv, tuple_to_avro_key PROVE EncodingInv'
<1>1. TableInv /\ FieldsInv /\ UnionsInv /\ RowInv /\ KeyInv /\ phase = "key" /\ ~ Searching
  BY Zenon DEF EncodingInv, tuple_to_avro_key
<1>2. UNCHANGED <<relation, predef, fields, schema, field, value>>
  BY Zenon DEF tuple_to_avro_key
<1>3. /\ natts \in Nat /\ tup_natts \in Nat /\ dim1 \in Nat /\ i \in 1..(dim1 + 1)
      /\ rel_i \in Nat /\ tup_i \in 0..tup_natts /\ DOMAIN key = 1..dim1
      /\ at \in [1..tup_natts -> 1..natts]
      /\ \A f \in 1..(i - 1) : key[f] = Encoded(indkey[f])
  BY <1>1, Zenon DEF TableInv, KeyInv
<1>4. TableInv' /\ at' = at /\ indkey' = indkey /\ dim1' = dim1 /\ tup_natts' = tup_natts
  BY <1>1, <1>2, TableKept, Zenon DEF relation
<1>5. CASE i > dim1
  <2>1. phase' = "done" /\ UNCHANGED <<i, rel_i, tup_i, key>>
    BY <1>5, Zenon DEF tuple_to_avro_key
  <2>2. FieldsInv' /\ UnionsInv' /\ RowInv'
    BY <1>1, <1>2, <2>1, SchemaKept, RowKept, Zenon
  <2>3. KeyInv'
    <3>1. \A f \in 1..(i - 1) : key'[f] = Encoded(indkey[f])'
      BY <1>2, <1>3, <1>4, <2>1, EncodedKept, Zenon
    <3>. QED
      BY <1>3, <1>4, <2>1, <3>1, Zenon DEF KeyInv
  <2>. QED
    BY <1>4, <2>1, <2>2, <2>3, Zenon DEF EncodingInv
<1>6. ASSUME i <= dim1 PROVE EncodingInv'
  <2>1. i \in 1..dim1 /\ ~ (i > dim1)
    BY <1>3, <1>6
  <2>2. indkey[i] \in Live
    BY <1>1, <2>1, Zenon DEF TableInv
  <2>3. indkey[i] \in 1..natts /\ rel_i = indkey[i] - 1
    <3>1. indkey[i] \in 1..natts
      BY <2>2 DEF Live
    <3>2. rel_i < indkey[i]
      BY <1>1, <1>6, Zenon DEF KeyInv
    <3>. QED
      BY <1>1, <1>3, <1>6, <3>1, <3>2 DEF Searching
  <2>4. rel_i < natts /\ rel_i + 1 = indkey[i]
    BY <1>3, <2>3
  <2>5. Passed
    BY <2>2, <2>4 DEF Passed, Live
  <2>6. tup_i < tup_natts /\ at[tup_i + 1] = indkey[i]
    BY <1>1, <1>6, <2>4, <2>5, NextAttribute, Zenon
  <2>7. ~ (tup_i >= tup_natts \/ tupdesc(tup_i + 1).dropped)
    BY <1>3, <2>2, <2>6 DEF tupdesc, Live
  <2>8. /\ key' = [key EXCEPT ![i] = Field(tup_i + 1)]
        /\ i' = i + 1 /\ rel_i' = 0 /\ tup_i' = 0 /\ phase' = "key"
    BY <1>1, <2>1, <2>7, Zenon DEF tuple_to_avro_key
  <2>9. FieldsInv' /\ UnionsInv' /\ RowInv'
    BY <1>1, <1>2, <2>8, SchemaKept, RowKept, Zenon
  <2>10. KeyInv'
    <3>1. \A f \in 1..i : key'[f] = Encoded(indkey[f])
      <4>1. Field(tup_i + 1) = Encoded(indkey[i])
        BY <2>6, FieldIsEncoded
      <4>2. \A f \in 1..i : f = i \/ f \in 1..(i - 1)
        BY <2>1
      <4>. QED
        BY <1>3, <2>1, <2>8, <4>1, <4>2
    <3>2. \A f \in 1..i : key'[f] = Encoded(indkey[f])'
      BY <1>2, <1>4, <3>1, EncodedKept, Zenon
    <3>3. i + 1 <= dim1 => 0 < indkey[i + 1]
      <4>1. i + 1 <= dim1 => indkey[i + 1] \in Live
        BY <1>1, <2>1 DEF TableInv
      <4>. QED
        BY <1>3, <4>1 DEF Live
    <3>4. \A k \in 1..tup_natts : 0 < at[k]
      BY <1>3
    <3>5. DOMAIN key' = 1..dim1
      BY <1>3, <2>8, Zenon
    <3>. QED
      BY <1>3, <1>4, <2>1, <2>8, <3>2, <3>3, <3>4, <3>5 DEF KeyInv
  <2>. QED
    BY <1>4, <2>8, <2>9, <2>10, Zenon DEF EncodingInv
<1>. QED
  BY <1>3, <1>5, <1>6

\* The invariant holds of every table, key and row.
LEMMA InitEncodingInv == InitEncoding => EncodingInv
<1>. SUFFICES ASSUME InitEncoding PROVE EncodingInv
  BY Zenon
<1>1. /\ natts \in Nat /\ rel \in [1..natts -> Attribute(AllTypes)]
      /\ dim1 \in Nat /\ indkey \in [1..dim1 -> Live]
  <2>1. PICK t \in Tables :
          /\ natts \in 1..t.cols /\ rel \in [1..natts -> Attribute(t.types)]
          /\ dim1 \in 1..t.key /\ indkey \in [1..dim1 -> Live]
    BY Zenon DEF InitEncoding
  <2>2. t.types \subseteq AllTypes /\ t.cols \in Nat /\ t.key \in Nat
    BY EncodingAssumption, Zenon
  <2>3. Attribute(t.types) \subseteq Attribute(AllTypes)
    BY <2>2, Zenon DEF Attribute
  <2>4. natts \in Nat /\ dim1 \in Nat
    BY <2>1, <2>2
  <2>. QED
    BY <2>1, <2>3, <2>4, Zenon
<1>2. PICK kept \in {Live, 1..natts} : Lists(kept)
  BY Zenon DEF InitEncoding
<1>3. /\ tup_natts \in Nat /\ at \in [1..tup_natts -> kept]
      /\ \A j, k \in 1..tup_natts : j < k => at[j] < at[k]
      /\ \A c \in kept : \E k \in 1..tup_natts : at[k] = c
  BY <1>1, <1>2 DEF Lists
<1>4. Live \subseteq kept /\ kept \subseteq 1..natts
  BY <1>2, Zenon DEF Live
<1>5. \A c \in Live : row[c] \in ValuesOf(rel[c].type)
  BY Zenon DEF InitEncoding, Live
<1>6. TableInv
  <2>1. at \in [1..tup_natts -> 1..natts]
    BY <1>3, <1>4, Zenon
  <2>2. \/ \A k \in 1..tup_natts : at[k] \in Live
        \/ \A c \in 1..natts : \E k \in 1..tup_natts : at[k] = c
    BY <1>2, <1>3, Zenon
  <2>. QED
    BY <1>1, <1>3, <1>4, <1>5, <2>1, <2>2 DEF TableInv
<1>7. /\ phase = "schema" /\ i = 1 /\ predef = {} /\ fields = 0 /\ field = 0
      /\ rel_i = 0 /\ tup_i = 0
  BY Zenon DEF InitEncoding
<1>8. FieldsInv
  <2>1. \A c \in Live : ~ (c <= Columns)
    BY <1>1, <1>7 DEF Live, Columns
  <2>. QED
    BY <1>1, <1>7, <2>1 DEF FieldsInv
<1>9. UnionsInv
  BY <1>7 DEF UnionsInv, Defined
<1>10. RowInv /\ KeyInv
  BY <1>7 DEF RowInv, KeyInv
<1>. QED
  BY <1>6, <1>7, <1>8, <1>9, <1>10 DEF EncodingInv

\* Every step keeps the invariant.
LEMMA NextEncodingInv == EncodingInv /\ [NextEncoding]_encvars => EncodingInv'
<1>. SUFFICES ASSUME EncodingInv, [NextEncoding]_encvars PROVE EncodingInv'
  BY Zenon
<1>1. ASSUME schema_for_table_row PROVE EncodingInv'
  BY <1>1, SchemaEnd, SchemaSkip, SchemaField, Zenon
<1>2. ASSUME write_avro_binary PROVE EncodingInv'
  <2>1. phase' = "written" /\ fields' = 0 /\ field' = 0
    BY <1>2, Zenon DEF write_avro_binary
  <2>. QED
    BY <2>1, Zenon DEF EncodingInv
<1>3. ASSUME UNCHANGED <<encoding, phase>> PROVE EncodingInv'
  <2>1. UNCHANGED <<relation, i, predef, fields, schema, field, value, rel_i, tup_i, key, phase>>
    BY <1>3, Zenon DEF encoding
  <2>2. /\ natts' = natts /\ rel' = rel /\ tup_natts' = tup_natts /\ at' = at
        /\ dim1' = dim1 /\ indkey' = indkey /\ Live' = Live
    BY <2>1, Zenon DEF relation, Live
  <2>3. TableInv => TableInv'
    BY <2>1, TableKept, Zenon
  <2>4. FieldsInv' <=> FieldsInv
    BY <2>1, <2>2, Zenon DEF FieldsInv, Columns
  <2>5. UnionsInv' <=> UnionsInv
    BY <2>1, <2>2 DEF UnionsInv, HasUnion, Reference, Defined, TypeOf
  <2>6. RowInv' <=> RowInv
    BY <2>1, <2>2, EncodedKept, Zenon DEF RowInv
  <2>7. KeyInv' <=> KeyInv
    BY <2>1, <2>2, EncodedKept DEF KeyInv
  <2>. QED
    BY <2>1, <2>3, <2>4, <2>5, <2>6, <2>7, Zenon DEF EncodingInv
<1>4. ASSUME writing PROVE EncodingInv'
  BY <1>3, <1>4 DEF writing
<1>5. ASSUME UNCHANGED encvars PROVE EncodingInv'
  BY <1>3, <1>5 DEF encvars
<1>. QED
  BY <1>1, <1>2, <1>4, <1>5, RowStep, SearchStep, KeyStep, Zenon DEF NextEncoding

LEMMA EncodingInvariance == EncodingSpec => []EncodingInv
BY InitEncodingInv, NextEncodingInv, PTL DEF EncodingSpec

\* A name occurs in the union of a field if and only if its type defines it.
LEMMA NamesInUnion ==
  ASSUME NEW f, NEW t \in AllTypes, HasUnion(f, t), NEW name \in Names
  PROVE  /\ (\E a \in DOMAIN schema[f].union : schema[f].union[a].type = name)
              <=> name \in Defines(t)
         /\ ~ \E a \in DOMAIN schema[f].union : a < 1 /\ schema[f].union[a].type = name
         /\ name = "SpecialTime" =>
              ~ \E a \in DOMAIN schema[f].union : a < 2 /\ schema[f].union[a].type = name
<1>. DEFINE u == schema[f].union
<1>1. u[0].type # name
  BY DEF HasUnion, Avro, Names
<1>2. u[1].type = IF t \in RecordTypes THEN RecordName[t] ELSE Plain[t]
  BY DEF HasUnion, Reference, Avro
<1>3. t \in Times => u[2].type = "SpecialTime"
  BY DEF HasUnion, Reference
<1>4. DOMAIN u = IF t \in Times THEN 0..2 ELSE 0..1
  BY Zenon DEF HasUnion
<1>5. /\ t \in RecordTypes => RecordName[t] # "SpecialTime"
      /\ t \notin RecordTypes => Plain[t] # name
  BY NameFacts, Zenon
<1>6. u[1].type = name <=> t \in RecordTypes /\ RecordName[t] = name
  BY <1>2, <1>5, Zenon
<1>. HIDE DEF u
<1>7. (\E a \in DOMAIN u : u[a].type = name) <=> name \in Defines(t)
  <2>1. CASE t \in Times
    <3>1. t \in RecordTypes
      BY <2>1, Zenon DEF RecordTypes
    <3>. QED
      BY <1>1, <1>3, <1>4, <1>6, <2>1, <3>1 DEF Defines
  <2>2. CASE t \notin Times
    BY <1>1, <1>4, <1>6, <2>2 DEF Defines
  <2>. QED
    BY <2>1, <2>2, Zenon
<1>8. ~ \E a \in DOMAIN u : a < 1 /\ u[a].type = name
  BY <1>1, <1>4
<1>9. name = "SpecialTime" => ~ \E a \in DOMAIN u : a < 2 /\ u[a].type = name
  BY <1>1, <1>4, <1>5, <1>6
<1>. QED
  BY <1>7, <1>8, <1>9, Zenon DEF u

\* A type is defined where it is first used and nowhere else: the schema made of
\* any table is valid Avro.
THEOREM SchemasAreValid == EncodingSpec => []SchemaValid
<1>1. EncodingInv => SchemaValid
  <2>. SUFFICES ASSUME EncodingInv PROVE SchemaValid
    BY Zenon
  <2>1. CASE phase = "written"
    BY <2>1 DEF EncodingInv, SchemaValid
  <2>2. CASE phase # "written"
    <3>1. TableInv /\ FieldsInv /\ UnionsInv
      BY <2>2, Zenon DEF EncodingInv
    <3>2. /\ \A f, g \in 1..fields : f < g => schema[f].name < schema[g].name
          /\ \A f \in 1..fields : schema[f].name \in Live /\ schema[f].name \in 1..natts
          /\ fields \in Nat /\ natts \in Nat
      BY <3>1, Zenon DEF FieldsInv, TableInv, Live
    <3>3. ASSUME phase # "schema" PROVE {schema[f].name : f \in 1..fields} = Live
      BY <3>1, <3>2, <3>3 DEF FieldsInv, Columns, Live
    <3>4. \A f \in 1..fields : TypeOf(f) \in AllTypes /\ HasUnion(f, TypeOf(f))
      BY <3>1, <3>2, Zenon DEF TypeOf, TableInv, UnionsInv, Attribute
    <3>5. \A f \in 1..fields : schema[f].union[0] = Avro("null")
      BY <3>4, Zenon DEF HasUnion
    <3>6. ASSUME NEW f \in 1..fields, NEW name \in Names,
                 NEW b \in 1..2, b = 1 \/ name = "SpecialTime"
          PROVE  OccursBefore(name, f, b) <=> Defined(name, f)
      <4>1. \A g \in 1..(f - 1) : g \in 1..f /\ g \in 1..fields /\ g < f
        BY <3>2
      <4>2. \A g \in 1..(f - 1) :
              (\E a \in DOMAIN schema[g].union : schema[g].union[a].type = name)
                <=> name \in Defines(TypeOf(g))
        BY <3>4, <4>1, NamesInUnion, Zenon
      <4>3. ~ \E a \in DOMAIN schema[f].union : a < b /\ schema[f].union[a].type = name
        BY <3>4, <3>6, NamesInUnion
      <4>4. \A g \in 1..f : g = f \/ g \in 1..(f - 1)
        BY <3>2, SMTT(20)
      <4>. QED
        BY <3>2, <4>1, <4>2, <4>3, <4>4 DEF OccursBefore, Defined
    <3>7. ASSUME NEW f \in 1..fields, NEW b \in DOMAIN schema[f].union
          PROVE  schema[f].union[b].ref =
                   IF schema[f].union[b].type \notin Names THEN "plain"
                   ELSE IF OccursBefore(schema[f].union[b].type, f, b) THEN "link"
                   ELSE "definition"
      <4>1. PICK t : t = TypeOf(f)
        BY Zenon
      <4>2. t \in AllTypes /\ HasUnion(f, t)
        BY <3>4, <4>1, Zenon
      <4>3. CASE b = 0
        BY <3>5, <4>3 DEF Avro, Names
      <4>4. CASE b = 1 /\ t \notin RecordTypes
        <5>1. Plain[t] \notin Names
          BY <4>2, <4>4, NameFacts, Zenon
        <5>. QED
          BY <4>2, <4>4, <5>1 DEF HasUnion, Avro
      <4>5. CASE b = 1 /\ t \in RecordTypes
        <5>1. RecordName[t] \in Names
          BY <4>5, NameFacts, Zenon
        <5>2. schema[f].union[b] = Reference(RecordName[t], f)
          BY <4>2, <4>5, Zenon DEF HasUnion
        <5>3. OccursBefore(RecordName[t], f, b) <=> Defined(RecordName[t], f)
          BY <3>6, <4>5, <5>1
        <5>. QED
          BY <5>1, <5>2, <5>3 DEF Reference
      <4>6. CASE b = 2 /\ t \in Times
        <5>1. "SpecialTime" \in Names
          BY Zenon DEF Names
        <5>2. schema[f].union[b] = Reference("SpecialTime", f)
          BY <4>2, <4>6, Zenon DEF HasUnion
        <5>3. OccursBefore("SpecialTime", f, b) <=> Defined("SpecialTime", f)
          BY <3>6, <4>6, <5>1
        <5>. QED
          BY <5>1, <5>2, <5>3 DEF Reference
      <4>. QED
        BY <4>2, <4>3, <4>4, <4>5, <4>6 DEF HasUnion
    <3>. QED
      BY <3>2, <3>3, <3>5, <3>7, Zenon DEF SchemaValid
  <2>. QED
    BY <2>1, <2>2
<1>. QED
  BY <1>1, EncodingInvariance, PTL

\* Every field of a row reads back as the value of its column, for any table,
\* with or without dropped columns in the tuple.
THEOREM RowsReadBack == EncodingSpec => []RowReadsBack
<1>1. EncodingInv => RowReadsBack
  <2>. SUFFICES ASSUME EncodingInv PROVE RowReadsBack
    OBVIOUS
  <2>1. CASE phase = "written"
    BY <2>1 DEF EncodingInv, RowReadsBack
  <2>2. CASE phase # "written"
    <3>1. TableInv /\ FieldsInv /\ UnionsInv /\ RowInv
      BY <2>2, Zenon DEF EncodingInv
    <3>2. ASSUME NEW f \in 1..field, NEW c, c = schema[f].name,
                 rel[c].type # "numeric" \/ row[c] = "null"
          PROVE  /\ value[f].branch \in DOMAIN schema[f].union
                 /\ Stands(value[f], schema[f].union[value[f].branch].type, c)
      <4>. DEFINE u == schema[f].union
      <4>1. f \in 1..fields /\ value[f] = Encoded(c)
        BY <3>1, <3>2 DEF FieldsInv, RowInv
      <4>2. c \in Live /\ c \in 1..natts
        BY <3>1, <3>2, <4>1 DEF FieldsInv, Live
      <4>3. PICK t : t = rel[c].type
        OBVIOUS
      <4>4. t \in AllTypes /\ row[c] \in ValuesOf(t) /\ HasUnion(f, t)
        BY <3>1, <3>2, <4>1, <4>2, <4>3, Zenon DEF TableInv, Attribute, UnionsInv, TypeOf
      <4>5. CASE row[c] = "null"
        <5>1. value[f].branch = 0 /\ u[0].type = "null" /\ 0 \in DOMAIN u
          BY <4>1, <4>4, <4>5 DEF Encoded, Null, HasUnion, Avro
        <5>. QED
          BY <4>5, <5>1, ZenonT(30) DEF Stands
      <4>6. CASE row[c] \in {"infinity", "-infinity"}
        <5>1. t \in Times
          BY <4>4, <4>6 DEF ValuesOf
        <5>2. value[f] = update_avro_with_special(row[c], c)
          BY <4>1, <4>6, ZenonT(30) DEF Encoded, update_avro_with_datum
        <5>3. value[f].branch = 2 /\ value[f].col = c
              /\ value[f].set = IF row[c] = "-infinity" THEN 1 ELSE 0
          BY <5>2 DEF update_avro_with_special
        <5>4. 2 \in DOMAIN u /\ u[2].type = "SpecialTime"
          BY <4>4, <5>1 DEF HasUnion, Reference
        <5>5. SpecialTime[value[f].set] = row[c]
          BY <4>6, <5>3 DEF SpecialTime
        <5>. QED
          BY <4>6, <5>3, <5>4, <5>5, Zenon DEF Stands
      <4>7. CASE row[c] = "finite"
        <5>1. value[f] = [branch |-> 1, col |-> c,
                set |-> IF t \in RecordTypes THEN RecordValues[t]
                        ELSE IF t = "numeric" THEN "nothing" ELSE Plain[t]]
          BY <4>1, <4>3, <4>7, Zenon DEF Encoded, update_avro_with_datum
        <5>2. 1 \in DOMAIN u
          BY <4>4 DEF HasUnion
        <5>3. u[1].type = IF t \in RecordTypes THEN RecordName[t] ELSE Plain[t]
          BY <4>4 DEF HasUnion, Reference, Avro
        <5>4. CASE t \in RecordTypes
          <6>1. value[f].branch = 1 /\ value[f].col = c /\ value[f].set = RecordValues[t]
            BY <5>1, <5>4
          <6>2. RecordName[t] \in Names \ {"SpecialTime"}
            BY <5>4, NameFacts, Zenon
          <6>3. FieldsOf[RecordName[t]] = RecordValues[t]
            BY <5>4, SMTT(20) DEF FieldsOf, RecordName, RecordValues, RecordTypes, Times, date_values,
                        time_values, schema_for_date_fields, schema_for_time_fields
          <6>. QED
            BY <4>7, <5>2, <5>3, <5>4, <6>1, <6>2, <6>3, Zenon DEF Stands
        <5>5. CASE t \notin RecordTypes
          <6>1. value[f].branch = 1 /\ value[f].col = c /\ value[f].set = Plain[t]
            BY <3>2, <4>3, <4>7, <5>1, <5>5
          <6>2. Plain[t] \notin Names /\ Plain[t] # "SpecialTime"
            BY <4>4, <5>5, NameFacts, Zenon DEF Names
          <6>. QED
            BY <4>7, <5>2, <5>3, <5>5, <6>1, <6>2, Zenon DEF Stands
        <5>. QED
          BY <5>4, <5>5, Zenon
      <4>. QED
        BY <4>4, <4>5, <4>6, <4>7, Zenon DEF ValuesOf
    <3>3. phase \in {"key", "done"} => field = fields
      BY <3>1, Zenon DEF RowInv
    <3>. QED
      BY <3>2, <3>3 DEF RowReadsBack
  <2>. QED
    BY <2>1, <2>2
<1>. QED
  BY <1>1, EncodingInvariance, PTL

\* The key is made of the index's columns and the search for them stays inside
\* the tuple, for any table, whichever columns are dropped and whether or not
\* the tuple has them.
THEOREM KeysAreKeys == EncodingSpec => []KeyIsKey
<1>1. EncodingInv => KeyIsKey
  <2>. SUFFICES ASSUME EncodingInv PROVE KeyIsKey
    OBVIOUS
  <2>1. phase # "error"
    BY Zenon DEF EncodingInv
  <2>2. ASSUME phase \in {"key", "done"}, NEW f \in 1..(i - 1)
        PROVE  \E g \in 1..fields : schema[g].name = indkey[f] /\ key[f] = value[g]
    <3>1. TableInv /\ FieldsInv /\ RowInv /\ KeyInv
      BY <2>2, Zenon DEF EncodingInv
    <3>2. f \in 1..dim1 /\ key[f] = Encoded(indkey[f])
      BY <2>2, <3>1 DEF KeyInv, TableInv
    <3>3. indkey[f] \in Live /\ indkey[f] \in 1..natts
      BY <3>1, <3>2, Zenon DEF TableInv, Live
    <3>4. PICK g \in 1..fields : schema[g].name = indkey[f]
      BY <2>2, <3>1, <3>3 DEF FieldsInv, Columns
    <3>5. value[g] = Encoded(schema[g].name)
      BY <2>2, <3>1, Zenon DEF RowInv
    <3>. QED
      BY <3>2, <3>4, <3>5, Zenon
  <2>3. ASSUME phase = "key", Searching PROVE tup_i < tup_natts
    <3>1. TableInv /\ KeyInv
      BY <2>3, Zenon DEF EncodingInv
    <3>2. i <= dim1 /\ i \in 1..dim1 /\ rel_i < indkey[i] - 1 /\ rel_i \in Nat
      BY <2>3, <3>1 DEF Searching, KeyInv, TableInv
    <3>3. indkey[i] \in 1..natts /\ natts \in Nat
      BY <3>1, <3>2, Zenon DEF TableInv, Live
    <3>4. rel_i < natts
      BY <3>2, <3>3
    <3>. QED
      BY <2>3, <3>1, <3>2, <3>4, NextAttribute, Zenon
  <2>. QED
    BY <2>1, <2>2, <2>3, Zenon DEF KeyIsKey
<1>. QED
  BY <1>1, EncodingInvariance, PTL
-----------------------------------------------------------------------------
(* The output buffer *)

\* The inductive invariant of try_writing: the size tried before was too small, and a result
\* fits the buffer it was written to.
BufferInv ==
  /\ BufferTypeOK
  /\ size > INIT_BUFFER_LENGTH => 4 * (length + 1 + VARHDRSZ) > size
  /\ err = "ok" => varsize = length + VARHDRSZ /\ varsize + 1 <= size
  /\ err # "ENOSPC" => size <= MAX_BUFFER_LENGTH

\* A call of try_writing and one turn of its loop keep the invariant.
LEMMA TurnKeeps == BufferInv /\ [NextBuffer]_buffer => BufferInv'
<1>. SUFFICES ASSUME BufferInv, [NextBuffer]_buffer PROVE BufferInv'
  OBVIOUS
<1>. USE LengthAssumption DEF INIT_BUFFER_LENGTH, MAX_BUFFER_LENGTH, VARHDRSZ
<1>1. CASE Turn
  <2>1. /\ length \in Nat /\ length' = length /\ broken' = broken
        /\ size \in {16384, 65536, 262144, 1048576}
    BY <1>1 DEF Turn, Running, BufferInv, BufferTypeOK
  <2>2. CASE err' = "ENOSPC"
    <3>1. size' = size * 4 /\ length + 1 > size - 4
      BY <1>1, <2>1, <2>2 DEF Turn, Fits
    <3>2. varsize' \in Nat
      BY <1>1, <2>1 DEF Turn, BufferInv, BufferTypeOK
    <3>. QED
      BY <2>1, <2>2, <3>1, <3>2 DEF BufferInv, BufferTypeOK
  <2>3. CASE err' = "EINVAL"
    <3>1. size' = size /\ varsize' \in Nat
      BY <1>1, <2>1, <2>3 DEF Turn, BufferInv, BufferTypeOK
    <3>. QED
      BY <2>1, <2>3, <3>1 DEF BufferInv, BufferTypeOK
  <2>4. CASE err' = "ok"
    <3>1. size' = size /\ length + 1 <= size - 4 /\ ~ broken
      BY <1>1, <2>1, <2>4 DEF Turn, Fits
    <3>2. length <= size - 4
      BY <2>1, <3>1
    <3>3. varsize' = length + 4
      BY <1>1, <3>1, <3>2 DEF Turn, Fits
    <3>. QED
      BY <2>1, <2>4, <3>1, <3>3 DEF BufferInv, BufferTypeOK
  <2>. QED
    BY <1>1, <2>2, <2>3, <2>4 DEF Turn
<1>2. ASSUME NEW l \in Lengths, NEW b \in BOOLEAN, try_writing(l, b) PROVE BufferInv'
  <2>1. /\ length' \in Nat /\ broken' \in BOOLEAN
        /\ size' = 16384 /\ err' = "ENOSPC" /\ varsize' = 0
    BY <1>2 DEF try_writing
  <2>. QED
    BY <2>1 DEF BufferInv, BufferTypeOK
<1>3. CASE UNCHANGED buffer
  BY <1>3 DEF buffer, BufferInv, BufferTypeOK
<1>. QED
  BY <1>1, <1>2, <1>3, Zenon DEF NextBuffer

\* The invariant holds before try_writing is called.
LEMMA InitKeeps == InitBuffer => BufferInv
<1>. SUFFICES ASSUME InitBuffer PROVE BufferInv
  OBVIOUS
<1>. USE DEF INIT_BUFFER_LENGTH, MAX_BUFFER_LENGTH, VARHDRSZ
<1>0. broken = FALSE
  BY DEF InitBuffer
<1>1. broken \in BOOLEAN
  BY <1>0, Zenon
<1>2. length = 0 /\ size = 16384 /\ err = "none" /\ varsize = 0
  BY DEF InitBuffer
<1>. QED
  BY <1>1, <1>2 DEF BufferInv, BufferTypeOK

\* Whatever the length of the value, what try_writing returns holds it and has
\* room for the null byte its comment promises.
THEOREM AlwaysTerminated == BufferSpec => []Terminated
<1>1. BufferInv => Terminated
  BY Zenon DEF BufferInv, Terminated
<1>. QED
  BY <1>1, InitKeeps, TurnKeeps, PTL DEF BufferSpec

\* Whatever the length of the value, it is refused for its size only if the
\* largest buffer could not hold it.
THEOREM OnlyTooLargeRefused == BufferSpec => []RefusedTooLarge
<1>1. BufferInv => RefusedTooLarge
  <2>. SUFFICES ASSUME BufferInv, err = "ENOSPC", ~ Running
                PROVE  length + 1 > MAX_BUFFER_LENGTH - VARHDRSZ
    BY DEF RefusedTooLarge
  <2>1. size = 4194304 /\ length \in Nat
    BY DEF Running, BufferInv, BufferTypeOK, MAX_BUFFER_LENGTH
  <2>. QED
    BY <2>1 DEF BufferInv, INIT_BUFFER_LENGTH, MAX_BUFFER_LENGTH, VARHDRSZ
<1>. QED
  BY <1>1, InitKeeps, TurnKeeps, PTL DEF BufferSpec

\* Encoding a row is one of the uses of the output buffer: every step of
\* RowEncoding is one of TryWriting, or leaves the buffer alone.
THEOREM EncodingImplementsBuffer == EncodingSpec => BufferSpec
<1>1. InitEncoding => InitBuffer
  BY DEF InitEncoding
<1>2. [NextEncoding]_encvars => [NextBuffer]_buffer
  <2>. SUFFICES ASSUME [NextEncoding]_encvars PROVE [NextBuffer]_buffer
    BY Zenon
  <2>1. ASSUME write_avro_binary PROVE NextBuffer
    BY <2>1 DEF write_avro_binary, NextBuffer
  <2>2. ASSUME writing PROVE NextBuffer
    BY <2>2, Zenon DEF writing, NextBuffer
  <2>3. ASSUME schema_for_table_row \/ tuple_to_avro_row \/ search_attribute \/ tuple_to_avro_key
        PROVE  UNCHANGED buffer
    BY <2>3 DEF schema_for_table_row, tuple_to_avro_row, search_attribute, tuple_to_avro_key
  <2>. QED
    BY <2>1, <2>2, <2>3 DEF NextEncoding, encvars
<1>. QED
  BY <1>1, <1>2, PTL DEF EncodingSpec, BufferSpec
=============================================================================
