-------------------------- MODULE ChangelogProofs --------------------------
(***************************************************************************)
(* Proofs about module Changelog: the topic is a faithful changelog of its *)
(* table, for any number of keys, values, changes and deaths of the        *)
(* client, and for every kind of table whose old keys Postgres logs.       *)
(***************************************************************************)
EXTENDS Changelog, TLAPS

\* A named identity index is there, or there is no primary key to stand in for
\* it: otherwise the client keys the records by the primary key, while Postgres
\* logs no old key
IndexThere == \A k \in TableKinds : k.replident = "index" /\ k.primary_key => k.replica_index

Values == Vals \cup {NoVal}

Types ==
  /\ kind \in TableKinds
  /\ last \in Nat /\ last <= MaxChanges
  /\ versions \in [0..MaxChanges -> [Keys -> Values]]
  /\ wal \in [1..MaxChanges -> [op : {"none", "insert", "update", "delete"},
                                old : Keys \cup {NoKey}, new : Keys \cup {NoKey}, val : Values]]
  /\ confirmed_flush \in Nat /\ recvd \in Nat
  /\ pc \in {"down", "snapshot", "stream"}
  /\ todo \subseteq Keys

\* What a change makes of a row
After(c, k, val) ==
  IF c.op # "delete" /\ k = c.new THEN c.val ELSE IF c.op # "insert" /\ k = c.old THEN NoVal ELSE val

\* The log tells how each version of the table came from the one before
Logged ==
  \A n \in 1..last :
    /\ wal[n].op # "none" /\ wal[n].old \in Keys /\ wal[n].new \in Keys
    /\ \A k \in Keys : versions[n][k] = After(wal[n], k, versions[n - 1][k])

\* Where the client is
Phases ==
  /\ pc # "down" => slot
  /\ pc = "down" => out = {} /\ todo = {} /\ recvd = 0
  /\ pc = "snapshot" => consistent_point = confirmed_flush /\ recvd = confirmed_flush
  /\ pc = "stream" => confirmed_flush <= recvd /\ todo = {}
  /\ slot => confirmed_flush <= last
  /\ recvd <= last

\* Version j holds the row of k that version n holds, or a later record of k,
\* up to j, is outstanding
Covered(n, k, j) ==
  versions[j][k] = versions[n][k] \/ \E x \in out : x.key = k /\ n < x.lsn /\ x.lsn <= j

\* The outstanding records tell the truth, and a record of a key is followed by
\* all later ones
Records ==
  \A m \in out :
    /\ m.key \in Keys /\ m.lsn \in Nat
    /\ confirmed_flush <= m.lsn /\ m.lsn <= recvd
    /\ m.val = versions[m.lsn][m.key]
    /\ \A j \in m.lsn..recvd : Covered(m.lsn, m.key, j)

\* The topic has the row of k of version n; what was received since is outstanding
Told(k, n) == latest[k] = versions[n][k] /\ \A j \in n..recvd : Covered(n, k, j)

Topic ==
  \A k \in Keys \ loose :
    IF slot THEN Awaited(k) \/ \E n \in confirmed_flush..last : Told(k, n) ELSE latest[k] = NoVal

\* The inductive invariant
IInv == Types /\ Logged /\ Phases /\ (Keyed => Records /\ Topic)
-----------------------------------------------------------------------------
\* The records of a change hold the rows the change has made, and there is one
\* for every key whose row it has changed.
LEMMA ChangeRecords ==
  ASSUME IndexThere, Types, Logged, Keyed, NEW n \in 1..last
  PROVE  LET recs == output_avro_change(wal[n], n) IN
         /\ \A m \in recs : m.lsn = n /\ m.key \in Keys /\ m.val = versions[n][m.key]
         /\ \A k \in Keys : versions[n][k] # versions[n - 1][k] => \E m \in recs : m.key = k /\ m.lsn = n
<1>. DEFINE c == wal[n]
<1>1. /\ c.op \in {"insert", "update", "delete"} /\ c.old \in Keys /\ c.new \in Keys
      /\ \A k \in Keys : versions[n][k] = After(c, k, versions[n - 1][k])
  <2>1. n \in 1..MaxChanges
    BY BoundAssumption DEF Types
  <2>. QED
    BY <2>1, Zenon DEF Types, Logged
<1>2. kind \in TableKind /\ (kind.replident = "index" /\ kind.primary_key => kind.replica_index)
  BY KindAssumption DEF Types, IndexThere
<1>3. \A k : extract_tuple_key(k) = k
  BY DEF Keyed, extract_tuple_key
<1>4. c.op = "delete" \/ (c.op = "update" /\ c.old # c.new) => OldTuple(c)
  BY <1>2 DEF OldTuple, Keyed, table_key_index, TableKind
<1>5. c.old # NoKey /\ c.new # NoKey
  BY <1>1, KeyAssumption
<1>. HIDE DEF c
<1>6. CASE c.op = "insert"
  <2>1. output_avro_change(c, n) = {Rec(c.new, c.new, c.val, n)}
    BY <1>3, <1>6 DEF output_avro_change, update_frame_with_insert
  <2>. QED
    BY <1>1, <1>6, <2>1 DEF Rec, After, c
<1>7. CASE c.op = "update" /\ c.old = c.new
  <2>1. output_avro_change(c, n) = {Rec(c.new, c.new, c.val, n)}
    BY <1>3, <1>5, <1>7 DEF output_avro_change, update_frame_with_update
  <2>. QED
    BY <1>1, <1>7, <2>1 DEF Rec, After, c
<1>8. CASE c.op = "update" /\ c.old # c.new
  <2>1. output_avro_change(c, n) = {Rec(c.old, c.old, NoVal, n), Rec(c.new, c.new, c.val, n)}
    BY <1>3, <1>4, <1>5, <1>8 DEF output_avro_change, update_frame_with_update, on_delete_row
  <2>. QED
    BY <1>1, <1>8, <2>1 DEF Rec, After, c
<1>9. CASE c.op = "delete"
  <2>1. output_avro_change(c, n) = {Rec(c.old, c.old, NoVal, n)}
    BY <1>3, <1>4, <1>5, <1>9 DEF output_avro_change, update_frame_with_delete, on_delete_row
  <2>. QED
    BY <1>1, <1>9, <2>1 DEF Rec, After, c
<1>. QED
  BY <1>1, <1>6, <1>7, <1>8, <1>9

\* Before the first start the topic is empty.
LEMMA InitIInv == Init => IInv
<1>. SUFFICES ASSUME Init PROVE IInv
  OBVIOUS
<1>1. Types
  <2>1. versions \in [0..MaxChanges -> [Keys -> Values]]
    BY DEF Init, Values
  <2>2. wal \in [1..MaxChanges -> [op : {"none", "insert", "update", "delete"},
                                old : Keys \cup {NoKey}, new : Keys \cup {NoKey}, val : Values]]
    BY DEF Init, NoChange, Values
  <2>. QED
    BY <2>1, <2>2, BoundAssumption DEF Init, Types, Values
<1>2. Logged /\ Phases
  BY DEF Init, Logged, Phases
<1>3. Records /\ Topic
  BY DEF Init, Records, Topic
<1>. QED
  BY <1>1, <1>2, <1>3 DEF IInv

\* A step of the database: the versions there are stay as they are.
LEMMA DatabaseStep ==
  ASSUME IInv, NEW op \in {"insert", "update", "delete"}, NEW old \in Keys, NEW new \in Keys,
         NEW val \in Values, Change(op, old, new, val)
  PROVE  IInv'
<1>. DEFINE c == [op |-> op, old |-> old, new |-> new, val |-> val]
            t == [k \in Keys |-> After(c, k, table[k])]
<1>1. /\ last < MaxChanges /\ last' = last + 1
      /\ wal' = [wal EXCEPT ![last + 1] = c] /\ versions' = [versions EXCEPT ![last + 1] = t]
      /\ UNCHANGED <<kind, slot, consistent_point, confirmed_flush, pc, todo, recvd, out, latest, loose>>
  BY DEF Change, slotv, After
<1>2. last \in Nat /\ last + 1 \in 1..MaxChanges /\ last + 1 \in 0..MaxChanges /\ MaxChanges \in Nat
  BY <1>1, BoundAssumption DEF IInv, Types
<1>3. t \in [Keys -> Values]
  <2>1. table \in [Keys -> Values]
    BY <1>1, <1>2 DEF table, IInv, Types
  <2>. QED
    BY <2>1 DEF After, Values
<1>4. /\ \A n \in 0..last : versions'[n] = versions[n]
      /\ \A n \in 1..last : wal'[n] = wal[n]
      /\ versions'[last + 1] = t /\ wal'[last + 1] = c
  BY <1>1, <1>2 DEF IInv, Types
<1>. HIDE DEF c, t
<1>5. Types'
  <2>1. c \in [op : {"none", "insert", "update", "delete"},
               old : Keys \cup {NoKey}, new : Keys \cup {NoKey}, val : Values]
    BY DEF c
  <2>. QED
    BY <1>1, <1>2, <1>3, <2>1 DEF IInv, Types
<1>6. Logged'
  <2>. SUFFICES ASSUME NEW n \in 1..(last + 1)
                PROVE  /\ wal'[n].op # "none" /\ wal'[n].old \in Keys /\ wal'[n].new \in Keys
                       /\ \A k \in Keys : versions'[n][k] = After(wal'[n], k, versions'[n - 1][k])
    BY <1>1 DEF Logged, After
  <2>1. CASE n \in 1..last
    <3>1. n \in 0..last /\ n - 1 \in 0..last
      BY <1>2, <2>1
    <3>. QED
      BY <1>4, <2>1, <3>1 DEF IInv, Logged
  <2>2. CASE n = last + 1
    <3>1. n - 1 = last /\ last \in 0..last
      BY <1>2, <2>2
    <3>. QED
      BY <1>4, <2>2, <3>1 DEF c, t, table
  <2>. QED
    BY <1>2, <2>1, <2>2
<1>7. Phases'
  BY <1>1, <1>2 DEF IInv, Types, Phases
<1>8. Keyed' => Records' /\ Topic'
  <2>. SUFFICES ASSUME Keyed PROVE Records' /\ Topic'
    BY <1>1 DEF Keyed, table_key_index
  <2>1. \A n \in Nat, k \in Keys, j \in Nat :
          n <= last /\ j <= last /\ Covered(n, k, j) => Covered(n, k, j)'
    BY <1>1, <1>2, <1>4 DEF Covered
  <2>2. Records'
    BY <1>1, <1>2, <1>4, <2>1 DEF IInv, Types, Phases, Records
  <2>3. ASSUME NEW k \in Keys, NEW n \in confirmed_flush..last, Told(k, n) PROVE Told(k, n)'
    <3>1. n \in Nat /\ n <= last /\ recvd \in Nat /\ recvd <= last
      BY <1>2 DEF IInv, Types, Phases
    <3>2. \A j \in n..recvd : j \in Nat /\ j <= last
      BY <3>1, <1>2
    <3>. QED
      BY <1>1, <1>4, <2>1, <2>3, <3>1, <3>2 DEF Told
  <2>4. confirmed_flush..last \subseteq confirmed_flush'..last'
    BY <1>1, <1>2 DEF IInv, Types
  <2>. QED
    BY <1>1, <2>2, <2>3, <2>4 DEF IInv, Topic, Awaited
<1>. QED
  BY <1>5, <1>6, <1>7, <1>8 DEF IInv

\* The client starts: nothing is outstanding, and the rows of the table are
\* awaited, or what is confirmed is where the stream begins.
LEMMA StartStep == ASSUME IInv, StartSnapshot \/ StartStream PROVE IInv'
<1>1. /\ out = {} /\ out' = {} /\ pc = "down" /\ todo = {}
      /\ UNCHANGED <<kind, last, versions, wal, latest, loose>>
  BY DEF StartSnapshot, StartStream, db, slotv, IInv, Phases
<1>2. last \in Nat /\ confirmed_flush \in Nat
  BY DEF IInv, Types
<1>3. Types' /\ Logged' /\ Phases'
  <2>1. CASE StartSnapshot
    BY <1>1, <1>2, <2>1 DEF StartSnapshot, IInv, Types, Logged, Phases
  <2>2. CASE StartStream
    BY <1>1, <1>2, <2>2 DEF StartStream, slotv, IInv, Types, Logged, Phases
  <2>. QED
    BY <2>1, <2>2, Zenon
<1>4. Keyed' => Records'
  BY <1>1 DEF Records
<1>5. Keyed' => Topic'
  <2>. SUFFICES ASSUME Topic, NEW k \in Keys \ loose
                PROVE  slot' /\ (Awaited(k)' \/ \E n \in confirmed_flush'..last : Told(k, n)')
    <3>1. Keyed' <=> Keyed
      BY <1>1 DEF Keyed, table_key_index
    <3>. QED
      BY <1>1, <3>1 DEF IInv, Topic
  <2>1. CASE StartSnapshot
    <3>1. CASE table[k] # NoVal
      BY <2>1, <3>1 DEF StartSnapshot, Awaited
    <3>2. CASE table[k] = NoVal
      <4>1. latest[k] = versions[last][k]
        BY <2>1, <3>2 DEF StartSnapshot, Topic, table
      <4>2. ASSUME NEW n, n = last PROVE Told(k, n)'
        BY <1>1, <1>2, <2>1, <4>1, <4>2 DEF StartSnapshot, Told, Covered
      <4>. QED
        <5>1. slot' /\ confirmed_flush' = last
          BY <2>1 DEF StartSnapshot
        <5>2. last \in last..last
          BY <1>2
        <5>. QED
          BY <4>2, <5>1, <5>2
    <3>. QED
      BY <3>1, <3>2
  <2>2. CASE StartStream
    <3>1. PICK n \in confirmed_flush..last : Told(k, n)
      BY <1>1, <2>2 DEF StartStream, Topic, Awaited
    <3>2. \A j \in n..recvd' : j = n
      BY <1>2, <2>2, <3>1 DEF StartStream
    <3>3. Told(k, n)'
      BY <1>1, <3>1, <3>2 DEF Told, Covered
    <3>. QED
      BY <2>2, <3>3 DEF StartStream, slotv
  <2>. QED
    BY <2>1, <2>2
<1>. QED
  BY <1>3, <1>4, <1>5 DEF IInv

\* A row of the snapshot, and its end: the record of the row is outstanding from
\* now on.
LEMMA SnapshotStep ==
  ASSUME IInv, snapshot_end \/ \E k \in Keys : snapshot_tuple(k)
  PROVE  IInv'
<1>1. /\ pc = "snapshot" /\ recvd \in Nat /\ recvd = confirmed_flush /\ consistent_point = recvd
      /\ recvd <= last
      /\ UNCHANGED <<kind, last, versions, wal, slot, consistent_point, confirmed_flush, recvd, latest, loose>>
  BY Zenon DEF snapshot_end, snapshot_tuple, db, slotv, IInv, Types, Phases
<1>2. Types' /\ Logged' /\ Phases'
  <2>1. CASE snapshot_end
    BY <1>1, <2>1 DEF snapshot_end, IInv, Types, Logged, Phases
  <2>2. ASSUME NEW k \in Keys, snapshot_tuple(k) PROVE Types' /\ Logged' /\ Phases'
    BY <1>1, <2>2 DEF snapshot_tuple, IInv, Types, Logged, Phases
  <2>. QED
    BY <2>1, <2>2, Zenon
<1>. SUFFICES ASSUME Keyed PROVE Records' /\ Topic'
  BY <1>1, <1>2, Zenon DEF IInv, Keyed, table_key_index
<1>3. CASE snapshot_end
  BY <1>1, <1>3 DEF snapshot_end, IInv, Records, Topic, Covered, Told, Awaited
<1>4. ASSUME NEW k \in Keys, snapshot_tuple(k) PROVE Records' /\ Topic'
  <2>. DEFINE m == Rec(k, k, versions[recvd][k], recvd)
  <2>1. out' = out \cup {m} /\ todo' = todo \ {k}
    BY <1>1, <1>4 DEF snapshot_tuple, update_frame_with_insert, extract_tuple_key, Keyed
  <2>2. m.key = k /\ m.lsn = recvd /\ m.val = versions[recvd][k]
    BY DEF Rec
  <2>. HIDE DEF m
  <2>3. \A n, l, j : Covered(n, l, j) => Covered(n, l, j)'
    BY <1>1, <2>1 DEF Covered
  <2>4. \A j \in recvd..recvd : Covered(recvd, k, j)'
    BY <1>1 DEF Covered
  <2>5. Records'
    BY <1>1, <2>1, <2>2, <2>3, <2>4 DEF IInv, Records
  <2>6. \A l \in Keys : \A n : Told(l, n) => Told(l, n)'
    BY <1>1, <2>3 DEF Told
  <2>7. \A l \in Keys : Awaited(l) => Awaited(l)'
    BY <1>1, <2>1, <2>2 DEF Awaited
  <2>. QED
    BY <1>1, <2>5, <2>6, <2>7, Zenon DEF IInv, Topic
<1>. QED
  BY <1>3, <1>4

\* A change is received: whatever row it has changed, a record of it is outstanding.
LEMMA ReceiveStep == ASSUME IndexThere, IInv, ReceiveChange PROVE IInv'
<1>. DEFINE n == recvd + 1
            recs == output_avro_change(wal[n], n)
<1>1. /\ pc = "stream" /\ recvd \in Nat /\ last \in Nat /\ recvd < last /\ recvd' = n
      /\ out' = out \cup recs /\ confirmed_flush \in Nat /\ confirmed_flush <= recvd
      /\ UNCHANGED <<kind, last, versions, wal, slot, consistent_point, confirmed_flush, pc, todo, latest, loose>>
  BY Zenon DEF ReceiveChange, db, slotv, IInv, Types, Phases
<1>2. Types' /\ Logged' /\ Phases'
  BY <1>1 DEF IInv, Types, Logged, Phases
<1>. SUFFICES ASSUME Keyed PROVE Records' /\ Topic'
  BY <1>1, <1>2 DEF IInv, Keyed, table_key_index
<1>3. /\ \A m \in recs : m.lsn = n /\ m.key \in Keys /\ m.val = versions[n][m.key]
      /\ \A k \in Keys : versions[n][k] # versions[recvd][k] => \E m \in recs : m.key = k /\ m.lsn = n
  <2>1. n \in 1..last /\ n - 1 = recvd
    BY <1>1
  <2>. QED
    BY <2>1, ChangeRecords DEF IInv
<1>4. n \in Nat /\ n = recvd + 1
  BY <1>1
<1>. HIDE DEF n, recs
<1>5. \A i, k, j : Covered(i, k, j) => Covered(i, k, j)'
  BY <1>1 DEF Covered
<1>6. ASSUME NEW i \in Nat, NEW k \in Keys, \A j \in i..recvd : Covered(i, k, j), NEW j \in i..n
      PROVE  Covered(i, k, j)'
  <2>1. CASE j <= recvd
    BY <1>1, <1>5, <1>6, <2>1
  <2>2. CASE j = i
    BY <1>1, <2>2, Zenon DEF Covered
  <2>3. CASE j = n /\ i <= recvd
    <3>1. CASE \E x \in out : x.key = k /\ i < x.lsn /\ x.lsn <= recvd
      <4>1. PICK x \in out : x.key = k /\ i < x.lsn /\ x.lsn <= recvd
        BY <3>1
      <4>2. x.lsn \in Nat
        BY DEF IInv, Records
      <4>3. x.lsn <= j
        BY <1>1, <1>4, <2>3, <4>1, <4>2
      <4>. QED
        BY <1>1, <4>1, <4>3 DEF Covered
    <3>2. CASE versions[recvd][k] = versions[i][k] /\ versions[n][k] = versions[recvd][k]
      BY <1>1, <2>3, <3>2 DEF Covered
    <3>3. CASE versions[n][k] # versions[recvd][k]
      <4>1. PICK m \in recs : m.key = k /\ m.lsn = n
        BY <1>3, <3>3
      <4>2. m \in out' /\ i < m.lsn /\ m.lsn <= j
        BY <1>1, <1>4, <2>3, <4>1
      <4>. QED
        BY <4>1, <4>2 DEF Covered
    <3>4. Covered(i, k, recvd)
      <4>1. recvd \in i..recvd
        BY <1>1, <2>3
      <4>. QED
        BY <1>6, <4>1
    <3>. QED
      BY <3>1, <3>2, <3>3, <3>4, Zenon DEF Covered
  <2>. QED
    BY <1>1, <1>4, <2>1, <2>2, <2>3
<1>7. Records'
  <2>1. ASSUME NEW m \in out
        PROVE  /\ m.key \in Keys /\ m.lsn \in Nat /\ confirmed_flush <= m.lsn /\ m.lsn <= n
               /\ m.val = versions[m.lsn][m.key]
               /\ \A j \in m.lsn..n : Covered(m.lsn, m.key, j)'
    BY <1>1, <1>4, <1>6 DEF IInv, Records
  <2>2. ASSUME NEW m \in recs
        PROVE  /\ m.key \in Keys /\ m.lsn \in Nat /\ confirmed_flush <= m.lsn /\ m.lsn <= n
               /\ m.val = versions[m.lsn][m.key]
               /\ \A j \in m.lsn..n : Covered(m.lsn, m.key, j)'
    <3>1. \A j \in n..n : j = n
      BY <1>4
    <3>. QED
      BY <1>1, <1>3, <1>4, <3>1 DEF Covered
  <2>. QED
    BY <1>1, <2>1, <2>2, Zenon DEF Records
<1>8. Topic'
  <2>1. ASSUME NEW k \in Keys, NEW i \in confirmed_flush..last, Told(k, i) PROVE Told(k, i)'
    <3>1. i \in Nat
      BY <1>1
    <3>. QED
      BY <1>1, <1>6, <2>1, <3>1 DEF Told
  <2>2. \A k \in Keys : Awaited(k) => Awaited(k)'
    BY <1>1 DEF Awaited
  <2>. QED
    BY <1>1, <2>1, <2>2, Zenon DEF IInv, Topic
<1>. QED
  BY <1>7, <1>8

\* A record is acknowledged, the first one of its key: the topic then has the row
\* of the record's version, and the later records are still outstanding.
LEMMA DeliverStep == ASSUME IInv, NEW m \in out, on_deliver_msg(m) PROVE IInv'
<1>1. /\ \A x \in out : x.key = m.key => m.lsn <= x.lsn
      /\ out' = out \ {m} /\ loose' = loose \ {m.key}
      /\ latest' = [k \in Keys |-> IF k = m.key THEN m.val ELSE latest[k]]
      /\ UNCHANGED <<kind, last, versions, wal, slot, consistent_point, confirmed_flush, pc, todo, recvd>>
  BY Zenon DEF on_deliver_msg, db, slotv
<1>2. Types' /\ Logged' /\ Phases'
  BY <1>1, Zenon DEF IInv, Types, Logged, Phases
<1>. SUFFICES ASSUME Keyed PROVE Records' /\ Topic'
  BY <1>1, <1>2 DEF IInv, Keyed, table_key_index
<1>3. /\ m.key \in Keys /\ m.lsn \in Nat /\ confirmed_flush <= m.lsn /\ m.lsn <= recvd
      /\ m.val = versions[m.lsn][m.key]
      /\ \A j \in m.lsn..recvd : Covered(m.lsn, m.key, j)
  BY DEF IInv, Records
<1>4. recvd \in Nat /\ last \in Nat /\ confirmed_flush \in Nat /\ recvd <= last
  BY DEF IInv, Types, Phases
\* What is counted on is a later record, or one of another key
<1>5. ASSUME NEW i \in Nat, NEW k \in Keys, NEW j, Covered(i, k, j), k = m.key => m.lsn <= i
      PROVE  Covered(i, k, j)'
  <2>1. CASE versions[j][k] = versions[i][k]
    BY <1>1, <2>1, Zenon DEF Covered
  <2>2. CASE \E x \in out : x.key = k /\ i < x.lsn /\ x.lsn <= j
    <3>1. PICK x \in out : x.key = k /\ i < x.lsn /\ x.lsn <= j
      BY <2>2
    <3>2. x.lsn \in Nat
      BY DEF IInv, Records
    <3>3. x # m
      BY <1>3, <1>5, <3>1, <3>2
    <3>. QED
      BY <1>1, <3>1, <3>3 DEF Covered
  <2>. QED
    BY <1>5, <2>1, <2>2, Zenon DEF Covered
<1>6. Records'
  <2>. SUFFICES ASSUME NEW x \in out, x # m
                PROVE  /\ x.key \in Keys /\ x.lsn \in Nat
                       /\ confirmed_flush <= x.lsn /\ x.lsn <= recvd
                       /\ x.val = versions[x.lsn][x.key]
                       /\ \A j \in x.lsn..recvd : Covered(x.lsn, x.key, j)'
    BY <1>1 DEF Records
  <2>. QED
    BY <1>1, <1>5, Zenon DEF IInv, Records
<1>7. Topic'
  <2>. SUFFICES ASSUME NEW k \in Keys, k \notin loose'
                PROVE  IF slot THEN Awaited(k)' \/ \E n \in confirmed_flush..last : Told(k, n)'
                               ELSE latest'[k] = NoVal
    BY <1>1 DEF Topic
  <2>0. slot
    BY DEF IInv, Phases
  <2>1. CASE k = m.key
    <3>1. m.lsn \in confirmed_flush..last
      BY <1>3, <1>4
    <3>2. Told(k, m.lsn)'
      <4>1. latest'[k] = versions'[m.lsn][k]
        BY <1>1, <1>3, <2>1, Zenon
      <4>2. \A j \in m.lsn..recvd : Covered(m.lsn, k, j)'
        BY <1>3, <1>5, <2>1
      <4>. QED
        BY <1>1, <4>1, <4>2, Zenon DEF Told
    <3>. QED
      BY <2>0, <3>1, <3>2
  <2>2. CASE k # m.key
    <3>1. k \notin loose /\ latest'[k] = latest[k]
      BY <1>1, <2>2
    <3>2. Awaited(k) => Awaited(k)'
      BY <1>1, <2>2, Zenon DEF Awaited
    <3>3. ASSUME NEW n \in confirmed_flush..last, Told(k, n) PROVE Told(k, n)'
      <4>1. n \in Nat
        BY <1>4
      <4>. QED
        BY <1>1, <1>5, <2>2, <3>1, <3>3, <4>1 DEF Told
    <3>. QED
      BY <2>0, <3>1, <3>2, <3>3, Zenon DEF IInv, Topic
  <2>. QED
    BY <2>1, <2>2, Zenon
<1>. QED
  BY <1>6, <1>7, Zenon

\* The position confirmed moves to a version that the topic has, or is ahead of.
LEMMA CheckpointStep == ASSUME IInv, send_checkpoint PROVE IInv'
<1>1. PICK c \in confirmed_flush + 1 .. recvd : Durable(c) /\ confirmed_flush' = c
  BY Zenon DEF send_checkpoint, fsync_lsn
<1>2. /\ pc = "stream" /\ recvd \in Nat /\ last \in Nat /\ confirmed_flush \in Nat /\ recvd <= last
      /\ c \in Nat /\ confirmed_flush < c /\ c <= recvd /\ todo = {} /\ slot
      /\ UNCHANGED <<kind, last, versions, wal, slot, consistent_point, pc, todo, recvd, out, latest, loose>>
  BY <1>1 DEF send_checkpoint, db, IInv, Types, Phases
<1>3. Types' /\ Logged' /\ Phases'
  BY <1>1, <1>2 DEF IInv, Types, Logged, Phases
<1>. SUFFICES ASSUME Keyed PROVE Records' /\ Topic'
  BY <1>2, <1>3 DEF IInv, Keyed, table_key_index
<1>4. \A x \in out : x.lsn \in Nat /\ c < x.lsn
  BY <1>1 DEF Durable, IInv, Records
<1>5. \A n, k, j : Covered(n, k, j)' <=> Covered(n, k, j)
  BY <1>2, Zenon DEF Covered
<1>6. Records'
  BY <1>1, <1>2, <1>4, <1>5 DEF IInv, Records
<1>7. Topic'
  <2>. SUFFICES ASSUME NEW k \in Keys \ loose
                PROVE  Awaited(k)' \/ \E n \in c..last : Told(k, n)'
    BY <1>1, <1>2 DEF Topic
  <2>1. CASE Awaited(k)
    BY <1>2, <2>1 DEF Awaited
  <2>2. ASSUME NEW n \in confirmed_flush..last, Told(k, n) PROVE \E i \in c..last : Told(k, i)'
    <3>1. n \in Nat
      BY <1>2
    <3>2. CASE c <= n
      <4>1. n \in c..last
        BY <1>2, <3>1, <3>2
      <4>. QED
        BY <1>2, <1>5, <2>2, <4>1 DEF Told
    <3>3. CASE n < c
      <4>1. versions[c][k] = versions[n][k]
        <5>1. c \in n..recvd
          BY <1>2, <3>1, <3>3
        <5>2. ~ \E x \in out : x.lsn <= c
          BY <1>2, <1>4
        <5>. QED
          BY <2>2, <5>1, <5>2 DEF Told, Covered
      <4>2. ASSUME NEW j \in c..recvd PROVE Covered(c, k, j)
        <5>1. j \in n..recvd
          BY <1>2, <3>1, <3>3
        <5>2. Covered(n, k, j)
          BY <2>2, <5>1, Zenon DEF Told
        <5>. QED
          BY <1>4, <4>1, <5>2 DEF Covered
      <4>3. Told(k, c)'
        BY <1>2, <1>5, <2>2, <4>1, <4>2 DEF Told
      <4>4. c \in c..last
        BY <1>2
      <4>. QED
        BY <4>3, <4>4
    <3>. QED
      BY <1>2, <3>1, <3>2, <3>3
  <2>. QED
    BY <1>2, <2>1, <2>2 DEF IInv, Topic
<1>. QED
  BY <1>6, <1>7

\* The client dies: what was outstanding is forgotten, and the rows that were
\* still awaited are loose.
LEMMA DieStep == ASSUME IInv, NEW drop \in BOOLEAN, Die(drop) PROVE IInv'
<1>1. /\ pc' = "down" /\ todo' = {} /\ recvd' = 0 /\ out' = {} /\ pc # "down" /\ slot
      /\ UNCHANGED <<kind, last, versions, wal, latest>>
  BY DEF Die, db, IInv, Phases
<1>2. CASE drop
  <2>1. slot' = FALSE /\ confirmed_flush' = 0 /\ loose' = {k \in Keys : latest[k] # NoVal}
    BY <1>2, Zenon DEF Die
  <2>2. Types' /\ Logged' /\ Phases'
    BY <1>1, <2>1 DEF IInv, Types, Logged, Phases
  <2>3. Records' /\ Topic'
    BY <1>1, <2>1, Zenon DEF Records, Topic
  <2>. QED
    BY <2>2, <2>3 DEF IInv
<1>3. CASE ~ drop
  <2>1. /\ UNCHANGED <<slot, consistent_point, confirmed_flush>>
        /\ loose' = loose \cup todo \cup
             {k \in Keys : \E m \in out : m.key = k /\ m.lsn = consistent_point}
    BY <1>3, Zenon DEF Die, slotv
  <2>2. Types' /\ Logged' /\ Phases'
    BY <1>1, <2>1 DEF IInv, Types, Logged, Phases
  <2>3. ASSUME Topic PROVE Topic'
    <3>. SUFFICES ASSUME NEW k \in Keys \ loose, ~ Awaited(k)
                  PROVE  \E n \in confirmed_flush..last : Told(k, n)'
      BY <1>1, <2>1 DEF Topic, Awaited
    <3>1. PICK n \in confirmed_flush..last : Told(k, n)
      BY <1>1, <2>3 DEF Topic
    <3>2. \A j \in n..0 : j = n
      BY DEF IInv, Types
    <3>. QED
      BY <1>1, <3>1, <3>2, Zenon DEF Told, Covered
  <2>4. Keyed' <=> Keyed
    BY <1>1 DEF Keyed, table_key_index
  <2>. QED
    BY <1>1, <2>2, <2>3, <2>4, Zenon DEF IInv, Records
<1>. QED
  BY <1>2, <1>3, Zenon

\* Every step keeps the invariant.
LEMMA NextIInv == ASSUME IndexThere PROVE IInv /\ [Next]_vars => IInv'
<1>. SUFFICES ASSUME IInv, [Next]_vars PROVE IInv'
  OBVIOUS
<1>1. CASE Insert
  BY <1>1, DatabaseStep DEF Insert, Values
<1>2. CASE Update
  BY <1>2, DatabaseStep DEF Update, Values
<1>3. CASE Delete
  BY <1>3, DatabaseStep DEF Delete, Values
<1>4. CASE Client
  BY <1>4, StartStep, SnapshotStep, ReceiveStep DEF Client
<1>5. ASSUME NEW m \in out, on_deliver_msg(m) PROVE IInv'
  BY <1>5, DeliverStep
<1>6. CASE send_checkpoint
  BY <1>6, CheckpointStep
<1>7. ASSUME NEW drop \in BOOLEAN, Die(drop) PROVE IInv'
  BY <1>7, DieStep, Zenon
<1>8. CASE UNCHANGED vars
  <2>. USE <1>8 DEF vars
  <2>1. Types' /\ Logged' /\ Phases' /\ (Keyed' <=> Keyed)
    BY Zenon DEF IInv, Types, Logged, Phases, Keyed, table_key_index
  <2>2. Records => Records'
    BY Zenon DEF Records, Covered
  <2>3. Topic => Topic'
    BY DEF Topic, Told, Covered, Awaited
  <2>. QED
    BY <2>1, <2>2, <2>3 DEF IInv
<1>. QED
  BY <1>1, <1>2, <1>3, <1>4, <1>5, <1>6, <1>7, <1>8 DEF Next

\* What the step lemmas establish, put together.
LEMMA Invariance == ASSUME IndexThere PROVE Spec => []IInv
<1>. QED
  BY InitIInv, NextIInv, PTL DEF Spec
-----------------------------------------------------------------------------
\* If Postgres logs the old keys, the topic is never behind the position that
\* the slot would have the next client start at.
THEOREM NeverBehind == ASSUME IndexThere PROVE Spec => []NotBehind
<1>1. IInv => NotBehind
  BY Zenon DEF IInv, Topic, Told, NotBehind
<1>. QED
  BY <1>1, Invariance, PTL

\* If Postgres logs the old keys, a client that has received every change, and had
\* every record acknowledged, has made the topic equal to the table.
THEOREM CaughtUpIsEqual == ASSUME IndexThere PROVE Spec => []Converged
<1>1. IInv => Converged
  <2>. SUFFICES ASSUME IInv, pc = "stream", recvd = last, out = {}, Keyed, NEW k \in Keys \ loose
                PROVE  latest[k] = table[k]
    BY Zenon DEF Converged
  <2>1. PICK n \in confirmed_flush..last : Told(k, n)
    BY DEF IInv, Phases, Topic, Awaited
  <2>2. last \in n..recvd
    BY DEF IInv, Types
  <2>. QED
    BY <2>1, <2>2, Zenon DEF Told, Covered, table
<1>. QED
  BY <1>1, Invariance, PTL
=============================================================================
