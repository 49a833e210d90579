------------------------- MODULE BottledWaterSteps --------------------------
(***************************************************************************)
(* The invariant of BottledWater is preserved by the start of the stream,  *)
(* by keepalives, by the steps that add a row and by the begin of a        *)
(* transaction.                                                            *)
(***************************************************************************)
EXTENDS BottledWaterInv

(* The start of the stream, keepalives, and the steps between two frames *)

\* START_REPLICATION: the stream begins where the snapshot ended or, after a
\* restart, at the position the slot remembers.
LEMMA StreamStartStep == IInv /\ replication_stream_start => IInv'
<1>. SUFFICES ASSUME IInv, replication_stream_start PROVE IInv'
  OBVIOUS
<1>. USE DEF server, broker, conns, ring, ckpt
<1>a. /\ pc = "stream_start" /\ pc' = "poll"
      /\ from' = IF start_lsn > confirmed_flush THEN start_lsn ELSE confirmed_flush
      /\ cur' = from' /\ base' = IF from = 0 THEN from' ELSE base
      /\ UNCHANGED <<server, ev, broker, conns, ring, ckpt, faults>>
  BY DEF replication_stream_start
<1>0. /\ slot_exists /\ ~ sql_conn /\ cur = from /\ ev = 0 /\ ~ received /\ snap = {}
      /\ start_lsn = consistent_point /\ xact_head = 0 /\ xact_tail = 0
      /\ 1 <= consistent_point /\ consistent_point <= confirmed_flush
      /\ confirmed_flush <= wal_end /\ confirmed_flush \in Lsn /\ confirmed_flush \in Nat
      /\ consistent_point \in Nat /\ from \in {0, confirmed_flush}
  <2>1. /\ slot_exists /\ ~ sql_conn /\ cur = from /\ ev = 0 /\ ~ received
        /\ start_lsn = consistent_point /\ xact_head = 0 /\ xact_tail = 0
        /\ from \in {0, confirmed_flush}
    BY <1>a DEF IInv, PhaseInv, StreamPhase
  <2>2. snap = {}
    BY <2>1 DEF IInv, PhaseInv, SnapshotPhase
  <2>3. /\ 1 <= consistent_point /\ consistent_point <= confirmed_flush
        /\ confirmed_flush <= wal_end
    BY <2>1 DEF IInv, SlotInv
  <2>4. confirmed_flush \in Lsn /\ confirmed_flush \in Nat /\ consistent_point \in Nat
    BY Numbers DEF IInv, TypeOK
  <2>. QED
    BY <2>1, <2>2, <2>3, <2>4
<1>r. \A lo, hi : RowsIn(lo, hi)' = RowsIn(lo, hi)
  BY <1>a DEF RowsIn
<1>1. /\ from' = confirmed_flush /\ cur' = confirmed_flush /\ xact_head' = 0 /\ xact_tail' = 0
      /\ Age(0)' = 0 /\ \A s \in Slot : Live(s)' <=> s = 0
  <2>1. start_lsn \in Nat /\ confirmed_flush \in Nat /\ start_lsn <= confirmed_flush
    BY <1>0
  <2>2. from' = confirmed_flush /\ cur' = confirmed_flush
    BY <1>a, <2>1
  <2>3. xact_head' = 0 /\ xact_tail' = 0
    BY <1>a, <1>0
  <2>. QED
    BY <2>2, <2>3, AgeFresh
<1>2. /\ from # 0 => from' = from /\ cur' = cur /\ base' = base /\ base = 0
      /\ from = 0 => /\ envelopes = {} /\ xact_list[0] = EmptyXact /\ fsync_lsn = 0
                     /\ base' = from'
  <2>1. /\ from # 0 => base = 0
        /\ from = 0 => envelopes = {} /\ xact_list[0] = EmptyXact /\ fsync_lsn = 0
    BY <1>a DEF IInv, PhaseInv, StreamPhase
  <2>. QED
    BY <1>a, <1>0, <1>1, <2>1, Zenon
<1>3. TypeOK'
  BY <1>a, <1>0, <1>1, <1>2 DEF IInv, TypeOK, Pc
<1>4. RingInv'
  <2>1. CASE from = 0
    <3>1. xact_list' = xact_list /\ xact_list[0] = EmptyXact
      BY <1>a, <1>2, <2>1
    <3>2. xact_list'[0].xid = 0 /\ xact_list'[0].commit_lsn = 0
      BY <3>1 DEF EmptyXact
    <3>3. cur' - Age(0)' = from' /\ from' \in Nat
      BY <1>0, <1>1
    <3>4. SlotOK(0)'
      BY <3>2, <3>3 DEF SlotOK
    <3>. QED
      BY <1>1, <3>4 DEF RingInv
  <2>2. CASE from # 0
    BY <1>a, <1>2, <2>2, BufferFrame DEF session
  <2>. QED
    BY <2>1, <2>2
<1>5. PendingExact'
  BY <1>a DEF IInv, PendingExact
<1>6. EnvelopeInv'
  <2>1. CASE from = 0
    <3>1. acked' = {}
      BY <1>a, <1>2, <2>1 DEF IInv, TypeOK
    <3>. QED
      BY <1>a, <1>2, <2>1, <3>1, EmptyCount DEF EnvelopeInv
  <2>2. CASE from # 0
    BY <1>a, <1>2, <2>2, BufferFrame DEF session, IInv, EnvelopeInv
  <2>. QED
    BY <2>1, <2>2
<1>7. CoverInv'
  <2>1. CASE from = 0
    <3>1. RowsIn(confirmed_flush, confirmed_flush) = {}
      BY <1>0 DEF RowsIn, Row
    <3>2. RowsIn(from, cur)' = {} /\ base' # 0
      BY <1>0, <1>r, <1>1, <1>2, <2>1, <3>1
    <3>. QED
      BY <3>2 DEF CoverInv
  <2>2. CASE from # 0
    <3>1. /\ RowsIn(from, cur)' = RowsIn(from, cur) /\ RowsIn(0, from)' = RowsIn(0, from)
          /\ UNCHANGED <<cur, ev, from, base, kafka, envelopes, snap>>
      BY <1>a, <1>r, <1>2, <2>2
    <3>2. \A r : Received(r)' <=> Received(r)
      BY <3>1 DEF Received
    <3>3. pc # "snapshot_start"
      BY <1>a
    <3>. QED
      BY <3>1, <3>2, <3>3 DEF IInv, CoverInv
  <2>. QED
    BY <2>1, <2>2
<1>8. PhaseInv'
  <2>1. PositionInv'
    <3>1. base' \in {0, from'}
      BY <1>1, <1>2
    <3>2. wal_end' = wal_end /\ ev' = 0
      BY <1>a, <1>0
    <3>. QED
      BY <1>0, <1>1, <3>1, <3>2 DEF PositionInv
  <2>2. StartPhase'
    BY <1>a DEF StartPhase
  <2>3. SnapshotPhase'
    BY <1>a, <1>0 DEF SnapshotPhase
  <2>4. StreamPhase'
    <3>1. /\ slot_exists' /\ from' > 0 /\ consistent_point' <= from'
          /\ confirmed_flush' = from' /\ from' \in Nat
      BY <1>a, <1>0, <1>1
    <3>2. pc' # "stream_start" /\ pc' # "begin"
      BY <1>a
    <3>. QED
      BY <3>1, <3>2 DEF StreamPhase
  <2>5. FlagInv'
    <3>1. CASE from = 0
      BY <1>2, <3>1 DEF FlagInv
    <3>2. CASE from # 0
      BY <1>a, <1>r, <1>2, <3>2 DEF IInv, PhaseInv, FlagInv
    <3>. QED
      BY <3>1, <3>2
  <2>. QED
    BY <2>1, <2>2, <2>3, <2>4, <2>5 DEF PhaseInv
<1>9. CheckpointInv'
  <2>1. CASE from = 0
    <3>1. RowsIn(confirmed_flush, 0) = {}
      BY <1>0 DEF RowsIn, Row
    <3>2. fsync_lsn' = 0 /\ base' = confirmed_flush
      BY <1>a, <1>1, <1>2, <2>1
    <3>3. Age(xact_tail)' = 0
      BY <1>1 DEF Age
    <3>4. cur' - Age(xact_tail)' = from' /\ from' \in Nat
      BY <1>0, <1>1, <3>3
    <3>5. RowsIn(base, fsync_lsn)' = {}
      BY <1>r, <3>1, <3>2
    <3>. QED
      BY <3>2, <3>4, <3>5 DEF CheckpointInv, CheckpointDelivered
  <2>2. CASE from # 0
    BY <1>a, <1>r, <1>2, <2>2, AgeFrame DEF IInv, CheckpointInv, CheckpointDelivered
  <2>. QED
    BY <2>1, <2>2
<1>10. SlotInv' /\ ConfirmedDelivered'
  BY <1>a, <1>r DEF IInv, SlotInv, ConfirmedDelivered
<1>. QED
  BY <1>3, <1>4, <1>5, <1>6, <1>7, <1>8, <1>9, <1>10 DEF IInv

\* The producer takes a message, or a begin frame is read.
LEMMA ControlStep == IInv /\ (rd_kafka_produce \/ recv_begin) => IInv'
<1>. SUFFICES ASSUME IInv, rd_kafka_produce \/ recv_begin PROVE IInv'
  OBVIOUS
<1>0. /\ UNCHANGED <<server, session, conns, ring, ckpt, faults, kafka, acked>>
      /\ queued' \in {queued, envelopes \ acked}
      /\ \/ pc = "produce" /\ pc' = "poll"
         \/ pc = "poll" /\ pc' = "begin" /\ ~ sql_conn /\ ev = 0 /\ cur < wal_end
  BY DEF rd_kafka_produce, recv_begin, broker
<1>6. PhaseInv'
  BY <1>0, PhaseFrame DEF IInv
<1>. USE DEF server, session, conns, ring, ckpt
<1>1. TypeOK'
  BY <1>0 DEF IInv, TypeOK, Pc
<1>2. RingInv' /\ PendingExact'
  BY <1>0, BufferFrame
<1>3. EnvelopeInv'
  BY <1>0, BufferFrame DEF IInv, EnvelopeInv
<1>4. \A lo, hi : RowsIn(lo, hi)' = RowsIn(lo, hi)
  BY <1>0 DEF RowsIn
<1>5. CoverInv'
  BY <1>0, <1>4 DEF IInv, CoverInv, Received
<1>7. CheckpointInv'
  BY <1>0, <1>4, AgeFrame DEF IInv, CheckpointInv, CheckpointDelivered
<1>8. SlotInv' /\ ConfirmedDelivered'
  BY <1>0, <1>4 DEF IInv, SlotInv, ConfirmedDelivered
<1>. QED
  BY <1>1, <1>2, <1>3, <1>5, <1>6, <1>7, <1>8 DEF IInv

\* The server accepts a status update, or the client notes a keepalive.
LEMMA KeepaliveStep ==
  ASSUME IInv, replication_stream_keepalive \/ \E reply \in BOOLEAN : parse_keepalive_message(reply)
  PROVE  IInv' /\ (slot_exists => confirmed_flush <= confirmed_flush')
<1>. USE DEF server, session, broker, conns, ring, ckpt
<1>1. /\ received' \in BOOLEAN /\ CopyBoth
      /\ confirmed_flush' \in {confirmed_flush, IF fsync_lsn # 0 THEN fsync_lsn ELSE confirmed_flush}
      /\ UNCHANGED <<wal_end, wal, slot_exists, consistent_point, session, broker, sql_conn, snap,
                     start_lsn, ring, ckpt, pc, faults>>
  <2>1. CASE replication_stream_keepalive
    <3>1. received /\ Polling
      BY <2>1 DEF replication_stream_keepalive
    <3>2. ~ sql_conn
      BY <3>1 DEF IInv, PhaseInv, SnapshotPhase, Polling
    <3>. QED
      BY <2>1, <3>1, <3>2 DEF replication_stream_keepalive, send_checkpoint, CopyBoth, Polling
  <2>2. CASE \E reply \in BOOLEAN : parse_keepalive_message(reply)
    BY <2>2 DEF parse_keepalive_message, send_checkpoint, CopyBoth
  <2>. QED
    BY <2>1, <2>2
<1>. DEFINE t == cur - Age(xact_tail)
<1>2. /\ slot_exists /\ consistent_point <= from /\ from <= confirmed_flush /\ from > 0
      /\ base \in {0, from} /\ base \in Nat /\ from \in Nat /\ fsync_lsn \in Nat
      /\ confirmed_flush \in Nat /\ consistent_point \in Nat /\ cur \in Nat
      /\ wal_end \in Nat /\ cur <= wal_end /\ t \in Int /\ t <= cur
      /\ confirmed_flush <= from \/ confirmed_flush <= fsync_lsn
      /\ fsync_lsn # 0 => from <= fsync_lsn /\ fsync_lsn <= t
  <2>1. /\ base \in Nat /\ from \in Nat /\ fsync_lsn \in Nat /\ confirmed_flush \in Nat
        /\ consistent_point \in Nat /\ cur \in Nat /\ wal_end \in Nat
        /\ xact_head \in Slot /\ xact_tail \in Slot
    BY Numbers DEF IInv
  <2>2. Age(xact_tail) \in Nat
    BY <2>1, AgeValue, RingAssumption
  <2>3. base \in {0, from} /\ cur <= wal_end
    BY DEF IInv, PhaseInv, PositionInv
  <2>4. /\ slot_exists /\ consistent_point <= from /\ from <= confirmed_flush /\ from > 0
        /\ confirmed_flush <= from \/ confirmed_flush <= fsync_lsn
    BY <1>1 DEF IInv, PhaseInv, StreamPhase
  <2>5. fsync_lsn # 0 => from <= fsync_lsn /\ fsync_lsn <= t
    BY DEF IInv, CheckpointInv
  <2>6. t \in Int /\ t <= cur
    BY <2>1, <2>2
  <2>. HIDE DEF t
  <2>. QED
    BY <2>1, <2>3, <2>4, <2>5, <2>6
<1>0. /\ fsync_lsn = 0 => confirmed_flush' = confirmed_flush
      /\ fsync_lsn # 0 => confirmed_flush' \in {confirmed_flush, fsync_lsn}
  BY <1>1
<1>3. TypeOK'
  BY <1>1 DEF IInv, TypeOK
<1>4. RingInv' /\ PendingExact'
  BY <1>1, BufferFrame
<1>5. EnvelopeInv'
  BY <1>1, BufferFrame DEF IInv, EnvelopeInv
<1>6. \A lo, hi : RowsIn(lo, hi)' = RowsIn(lo, hi)
  BY <1>1 DEF RowsIn
<1>7. CoverInv'
  BY <1>1, <1>6 DEF IInv, CoverInv, Received
<1>8. PhaseInv'
  <2>1. PositionInv'
    BY <1>1 DEF IInv, PhaseInv, PositionInv
  <2>2. StartPhase'
    BY <1>1 DEF StartPhase, CopyBoth
  <2>3. SnapshotPhase'
    BY <1>1 DEF IInv, PhaseInv, SnapshotPhase, CopyBoth
  <2>4. StreamPhase'
    <3>1. /\ slot_exists' /\ from' > 0 /\ consistent_point' <= from'
          /\ from' <= confirmed_flush'
          /\ confirmed_flush' <= from' \/ confirmed_flush' <= fsync_lsn'
      <4>1. /\ slot_exists' = slot_exists /\ from' = from /\ fsync_lsn' = fsync_lsn
            /\ consistent_point' = consistent_point
        BY <1>1
      <4>2. /\ from <= confirmed_flush'
            /\ confirmed_flush' <= from \/ confirmed_flush' <= fsync_lsn
        BY <1>0, <1>2
      <4>. QED
        BY <1>2, <4>1, <4>2
    <3>2. pc' = "begin" => ~ sql_conn' /\ ev' = 0 /\ cur' < wal_end'
      BY <1>1 DEF IInv, PhaseInv, StreamPhase
    <3>3. pc' # "stream_start"
      BY <1>1 DEF CopyBoth
    <3>. QED
      BY <3>1, <3>2, <3>3 DEF StreamPhase
  <2>5. FlagInv'
    BY <1>1, <1>6 DEF IInv, PhaseInv, FlagInv
  <2>. QED
    BY <2>1, <2>2, <2>3, <2>4, <2>5 DEF PhaseInv
<1>9. CheckpointInv'
  BY <1>1, <1>6, AgeFrame DEF IInv, CheckpointInv, CheckpointDelivered
<1>10. SlotInv'
  <2>1. /\ slot_exists' = slot_exists /\ consistent_point' = consistent_point
        /\ wal_end' = wal_end
    BY <1>1
  <2>2. /\ 1 <= consistent_point /\ consistent_point <= confirmed_flush
        /\ confirmed_flush <= wal_end
    BY <1>2 DEF IInv, SlotInv
  <2>3. fsync_lsn # 0 => consistent_point <= fsync_lsn /\ fsync_lsn <= wal_end
    BY <1>2
  <2>. QED
    BY <1>0, <2>1, <2>2, <2>3 DEF SlotInv
<1>11. ConfirmedDelivered'
  <2>1. CASE confirmed_flush' = confirmed_flush
    BY <1>1, <1>6, <2>1 DEF IInv, ConfirmedDelivered
  <2>2. CASE confirmed_flush' = fsync_lsn
    <3>. SUFFICES ASSUME NEW r \in RowsIn(consistent_point, fsync_lsn) PROVE r \in kafka
      BY <1>1, <1>6, <2>2 DEF ConfirmedDelivered
    <3>1. r \in Row /\ r[1] \in Nat /\ consistent_point < r[1] /\ r[1] <= fsync_lsn
          /\ r[2] <= wal[r[1]]
      BY DEF RowsIn, Row
    <3>2. CASE r[1] > base
      <4>1. r \in RowsIn(base, fsync_lsn)
        BY <3>1, <3>2 DEF RowsIn
      <4>. QED
        BY <4>1 DEF IInv, CheckpointInv, CheckpointDelivered
    <3>3. CASE r[1] <= base
      <4>1. /\ base \in Nat /\ from \in Nat /\ confirmed_flush \in Nat /\ from <= confirmed_flush
            /\ base = 0 \/ base = from
        BY <1>2
      <4>2. r[1] <= confirmed_flush
        BY <3>1, <3>3, <4>1
      <4>3. r \in RowsIn(consistent_point, confirmed_flush)
        BY <3>1, <4>2 DEF RowsIn
      <4>4. slot_exists
        BY <1>2
      <4>. QED
        BY <4>3, <4>4 DEF IInv, ConfirmedDelivered
    <3>4. base \in Nat /\ r[1] \in Nat
      BY <1>2, <3>1
    <3>5. r[1] > base \/ r[1] <= base
      BY <3>4
    <3>. QED
      BY <3>2, <3>3, <3>5
  <2>. QED
    BY <1>1, <2>1, <2>2
<1>12. confirmed_flush <= confirmed_flush'
  BY <1>0, <1>2
<1>. QED
  BY <1>3, <1>4, <1>5, <1>7, <1>8, <1>9, <1>10, <1>11, <1>12 DEF IInv
-----------------------------------------------------------------------------
(* Steps that add a row *)

\* send_kafka_msg keeps the transactions of the slots and counts the row.
LEMMA SendStep ==
  ASSUME IInv, NEW row \in Row, send_kafka_msg(row),
         [xact |-> xact_head, txn |-> xact_list[xact_head].xid, row |-> row] \notin envelopes
  PROVE  /\ PendingExact' /\ xact_list' \in [Slot -> Xact] /\ IsFiniteSet(envelopes')
         /\ envelopes' \subseteq Envelope
         /\ xact_head' = xact_head /\ xact_tail' = xact_tail
         /\ \A s \in Slot : /\ xact_list'[s].xid = xact_list[s].xid
                            /\ xact_list'[s].commit_lsn = xact_list[s].commit_lsn
                            /\ Age(s)' = Age(s) /\ (Live(s)' <=> Live(s))
         /\ Live(xact_head) /\ xact_list[xact_head].xid \in Lsn /\ Age(xact_head) = 0
<1>. DEFINE e == [xact |-> xact_head, txn |-> xact_list[xact_head].xid, row |-> row]
<1>1. xact_head \in Slot /\ xact_tail \in Slot /\ xact_list \in [Slot -> Xact]
  BY DEF IInv, TypeOK
<1>2. xact_list[xact_head].xid \in Lsn
  BY <1>1 DEF Xact
<1>3. e \in Envelope /\ e.xact = xact_head
  BY <1>1, <1>2 DEF Envelope
<1>4. PendingExact' /\ xact_list' \in [Slot -> Xact] /\ IsFiniteSet(envelopes')
  <2>1. PendingExact /\ IsFiniteSet(envelopes)
    BY DEF IInv, EnvelopeInv
  <2>2. /\ e \notin envelopes /\ envelopes' = envelopes \cup {e}
        /\ xact_list' = [xact_list EXCEPT ![e.xact].pending_events = @ + 1]
    BY <1>3 DEF send_kafka_msg
  <2>. HIDE DEF e
  <2>. QED
    BY <1>1, <1>3, <2>1, <2>2, CountIn, Zenon
<1>5. envelopes' \subseteq Envelope
  BY <1>3 DEF send_kafka_msg, IInv, TypeOK
<1>6. /\ xact_head' = xact_head /\ xact_tail' = xact_tail
      /\ \A s \in Slot : /\ xact_list'[s].xid = xact_list[s].xid
                         /\ xact_list'[s].commit_lsn = xact_list[s].commit_lsn
  BY <1>1 DEF send_kafka_msg, Xact
<1>7. Age(xact_head) = 0 /\ Live(xact_head)
  BY <1>1, HeadIsLive
<1>8. \A s \in Slot : Age(s)' = Age(s) /\ (Live(s)' <=> Live(s))
  BY <1>6, AgeFrame
<1>. QED
  BY <1>2, <1>4, <1>5, <1>6, <1>7, <1>8

\* A row of the snapshot.
LEMMA SnapshotTupleStep ==
  ASSUME IInv, NEW row \in snap, snapshot_tuple(row)
  PROVE  IInv'
<1>. DEFINE e == [xact |-> xact_head, txn |-> xact_list[xact_head].xid, row |-> row]
<1>1. /\ row \in Row /\ send_kafka_msg(row) /\ pc = "poll" /\ sql_conn /\ pc' = "produce"
      /\ snap' = snap \ {row} /\ envelopes' = envelopes \cup {e}
      /\ UNCHANGED <<server, session, broker, sql_conn, start_lsn, received, ckpt, faults>>
  BY DEF snapshot_tuple, send_kafka_msg, IInv, TypeOK
<1>. USE DEF server, session, broker, ckpt
<1>2. /\ base = 0 /\ cur = from /\ ev = 0 /\ row[1] <= from /\ cur \in Nat /\ from > 0
      /\ xact_head = 0 /\ xact_tail = 0 /\ fsync_lsn = 0
      /\ 0 \in Slot /\ xact_list \in [Slot -> Xact]
      /\ \A lo, hi : RowsIn(lo, hi)' = RowsIn(lo, hi)
  <2>1. /\ base = 0 /\ cur = from /\ ev = 0 /\ row[1] <= from /\ from > 0
        /\ xact_head = 0 /\ xact_tail = 0 /\ fsync_lsn = 0
    BY <1>1 DEF IInv, PhaseInv, SnapshotPhase
  <2>2. cur \in Nat /\ xact_list \in [Slot -> Xact] /\ xact_head \in Slot
    BY Numbers DEF IInv, TypeOK
  <2>3. \A lo, hi : RowsIn(lo, hi)' = RowsIn(lo, hi)
    BY <1>1 DEF RowsIn
  <2>. QED
    BY <2>1, <2>2, <2>3
<1>3. xact_list[0].xid = 0
  <2>1. Age(0) = 0 /\ Live(0)
    BY <1>2, AgeValue, RingAssumption DEF Live, Slot
  <2>. QED
    BY <1>2, <2>1 DEF IInv, RingInv, SlotOK
<1>4. e \notin envelopes
  BY <1>1, <1>2, <1>3 DEF IInv, EnvelopeInv
<1>5. /\ PendingExact' /\ xact_list' \in [Slot -> Xact] /\ IsFiniteSet(envelopes')
      /\ envelopes' \subseteq Envelope
      /\ xact_head' = xact_head /\ xact_tail' = xact_tail
      /\ \A s \in Slot : /\ xact_list'[s].xid = xact_list[s].xid
                         /\ xact_list'[s].commit_lsn = xact_list[s].commit_lsn
                         /\ Age(s)' = Age(s) /\ (Live(s)' <=> Live(s))
      /\ Live(xact_head) /\ Age(xact_head) = 0
  BY <1>1, <1>4, SendStep, Zenon
<1>6. TypeOK'
  BY <1>1, <1>5 DEF IInv, TypeOK, Pc
<1>7. RingInv'
  BY <1>1, <1>5 DEF IInv, RingInv, SlotOK
<1>8. EnvelopeInv'
  <2>1. ASSUME NEW n \in envelopes
        PROVE  /\ n.xact \in Slot /\ Live(n.xact)' /\ n.txn = xact_list'[n.xact].xid
    BY <1>5 DEF IInv, EnvelopeInv, TypeOK, Envelope
  <2>2. e.xact = xact_head /\ e.txn = 0 /\ e.row = row
    BY <1>2, <1>3
  <2>. HIDE DEF e
  <2>3. ASSUME NEW n \in envelopes'
        PROVE  /\ Live(n.xact)' /\ n.txn = xact_list'[n.xact].xid /\ n.row[1] <= cur
               /\ IF n.txn = 0 THEN base = 0 /\ n.row[1] <= from /\ n.row \notin snap'
                               ELSE n.row[1] = n.txn
    <3>1. CASE n = e
      <4>1. n.xact = 0 /\ n.txn = 0 /\ n.row = row /\ n.xact \in Slot
        BY <1>2, <2>2, <3>1
      <4>2. Live(n.xact)' /\ xact_list'[n.xact].xid = 0
        BY <1>2, <1>3, <1>5, <4>1
      <4>3. n.row[1] <= cur /\ n.row[1] <= from /\ base = 0 /\ n.row \notin snap'
        BY <1>1, <1>2, <4>1
      <4>. QED
        BY <4>1, <4>2, <4>3, Zenon
    <3>2. CASE n \in envelopes
      <4>1. /\ n.row[1] <= cur
            /\ IF n.txn = 0 THEN base = 0 /\ n.row[1] <= from /\ n.row \notin snap
                            ELSE n.row[1] = n.txn
        BY <3>2 DEF IInv, EnvelopeInv
      <4>2. snap' \subseteq snap
        BY <1>1
      <4>. QED
        BY <2>1, <3>2, <4>1, <4>2
    <3>. QED
      BY <1>1, <3>1, <3>2
  <2>4. \A n \in acked' : n.row \in kafka' /\ n \notin queued'
    BY <1>1 DEF IInv, EnvelopeInv
  <2>5. cur' = cur /\ from' = from /\ base' = base /\ ev' = 0 /\ ~ ev' > 0
    BY <1>1, <1>2
  <2>. QED
    BY <1>5, <2>3, <2>4, <2>5 DEF EnvelopeInv
<1>9. CoverInv'
  <2>1. e.txn = 0 /\ e.row = row
    BY <1>2, <1>3
  <2>. HIDE DEF e
  <2>2. RowsIn(from, cur) = {}
    BY <1>2 DEF RowsIn, Row
  <2>3. ASSUME NEW r \in RowsIn(0, from)
        PROVE  r \in kafka \/ r \in snap' \/ \E n \in envelopes' : n.row = r /\ n.txn = 0
    <3>1. r \in kafka \/ r \in snap \/ \E n \in envelopes : n.row = r /\ n.txn = 0
      BY <1>1, <1>2 DEF IInv, CoverInv
    <3>. QED
      BY <1>1, <2>1, <3>1
  <2>. QED
    BY <1>1, <1>2, <2>2, <2>3 DEF CoverInv
<1>10. PhaseInv'
  <2>1. PositionInv'
    BY <1>1 DEF IInv, PhaseInv, PositionInv
  <2>2. StartPhase'
    BY <1>1 DEF StartPhase
  <2>3. SnapshotPhase'
    <3>1. xact_list'[0].commit_lsn = xact_list[0].commit_lsn
      BY <1>2, <1>5
    <3>. QED
      BY <1>1, <1>5, <3>1 DEF IInv, PhaseInv, SnapshotPhase
  <2>4. StreamPhase'
    BY <1>1 DEF StreamPhase, CopyBoth
  <2>5. FlagInv'
    BY <1>1, <1>2 DEF IInv, PhaseInv, FlagInv
  <2>. QED
    BY <2>1, <2>2, <2>3, <2>4, <2>5 DEF PhaseInv
<1>11. CheckpointInv'
  BY <1>1, <1>2, <1>5 DEF IInv, CheckpointInv, CheckpointDelivered
<1>12. SlotInv' /\ ConfirmedDelivered'
  BY <1>1, <1>2 DEF IInv, SlotInv, ConfirmedDelivered
<1>. QED
  BY <1>5, <1>6, <1>7, <1>8, <1>9, <1>10, <1>11, <1>12 DEF IInv

\* A row of the stream.
LEMMA InsertStep == IInv /\ on_insert_row => IInv'
<1>. SUFFICES ASSUME IInv, on_insert_row PROVE IInv'
  OBVIOUS
<1>. DEFINE row == <<cur, ev>>
            e == [xact |-> xact_head, txn |-> xact_list[xact_head].xid, row |-> row]
<1>1. /\ send_kafka_msg(row) /\ pc = "poll" /\ ~ sql_conn /\ pc' = "produce"
      /\ ev > 0 /\ ev <= wal[cur] /\ ev' = ev + 1 /\ received' = TRUE
      /\ envelopes' = envelopes \cup {e}
      /\ UNCHANGED <<server, cur, from, base, broker, sql_conn, snap, start_lsn, ckpt, faults>>
  BY DEF on_insert_row, send_kafka_msg
<1>. USE DEF server, broker, ckpt
<1>2. /\ cur \in 1 .. MaxTxns /\ cur \in Lsn /\ cur \in Nat /\ from \in Nat /\ from < cur
      /\ ev \in Nat /\ snap = {}
      /\ wal[cur] \in 0 .. MaxRows /\ xact_head \in Slot /\ xact_list \in [Slot -> Xact]
      /\ \A lo, hi : RowsIn(lo, hi)' = RowsIn(lo, hi)
  <2>1. /\ cur \in Lsn /\ cur \in Nat /\ from \in Nat /\ ev \in Nat /\ wal_end \in Nat
        /\ wal_end <= MaxTxns /\ xact_head \in Slot /\ xact_list \in [Slot -> Xact]
    BY Numbers DEF IInv, TypeOK
  <2>2. from < cur /\ cur <= wal_end
    BY <1>1 DEF IInv, PhaseInv, PositionInv
  <2>3. snap = {}
    BY <1>1 DEF IInv, PhaseInv, SnapshotPhase
  <2>4. cur \in 1 .. MaxTxns
    BY <2>1, <2>2, BoundAssumption
  <2>5. wal[cur] \in 0 .. MaxRows
    BY <2>4, WalElement DEF IInv
  <2>6. \A lo, hi : RowsIn(lo, hi)' = RowsIn(lo, hi)
    BY <1>1 DEF RowsIn
  <2>. QED
    BY <2>1, <2>2, <2>3, <2>4, <2>5, <2>6
<1>3. row \in Row /\ row[1] = cur /\ row[2] = ev
  BY <1>1, <1>2, BoundAssumption DEF Row, Lsn
<1>4. xact_list[xact_head].xid = cur
  <2>1. Age(xact_head) = 0 /\ Age(xact_tail) \in Nat
    <3>1. xact_tail \in Slot
      BY DEF IInv, TypeOK
    <3>. QED
      BY <1>2, <3>1, AgeValue, RingAssumption DEF Slot
  <2>2. SlotOK(xact_head)
    BY <1>2, <2>1 DEF Live, IInv, RingInv
  <2>. QED
    BY <1>2, <2>1, <2>2 DEF SlotOK
<1>5. e \notin envelopes
  <2>. SUFFICES ASSUME e \in envelopes PROVE FALSE
    OBVIOUS
  <2>1. e.txn = cur /\ e.row[2] = ev
    BY <1>4
  <2>2. e.txn # 0 /\ e.txn = cur /\ ev > 0 => e.row[2] < ev
    BY DEF IInv, EnvelopeInv
  <2>. HIDE DEF e
  <2>. QED
    BY <1>1, <1>2, <2>1, <2>2
<1>6. /\ PendingExact' /\ xact_list' \in [Slot -> Xact] /\ IsFiniteSet(envelopes')
      /\ envelopes' \subseteq Envelope
      /\ xact_head' = xact_head /\ xact_tail' = xact_tail
      /\ \A s \in Slot : /\ xact_list'[s].xid = xact_list[s].xid
                         /\ xact_list'[s].commit_lsn = xact_list[s].commit_lsn
                         /\ Age(s)' = Age(s) /\ (Live(s)' <=> Live(s))
      /\ Live(xact_head) /\ Age(xact_head) = 0
  BY <1>1, <1>3, <1>5, SendStep, Zenon
<1>. HIDE DEF row
<1>7. TypeOK'
  <2>1. ev' \in 0 .. MaxRows + 1
    BY <1>1, <1>2, BoundAssumption
  <2>2. queued' \subseteq envelopes' /\ acked' \subseteq envelopes'
    BY <1>1 DEF IInv, TypeOK
  <2>3. pc' \in Pc /\ received' \in BOOLEAN
    BY <1>1 DEF Pc
  <2>. QED
    BY <1>1, <1>6, <2>1, <2>2, <2>3 DEF IInv, TypeOK
<1>8. RingInv'
  <2>. SUFFICES ASSUME NEW s \in Slot, Live(s)' PROVE SlotOK(s)'
    BY DEF RingInv
  <2>1. SlotOK(s)
    BY <1>6 DEF IInv, RingInv
  <2>2. cur' = cur /\ from' = from /\ xact_head' = xact_head /\ ev > 0 /\ ev' > 0
    <3>1. ev \in Nat
      BY <1>2
    <3>2. cur' = cur /\ from' = from /\ ev > 0 /\ ev' = ev + 1
      BY <1>1
    <3>3. ev' > 0
      BY <3>1, <3>2
    <3>. QED
      BY <1>6, <3>2, <3>3
  <2>3. /\ Age(s)' = Age(s) /\ xact_list'[s].xid = xact_list[s].xid
        /\ xact_list'[s].commit_lsn = xact_list[s].commit_lsn
    BY <1>6
  <2>. QED
    BY <2>1, <2>2, <2>3 DEF SlotOK
<1>9. EnvelopeInv'
  <2>1. ASSUME NEW n \in envelopes
        PROVE  /\ n.xact \in Slot /\ Live(n.xact)' /\ n.txn = xact_list'[n.xact].xid
               /\ n.row[2] \in Nat
    <3>1. n \in Envelope
      BY DEF IInv, TypeOK
    <3>2. n.xact \in Slot /\ n.row[2] \in Nat
      BY <3>1 DEF Envelope, Row
    <3>3. Live(n.xact) /\ n.txn = xact_list[n.xact].xid
      BY DEF IInv, EnvelopeInv
    <3>. QED
      BY <1>6, <3>2, <3>3
  <2>2. e.xact = xact_head /\ e.txn = cur /\ e.row = row
    BY <1>2, <1>4
  <2>. HIDE DEF e
  <2>. QED
    <3>1. ASSUME NEW n \in envelopes'
          PROVE  /\ Live(n.xact)' /\ n.txn = xact_list'[n.xact].xid
                 /\ n.row[1] <= cur'
                 /\ IF n.txn = 0 THEN base' = 0 /\ n.row[1] <= from' /\ n.row \notin snap'
                                 ELSE n.row[1] = n.txn
                 /\ n.txn # 0 /\ n.txn = cur' /\ ev' > 0 => n.row[2] < ev'
      <4>1. CASE n = e
        <5>1. n.xact = xact_head /\ n.txn = cur /\ n.row[1] = cur /\ n.row[2] = ev
          BY <1>3, <2>2, <4>1
        <5>2. Live(n.xact)' /\ xact_list'[n.xact].xid = cur
          <6>1. n.xact \in Slot /\ n.xact = xact_head
            BY <1>2, <5>1
          <6>. QED
            BY <1>4, <1>6, <6>1
        <5>3. cur' = cur /\ ev' = ev + 1
          BY <1>1
        <5>4. cur \in Nat /\ cur # 0 /\ ev \in Nat
          BY <1>2
        <5>5. n.row[1] <= cur' /\ n.row[2] < ev'
          BY <5>1, <5>3, <5>4
        <5>. QED
          BY <5>1, <5>2, <5>4, <5>5
      <4>2. CASE n \in envelopes
        <5>1. /\ n.row[1] <= cur
              /\ IF n.txn = 0 THEN base = 0 /\ n.row[1] <= from /\ n.row \notin snap
                              ELSE n.row[1] = n.txn
              /\ n.txn # 0 /\ n.txn = cur => n.row[2] < ev
          BY <1>1, <4>2 DEF IInv, EnvelopeInv
        <5>2. n.txn # 0 /\ n.txn = cur => n.row[2] < ev + 1
          BY <1>2, <2>1, <4>2, <5>1, Below, Zenon
        <5>. QED
          BY <1>1, <2>1, <4>2, <5>1, <5>2
      <4>. QED
        BY <1>1, <4>1, <4>2
    <3>2. \A n \in acked' : n.row \in kafka' /\ n \notin queued'
      BY <1>1 DEF IInv, EnvelopeInv
    <3>. QED
      BY <1>6, <3>1, <3>2 DEF EnvelopeInv
<1>10. CoverInv'
  <2>1. e.txn = cur /\ e.row = row
    BY <1>2, <1>4
  <2>. HIDE DEF e
  <2>2. ASSUME NEW r \in RowsIn(from, cur), Received(r)'
        PROVE  Received(r) \/ r = row
    <3>1. r \in Row /\ r[1] \in Nat /\ r[2] \in Nat /\ r[1] <= cur
      BY DEF RowsIn, Row
    <3>2. r[1] < cur \/ ev + 1 = 0 \/ r[2] < ev + 1
      BY <1>1, <2>2 DEF Received
    <3>3. r[1] < cur \/ r[2] < ev \/ (r[1] = cur /\ r[2] = ev)
      BY <1>2, <3>1, <3>2
    <3>4. r = <<r[1], r[2]>>
      BY <3>1 DEF Row
    <3>. QED
      BY <3>3, <3>4 DEF Received, row
  <2>3. ASSUME NEW r \in RowsIn(from, cur), Received(r)'
        PROVE  r \in kafka \/ \E n \in envelopes' : n.row = r /\ n.txn = r[1]
    <3>1. CASE Received(r)
      BY <1>1, <3>1 DEF IInv, CoverInv
    <3>2. CASE r = row
      BY <1>1, <1>3, <2>1, <3>2
    <3>. QED
      BY <2>2, <2>3, <3>1, <3>2
  <2>4. ASSUME base = 0, NEW r \in RowsIn(0, from)
        PROVE  r \in kafka \/ r \in snap \/ \E n \in envelopes' : n.row = r /\ n.txn = 0
    <3>1. r \in kafka \/ r \in snap \/ \E n \in envelopes : n.row = r /\ n.txn = 0
      BY <1>1, <2>4 DEF IInv, CoverInv
    <3>2. envelopes \subseteq envelopes'
      BY <1>1
    <3>. QED
      BY <3>1, <3>2, Zenon
  <2>. QED
    BY <1>1, <1>2, <2>3, <2>4 DEF CoverInv
<1>11. PhaseInv'
  <2>1. PositionInv'
    <3>1. cur <= wal_end /\ base \in {0, from}
      BY DEF IInv, PhaseInv, PositionInv
    <3>. QED
      BY <1>1, <1>2, <3>1 DEF PositionInv
  <2>2. StartPhase'
    BY <1>1 DEF StartPhase
  <2>3. SnapshotPhase'
    BY <1>1, <1>2 DEF SnapshotPhase
  <2>4. StreamPhase'
    BY <1>1 DEF IInv, PhaseInv, StreamPhase, CopyBoth
  <2>5. FlagInv'
    BY <1>1, <1>2 DEF IInv, PhaseInv, FlagInv
  <2>. QED
    BY <2>1, <2>2, <2>3, <2>4, <2>5 DEF PhaseInv
<1>12. CheckpointInv'
  BY <1>1, <1>2, <1>6 DEF IInv, TypeOK, CheckpointInv, CheckpointDelivered
<1>13. SlotInv' /\ ConfirmedDelivered'
  BY <1>1, <1>2 DEF IInv, SlotInv, ConfirmedDelivered
<1>. QED
  BY <1>6, <1>7, <1>8, <1>9, <1>10, <1>11, <1>12, <1>13 DEF IInv
-----------------------------------------------------------------------------
(* Steps that move the head or the tail of the buffer *)

\* A transaction begins: it takes a slot that no envelope points at.
LEMMA BeginStep == IInv /\ on_begin_txn => IInv'
<1>. SUFFICES ASSUME IInv, on_begin_txn PROVE IInv'
  OBVIOUS
<1>. DEFINE h == (xact_head + 1) % N
            x == [xid |-> cur + 1, pending_events |-> 0, commit_lsn |-> 0]
<1>1. /\ pc = "begin" /\ h # xact_tail /\ cur' = cur + 1 /\ ev' = 1 /\ received' = TRUE
      /\ xact_head' = h /\ xact_list' = [xact_list EXCEPT ![h] = x] /\ pc' = "poll"
      /\ UNCHANGED <<wal_end, wal, slot_exists, consistent_point, confirmed_flush, from, base,
                     kafka, queued, acked, sql_conn, snap, start_lsn, xact_tail, envelopes,
                     fsync_lsn, taking_snapshot, faults>>
  BY DEF on_begin_txn, xact_list_full, server, broker, ckpt
<1>2. /\ cur \in Nat /\ from \in Nat /\ from <= cur /\ ev = 0 /\ ~ sql_conn /\ snap = {}
      /\ cur < wal_end /\ cur + 1 \in Lsn /\ cur + 1 \in 1 .. MaxTxns /\ wal_end \in Nat
      /\ xact_head \in Slot /\ xact_tail \in Slot /\ xact_list \in [Slot -> Xact]
      /\ CopyBoth /\ from > 0
      /\ \A lo, hi : RowsIn(lo, hi)' = RowsIn(lo, hi)
  <2>1. /\ cur \in Nat /\ from \in Nat /\ wal_end \in Nat /\ wal_end <= MaxTxns
        /\ xact_head \in Slot /\ xact_tail \in Slot /\ xact_list \in [Slot -> Xact]
    BY Numbers DEF IInv, TypeOK
  <2>2. ~ sql_conn /\ ev = 0 /\ cur < wal_end
    BY <1>1 DEF IInv, PhaseInv, StreamPhase
  <2>3. CopyBoth
    BY <1>1, <2>2 DEF CopyBoth
  <2>4. from > 0
    BY <2>3 DEF IInv, PhaseInv, StreamPhase
  <2>5. snap = {}
    BY <2>2 DEF IInv, PhaseInv, SnapshotPhase
  <2>6. from <= cur
    BY DEF IInv, PhaseInv, PositionInv
  <2>7. cur + 1 \in Lsn /\ cur + 1 \in 1 .. MaxTxns
    BY <2>1, <2>2, BoundAssumption DEF Lsn
  <2>8. \A lo, hi : RowsIn(lo, hi)' = RowsIn(lo, hi)
    BY <1>1 DEF RowsIn
  <2>. QED
    BY <2>1, <2>2, <2>3, <2>4, <2>5, <2>6, <2>7, <2>8
<1>3. h = IF xact_head = N - 1 THEN 0 ELSE xact_head + 1
  BY <1>2, ModN, RingAssumption DEF Slot
<1>4. h \in Slot
  BY <1>2, <1>3, RingAssumption DEF Slot
<1>. HIDE DEF h
<1>5. ASSUME NEW s \in Slot
      PROVE  /\ Age(s)' = IF s = h THEN 0 ELSE Age(s) + 1
             /\ Age(s) \in 0 .. N - 1
             /\ Age(s) = N - 1 <=> s = h
  <2>1. /\ Age(s) = IF s <= xact_head THEN xact_head - s ELSE xact_head - s + N
        /\ Age(s) \in 0 .. N - 1
    BY <1>2, AgeValue
  <2>2. Age(s)' = (h - s) % N
    BY <1>1 DEF Age
  <2>3. (h - s) % N = IF s <= h THEN h - s ELSE h - s + N
    BY <1>4, ModN, RingAssumption DEF Slot
  <2>. QED
    BY <1>2, <1>3, <2>1, <2>2, <2>3, RingAssumption DEF Slot
<1>6. ASSUME NEW s \in Slot PROVE (Live(s)' <=> s = h \/ Live(s)) /\ (s = h => ~ Live(s))
  BY <1>1, <1>2, <1>5, RingAssumption DEF Live
<1>7. x \in Xact /\ x.xid = cur + 1 /\ x.pending_events = 0 /\ x.commit_lsn = 0
  BY <1>2, BoundAssumption DEF Xact, Lsn
<1>. HIDE DEF x
<1>8. /\ xact_list' \in [Slot -> Xact] /\ xact_list'[h] = x
      /\ \A s \in Slot : s # h => xact_list'[s] = xact_list[s]
  BY <1>1, <1>2, <1>4, <1>7
<1>9. \A n \in envelopes : n.xact \in Slot /\ n.xact # h /\ Live(n.xact)'
  BY <1>6 DEF IInv, TypeOK, EnvelopeInv, Envelope
<1>10. TypeOK'
  <2>1. ev' \in 0 .. MaxRows + 1
    BY <1>1, BoundAssumption
  <2>2. pc' \in Pc /\ received' \in BOOLEAN
    BY <1>1 DEF Pc
  <2>. QED
    BY <1>1, <1>2, <1>4, <1>8, <2>1, <2>2 DEF IInv, TypeOK
<1>11. RingInv'
  <2>. SUFFICES ASSUME NEW s \in Slot, Live(s)' PROVE SlotOK(s)'
    BY DEF RingInv
  <2>1. CASE s = h
    <3>1. Age(s)' = 0
      BY <1>5, <2>1
    <3>2. cur \in Nat /\ from \in Nat /\ from <= cur
      BY <1>2
    <3>3. cur' = cur + 1 /\ cur' - Age(s)' = cur + 1
      BY <1>1, <3>1, <3>2
    <3>4. /\ xact_list'[s].xid = cur + 1 /\ xact_list'[s].commit_lsn = 0
          /\ s = xact_head' /\ ev' > 0 /\ from' = from
      BY <1>1, <1>7, <1>8, <2>1
    <3>. DEFINE u == cur' - Age(s)'
    <3>5. u \in Nat /\ from' \in Nat /\ u > from'
      BY <3>2, <3>3, <3>4
    <3>6. /\ u >= from' /\ u # from'
          /\ xact_list'[s].xid = u /\ xact_list'[s].commit_lsn = 0
      BY <3>3, <3>4, <3>5
    <3>. QED
      BY <3>4, <3>6 DEF SlotOK
  <2>2. CASE s # h
    <3>1. SlotOK(s)
      BY <1>6, <2>2 DEF IInv, RingInv
    <3>2. /\ Age(s) \in Nat /\ cur' - Age(s)' = cur - Age(s) /\ from' = from
          /\ xact_list'[s] = xact_list[s] /\ s # xact_head'
      <4>1. Age(s) \in Nat /\ Age(s)' = Age(s) + 1
        BY <1>5, <2>2, RingAssumption
      <4>2. cur' = cur + 1 /\ from' = from /\ s # xact_head'
        BY <1>1, <2>2
      <4>. QED
        BY <1>2, <1>8, <2>2, <4>1, <4>2
    <3>. DEFINE u == cur - Age(s)
    <3>3. u \in Int /\ cur' - Age(s)' = u
      BY <1>2, <3>2
    <3>4. /\ u >= from
          /\ u > from => /\ xact_list[s].xid = u
                         /\ xact_list[s].commit_lsn = IF s = xact_head /\ ev > 0 THEN 0 ELSE u
          /\ u = from => xact_list[s].xid = 0 /\ xact_list[s].commit_lsn \in {0, from}
      BY <3>1 DEF SlotOK
    <3>. HIDE DEF u
    <3>5. /\ u > from => xact_list'[s].xid = u /\ xact_list'[s].commit_lsn = u
          /\ u = from => xact_list'[s].xid = 0 /\ xact_list'[s].commit_lsn \in {0, from}
      BY <1>2, <3>2, <3>4
    <3>. QED
      BY <3>2, <3>3, <3>4, <3>5 DEF SlotOK
  <2>. QED
    BY <2>1, <2>2
<1>12. EnvelopeInv'
  <2>. SUFFICES ASSUME NEW n \in envelopes
                PROVE  /\ n.txn = xact_list'[n.xact].xid /\ n.row[1] <= cur + 1
                       /\ IF n.txn = 0 THEN base = 0 /\ n.row[1] <= from /\ n.row \notin snap
                                       ELSE n.row[1] = n.txn
                       /\ n.txn # 0 => n.txn # cur + 1
    BY <1>1, <1>9 DEF IInv, EnvelopeInv
  <2>1. n.row[1] \in Nat
    BY DEF IInv, TypeOK, Envelope, Row
  <2>2. /\ n.txn = xact_list[n.xact].xid /\ n.row[1] <= cur
        /\ IF n.txn = 0 THEN base = 0 /\ n.row[1] <= from /\ n.row \notin snap
                        ELSE n.row[1] = n.txn
    BY DEF IInv, EnvelopeInv
  <2>3. xact_list'[n.xact] = xact_list[n.xact]
    BY <1>8, <1>9
  <2>4. cur \in Nat /\ n.row[1] <= cur
    BY <1>2, <2>2
  <2>5. n.row[1] <= cur + 1 /\ n.row[1] # cur + 1
    BY <2>1, <2>4, Below, Zenon
  <2>. QED
    BY <2>2, <2>3, <2>5
<1>13. PendingExact'
  <2>. SUFFICES ASSUME NEW s \in Slot
                PROVE  xact_list'[s].pending_events = Cardinality({n \in envelopes : n.xact = s})
    BY <1>1 DEF PendingExact
  <2>1. CASE s = h
    <3>1. {n \in envelopes : n.xact = s} = {}
      BY <1>9, <2>1
    <3>. QED
      BY <1>7, <1>8, <2>1, <3>1, EmptyCount
  <2>2. CASE s # h
    BY <1>8, <2>2 DEF IInv, PendingExact
  <2>. QED
    BY <2>1, <2>2
<1>14. CoverInv'
  <2>1. ASSUME NEW r \in RowsIn(from, cur + 1), Received(r)' PROVE r \in RowsIn(from, cur)
    <3>1. r \in Row /\ r[1] \in Nat /\ r[2] \in Nat \ {0}
      BY DEF RowsIn, Row
    <3>2. r[1] < cur + 1
      BY <1>1, <2>1, <3>1 DEF Received
    <3>3. r[1] <= cur
      BY <1>2, <3>1, <3>2
    <3>. QED
      BY <3>1, <3>3 DEF RowsIn
  <2>2. ASSUME NEW r \in RowsIn(from, cur) PROVE Received(r)
    BY <1>2 DEF Received
  <2>. QED
    BY <1>1, <1>2, <2>1, <2>2 DEF IInv, CoverInv
<1>15. PhaseInv'
  <2>1. wal[cur + 1] \in Nat
    BY <1>2, WalElement DEF IInv
  <2>2. PositionInv'
    <3>1. base \in {0, from}
      BY DEF IInv, PhaseInv, PositionInv
    <3>. QED
      BY <1>1, <1>2, <2>1, <3>1 DEF PositionInv
  <2>3. StartPhase'
    BY <1>1 DEF StartPhase
  <2>4. SnapshotPhase'
    BY <1>1, <1>2 DEF SnapshotPhase
  <2>5. StreamPhase'
    <3>1. /\ slot_exists /\ consistent_point <= from /\ from <= confirmed_flush
          /\ confirmed_flush <= from \/ confirmed_flush <= fsync_lsn
      BY <1>2 DEF IInv, PhaseInv, StreamPhase
    <3>. QED
      BY <1>1, <1>2, <3>1 DEF StreamPhase
  <2>6. FlagInv'
    BY <1>1, <1>2 DEF IInv, PhaseInv, FlagInv
  <2>. QED
    BY <2>2, <2>3, <2>4, <2>5, <2>6 DEF PhaseInv
<1>16. CheckpointInv'
  <2>1. /\ cur' - Age(xact_tail)' = cur - Age(xact_tail) /\ xact_tail' = xact_tail
        /\ xact_list'[xact_tail] = xact_list[xact_tail]
    <3>1. xact_tail # h /\ xact_tail \in Slot
      BY <1>1, <1>2
    <3>2. Age(xact_tail)' = Age(xact_tail) + 1 /\ Age(xact_tail) \in Nat
      <4>1. ASSUME NEW s \in Slot, s # h PROVE Age(s)' = Age(s) + 1 /\ Age(s) \in Nat
        BY <1>5, <4>1, RingAssumption
      <4>. QED
        BY <1>1, <3>1, <4>1 DEF Age
    <3>. QED
      BY <1>1, <1>2, <1>8, <3>1, <3>2
  <2>. QED
    BY <1>1, <1>2, <2>1 DEF IInv, CheckpointInv, CheckpointDelivered
<1>17. SlotInv' /\ ConfirmedDelivered'
  BY <1>1, <1>2 DEF IInv, SlotInv, ConfirmedDelivered
<1>. QED
  BY <1>10, <1>11, <1>12, <1>13, <1>14, <1>15, <1>16, <1>17 DEF IInv
=============================================================================
