------------------------- MODULE BottledWaterProofs -------------------------
(***************************************************************************)
(* The invariant of BottledWater is preserved by commits, by the end of    *)
(* the snapshot and by delivery reports; the theorems about BottledWater;  *)
(* and BottledWater implements AtLeastOnce: the slot's position is the     *)
(* position of the promise, and what the brokers hold is published.        *)
(***************************************************************************)
EXTENDS BottledWaterSteps

\* While the snapshot is being received, maybe_checkpoint changes nothing: the
\* snapshot's slot is the head and has no commit position yet.
LEMMA CheckpointIdle ==
  ASSUME xact_head = 0, xact_tail = 0, fsync_lsn = 0, taking_snapshot \in BOOLEAN,
         NEW list, list[0].commit_lsn = 0, maybe_checkpoint(list)
  PROVE  UNCHANGED <<xact_tail, fsync_lsn, taking_snapshot>>
<1>1. InFlight = 0 /\ FromTail(0) = 0
  BY ModN, RingAssumption DEF InFlight, FromTail
<1>2. PICK k \in 0 .. 1 :
        /\ fsync_lsn' = IF k = 0 THEN fsync_lsn ELSE list[FromTail(k - 1)].commit_lsn
        /\ xact_tail' = IF k <= 0 THEN FromTail(k) ELSE xact_head
        /\ taking_snapshot' =
             (taking_snapshot /\ \A j \in 0 .. k - 1 :
                ~ (list[FromTail(j)].xid = 0 /\ list[FromTail(j)].commit_lsn > 0))
  BY <1>1 DEF maybe_checkpoint
<1>3. \A j \in 0 .. k - 1 : j = 0
  BY <1>2
<1>4. k = 0 \/ k = 1
  BY <1>2
<1>5. fsync_lsn' = 0 /\ xact_tail' = 0
  BY <1>1, <1>2, <1>4
<1>6. taking_snapshot' = taking_snapshot
  BY <1>1, <1>2, <1>3
<1>. QED
  BY <1>5, <1>6

\* What a callback that ends in maybe_checkpoint may change besides the
\* variables of maybe_checkpoint itself: it only removes envelopes, ends the
\* current transaction or leaves it alone, and keeps an envelope for every row
\* received that is not yet in Kafka.
CallbackFrame ==
  /\ UNCHANGED <<server, cur, from, base, kafka, queued, snap, start_lsn, xact_head, faults>>
  /\ envelopes' \subseteq envelopes /\ IsFiniteSet(envelopes') /\ acked' \subseteq acked
  /\ queued \subseteq envelopes' /\ acked' \subseteq envelopes'
  /\ PendingExact' /\ ev' \in {0, ev}
  /\ pc' \in Pc /\ received' \in BOOLEAN /\ sql_conn' \in BOOLEAN
  /\ \A r \in RowsIn(from, cur) : Received(r)' =>
       r \in kafka \/ \E n \in envelopes' : n.row = r /\ n.txn = r[1]

\* What a callback that ends in maybe_checkpoint leaves behind, given what it
\* did before that call.
LEMMA CheckpointIInv ==
  ASSUME IInv, CallbackOK(xact_list', ev', envelopes'), maybe_checkpoint(xact_list'),
         CallbackFrame
  PROVE  /\ TypeOK' /\ RingInv' /\ EnvelopeInv' /\ PendingExact' /\ CoverInv'
         /\ CheckpointInv' /\ SlotInv' /\ ConfirmedDelivered'
         /\ fsync_lsn <= fsync_lsn'
         /\ FlagInv'
<1>1. TypeOK /\ PhaseInv /\ CheckpointInv
  BY DEF IInv
<1>2. /\ xact_tail' \in Slot /\ Age(xact_tail') <= Age(xact_tail)
      /\ fsync_lsn' \in Lsn /\ fsync_lsn <= fsync_lsn'
      /\ taking_snapshot' \in BOOLEAN
      /\ \A n \in envelopes' : Age(n.xact) <= Age(xact_tail')
      /\ cur - Age(xact_tail') > from => RowsIn(base, cur - Age(xact_tail') - 1) \subseteq kafka
      /\ fsync_lsn' # 0 =>
           /\ from <= fsync_lsn' /\ fsync_lsn' <= cur - Age(xact_tail')
           /\ cur - Age(xact_tail') = from => xact_list'[xact_tail'].commit_lsn = from
      /\ RowsIn(base, fsync_lsn') \subseteq kafka
      /\ base = 0 /\ from > 0 /\ ~ taking_snapshot' => RowsIn(0, from) \subseteq kafka
  BY <1>1, CheckpointStep
<1>frame. UNCHANGED <<server, cur, from, base, kafka, queued, snap, start_lsn, xact_head, faults>>
  BY DEF CallbackFrame
<1>wal. UNCHANGED <<wal_end, wal, slot_exists, consistent_point, confirmed_flush>>
  BY <1>frame DEF server
<1>env. /\ envelopes' \subseteq envelopes /\ IsFiniteSet(envelopes') /\ acked' \subseteq acked
        /\ queued \subseteq envelopes' /\ acked' \subseteq envelopes' /\ ev' \in {0, ev}
  BY DEF CallbackFrame
<1>pc. pc' \in Pc /\ received' \in BOOLEAN /\ sql_conn' \in BOOLEAN /\ PendingExact'
  BY DEF CallbackFrame
<1>3. /\ \A lo, hi : RowsIn(lo, hi)' = RowsIn(lo, hi)
      /\ \A s : Age(s)' = Age(s)
  BY <1>frame, <1>wal DEF RowsIn, Age
<1>5. Age(xact_tail)' = Age(xact_tail')
  BY <1>frame DEF Age
<1>4. \A s \in Slot : Live(s)' => Live(s)
  <2>1. xact_head \in Slot /\ xact_tail \in Slot
    BY <1>1 DEF TypeOK
  <2>2. \A s \in Slot : Age(s) \in Nat
    BY <2>1, AgeValue
  <2>3. Age(xact_tail) \in Nat /\ Age(xact_tail') \in Nat /\ Age(xact_tail') <= Age(xact_tail)
    BY <1>2, <2>1, <2>2
  <2>. QED
    BY <1>3, <1>5, <2>2, <2>3 DEF Live
<1>6. TypeOK'
  <2>1. /\ wal_end' \in 1 .. MaxTxns /\ wal' \in [1 .. MaxTxns -> 0 .. MaxRows]
        /\ slot_exists' \in BOOLEAN /\ consistent_point' \in Lsn /\ confirmed_flush' \in Lsn
    BY <1>1, <1>wal DEF TypeOK
  <2>2. /\ cur' \in Lsn /\ from' \in Lsn /\ base' \in Lsn /\ kafka' \subseteq Row
        /\ snap' \subseteq Row /\ start_lsn' \in Lsn /\ xact_head' \in Slot
        /\ faults' \in 0 .. MaxFaults
    BY <1>1, <1>frame DEF TypeOK
  <2>3. ev' \in 0 .. MaxRows + 1
    <3>1. ev \in 0 .. MaxRows + 1
      BY <1>1 DEF TypeOK
    <3>. QED
      BY <1>env, <3>1, BoundAssumption
  <2>4. xact_list' \in [Slot -> Xact] /\ envelopes' \subseteq Envelope
    BY DEF CallbackOK
  <2>5. queued' \subseteq envelopes' /\ acked' \subseteq envelopes'
    BY <1>frame, <1>env
  <2>. QED
    BY <1>2, <1>pc, <2>1, <2>2, <2>3, <2>4, <2>5 DEF TypeOK
<1>7. RingInv'
  <2>1. \A s \in Slot : Live(s) => SlotOKWith(xact_list', ev', s)
    BY DEF CallbackOK
  <2>. QED
    BY <1>frame, <1>3, <1>4, <2>1 DEF RingInv, SlotOK, SlotOKWith
<1>8. EnvelopeInv'
  <2>1. \A n \in envelopes' : Live(n.xact)' /\ n.txn = xact_list'[n.xact].xid
    BY <1>2, <1>3, <1>5 DEF Live, CallbackOK
  <2>2. ASSUME NEW n \in envelopes'
        PROVE  /\ n.row[1] <= cur'
               /\ IF n.txn = 0 THEN base' = 0 /\ n.row[1] <= from' /\ n.row \notin snap'
                               ELSE n.row[1] = n.txn
               /\ n.txn # 0 /\ n.txn = cur' /\ ev' > 0 => n.row[2] < ev'
    <3>1. n \in envelopes
      BY <1>env
    <3>2. /\ n.row[1] <= cur
          /\ IF n.txn = 0 THEN base = 0 /\ n.row[1] <= from /\ n.row \notin snap
                          ELSE n.row[1] = n.txn
          /\ n.txn # 0 /\ n.txn = cur /\ ev > 0 => n.row[2] < ev
      BY <3>1 DEF IInv, EnvelopeInv
    <3>3. cur' = cur /\ base' = base /\ from' = from /\ snap' = snap /\ (ev' > 0 => ev' = ev)
      BY <1>frame, <1>env
    <3>. QED
      BY <3>2, <3>3
  <2>3. \A n \in acked' : n.row \in kafka' /\ n \notin queued'
    BY <1>frame, <1>env DEF IInv, EnvelopeInv
  <2>. QED
    BY <1>env, <2>1, <2>2, <2>3 DEF EnvelopeInv
<1>9. CoverInv'
  BY <1>frame, <1>3 DEF CoverInv, CallbackOK, CallbackFrame
<1>10. CheckpointInv'
  BY <1>frame, <1>2, <1>3, <1>5 DEF CheckpointInv, CheckpointDelivered
<1>11. SlotInv' /\ ConfirmedDelivered'
  BY <1>frame, <1>wal, <1>3 DEF IInv, SlotInv, ConfirmedDelivered
<1>12. FlagInv'
  BY <1>frame, <1>2, <1>3 DEF FlagInv
<1>. QED
  BY <1>pc, <1>2, <1>12, <1>6, <1>7, <1>8, <1>9, <1>10, <1>11

\* A transaction of the stream commits.
LEMMA CommitStep == IInv /\ recv_commit => IInv' /\ fsync_lsn <= fsync_lsn'
<1>. SUFFICES ASSUME IInv, recv_commit PROVE IInv' /\ fsync_lsn <= fsync_lsn'
  OBVIOUS
<1>1. /\ pc = "poll" /\ ~ sql_conn /\ ev > 0 /\ ev = wal[cur] + 1 /\ ev' = 0 /\ received' = TRUE
      /\ xact_list' = [xact_list EXCEPT ![xact_head].commit_lsn = cur]
      /\ maybe_checkpoint(xact_list')
      /\ UNCHANGED <<wal_end, wal, slot_exists, consistent_point, confirmed_flush, cur, from,
                     base, kafka, queued, acked, sql_conn, snap, start_lsn, pc, faults,
                     xact_head, envelopes>>
  BY DEF recv_commit, on_commit_txn, server, broker
<1>2. /\ TypeOK /\ PhaseInv /\ snap = {} /\ CopyBoth /\ from \in Nat /\ cur \in Nat /\ from < cur
      /\ xact_head \in Slot /\ xact_tail \in Slot /\ xact_list \in [Slot -> Xact] /\ cur \in Lsn
      /\ ev \in Nat
  <2>1. /\ TypeOK /\ PhaseInv /\ from \in Nat /\ cur \in Nat /\ ev \in Nat /\ cur \in Lsn
        /\ xact_head \in Slot /\ xact_tail \in Slot /\ xact_list \in [Slot -> Xact]
    BY Numbers DEF IInv, TypeOK
  <2>2. from < cur
    BY <1>1 DEF IInv, PhaseInv, PositionInv
  <2>3. snap = {} /\ CopyBoth
    BY <1>1 DEF IInv, PhaseInv, SnapshotPhase, CopyBoth
  <2>. QED
    BY <2>1, <2>2, <2>3
<1>3. /\ xact_list' \in [Slot -> Xact]
      /\ \A s \in Slot : /\ xact_list'[s].xid = xact_list[s].xid
                         /\ xact_list'[s].pending_events = xact_list[s].pending_events
                         /\ xact_list'[s].commit_lsn =
                              IF s = xact_head THEN cur ELSE xact_list[s].commit_lsn
  BY <1>1, <1>2 DEF Xact
<1>4. Age(xact_head) = 0 /\ \A s \in Slot : Age(s) \in Nat /\ (Age(s) = 0 => s = xact_head)
  BY <1>2, AgeValue, RingAssumption DEF Slot
<1>5. PendingExact'
  BY <1>1, <1>3 DEF IInv, PendingExact
<1>6. CallbackOK(xact_list', ev', envelopes')
  <2>1. \A s \in Slot : Live(s) => SlotOKWith(xact_list', ev', s)
    <3>. SUFFICES ASSUME NEW s \in Slot, Live(s) PROVE SlotOKWith(xact_list', ev', s)
      OBVIOUS
    <3>1. SlotOK(s)
      BY DEF IInv, RingInv
    <3>. QED
      BY <1>1, <1>2, <1>3, <1>4, <3>1 DEF SlotOK, SlotOKWith
  <2>2. \A n \in envelopes : n.xact \in Slot /\ Live(n.xact) /\ n.txn = xact_list'[n.xact].xid
    BY <1>3 DEF IInv, TypeOK, EnvelopeInv, Envelope
  <2>3. \A s \in Slot : xact_list'[s].pending_events = 0 => \A n \in envelopes : n.xact # s
    BY <1>1, <1>5, NothingPending DEF IInv, EnvelopeInv, PendingExact
  <2>4. /\ \A r \in RowsIn(from, cur) : r[1] < cur \/ ev' = 0 =>
             r \in kafka \/ \E n \in envelopes : n.row = r /\ n.txn = r[1]
        /\ base = 0 => \A r \in RowsIn(0, from) :
             r \in kafka \/ \E n \in envelopes : n.row = r /\ n.txn = 0
    <3>1. ASSUME NEW r \in RowsIn(from, cur) PROVE Received(r)
      <4>1. r \in Row /\ r[1] \in Nat /\ r[2] \in Nat /\ r[1] <= cur /\ r[2] <= wal[r[1]]
        BY DEF RowsIn, Row
      <4>2. CASE r[1] = cur
        <5>1. cur \in 1 .. MaxTxns
          <6>1. cur <= wal_end /\ wal_end \in Nat /\ wal_end <= MaxTxns
            BY <1>2, Numbers DEF PhaseInv, PositionInv
          <6>. QED
            BY <1>2, <6>1, BoundAssumption
        <5>2. wal[cur] \in Nat
          BY <1>2, <5>1, WalElement
        <5>. QED
          BY <1>1, <4>1, <4>2, <5>2 DEF Received
      <4>. QED
        BY <1>2, <4>1, <4>2 DEF Received
    <3>. QED
      BY <1>1, <1>2, <3>1 DEF IInv, CoverInv
  <2>5. fsync_lsn # 0 /\ cur - Age(xact_tail) = from => xact_list'[xact_tail].commit_lsn = from
    <3>1. Age(xact_tail) # 0 => xact_tail # xact_head
      BY <1>4
    <3>2. cur - Age(xact_tail) = from => Age(xact_tail) # 0
      BY <1>2
    <3>3. fsync_lsn # 0 /\ cur - Age(xact_tail) = from => xact_list[xact_tail].commit_lsn = from
      BY DEF IInv, CheckpointInv
    <3>. QED
      BY <1>2, <1>3, <3>1, <3>2, <3>3
  <2>. QED
    BY <1>1, <1>2, <1>3, <2>1, <2>2, <2>3, <2>4, <2>5, Zenon DEF CallbackOK, TypeOK
<1>7. \A r \in RowsIn(from, cur) : Received(r)' =>
        r \in kafka \/ \E n \in envelopes' : n.row = r /\ n.txn = r[1]
  BY <1>1, <1>6 DEF CallbackOK
<1>8. /\ TypeOK' /\ RingInv' /\ EnvelopeInv' /\ PendingExact' /\ CoverInv'
      /\ CheckpointInv' /\ SlotInv' /\ ConfirmedDelivered' /\ fsync_lsn <= fsync_lsn'
      /\ FlagInv'
  <2>1. /\ IsFiniteSet(envelopes') /\ envelopes' \subseteq envelopes
        /\ queued \subseteq envelopes' /\ acked' \subseteq acked /\ acked' \subseteq envelopes'
        /\ pc' \in Pc /\ received' \in BOOLEAN /\ sql_conn' \in BOOLEAN /\ ev' \in {0, ev}
    BY <1>1, <1>2 DEF IInv, EnvelopeInv, TypeOK
  <2>2. UNCHANGED <<server, cur, from, base, kafka, queued, snap, start_lsn, xact_head, faults>>
    BY <1>1 DEF server
  <2>3. CallbackFrame
    BY <1>5, <1>7, <2>1, <2>2 DEF CallbackFrame
  <2>. QED
    BY <1>1, <1>6, <2>3, CheckpointIInv
<1>9. PhaseInv'
  <2>1. PositionInv'
    BY <1>1, <1>2 DEF PhaseInv, PositionInv
  <2>2. StartPhase'
    BY <1>1 DEF StartPhase
  <2>3. SnapshotPhase'
    BY <1>1, <1>2 DEF SnapshotPhase
  <2>4. StreamPhase'
    <3>1. fsync_lsn' \in Nat /\ fsync_lsn \in Nat /\ confirmed_flush \in Nat
      <4>1. fsync_lsn' \in Lsn
        BY <1>8 DEF TypeOK
      <4>. QED
        BY <1>2, <4>1, Numbers DEF Lsn
    <3>2. /\ slot_exists /\ from > 0 /\ consistent_point <= from /\ from <= confirmed_flush
          /\ confirmed_flush <= from \/ confirmed_flush <= fsync_lsn
      BY <1>2 DEF PhaseInv, StreamPhase
    <3>3. confirmed_flush <= from \/ confirmed_flush <= fsync_lsn'
      BY <1>8, <3>1, <3>2
    <3>. QED
      BY <1>1, <3>2, <3>3 DEF StreamPhase
  <2>. QED
    BY <1>8, <2>1, <2>2, <2>3, <2>4 DEF PhaseInv
<1>. QED
  BY <1>8, <1>9 DEF IInv
-----------------------------------------------------------------------------
(* The end of the snapshot, and delivery reports *)

\* The snapshot is complete.
LEMMA SnapshotEndStep == IInv /\ snapshot_end => IInv' /\ fsync_lsn <= fsync_lsn'
<1>. SUFFICES ASSUME IInv, snapshot_end PROVE IInv' /\ fsync_lsn <= fsync_lsn'
  OBVIOUS
<1>1. /\ pc = "poll" /\ sql_conn /\ snap = {} /\ sql_conn' = FALSE /\ pc' = "stream_start"
      /\ xact_list' = [xact_list EXCEPT ![xact_head].commit_lsn = start_lsn]
      /\ maybe_checkpoint(xact_list')
      /\ UNCHANGED <<wal_end, wal, slot_exists, consistent_point, confirmed_flush, cur, ev, from,
                     base, kafka, queued, acked, snap, start_lsn, received, faults,
                     xact_head, envelopes>>
  BY DEF snapshot_end, on_commit_txn, server, session, broker
<1>2. /\ TypeOK /\ PhaseInv /\ from \in Nat /\ cur = from /\ from > 0 /\ base = 0 /\ ev = 0
      /\ start_lsn = from /\ slot_exists /\ confirmed_flush = from /\ consistent_point = from
      /\ ~ received /\ fsync_lsn = 0
      /\ xact_head = 0 /\ xact_tail = 0 /\ 0 \in Slot /\ xact_list \in [Slot -> Xact]
      /\ from \in Lsn
  <2>1. /\ cur = from /\ from > 0 /\ base = 0 /\ ev = 0 /\ start_lsn = from /\ slot_exists
        /\ confirmed_flush = from /\ consistent_point = from /\ ~ received /\ fsync_lsn = 0
        /\ xact_head = 0 /\ xact_tail = 0
    BY <1>1 DEF IInv, PhaseInv, SnapshotPhase
  <2>2. /\ TypeOK /\ PhaseInv /\ from \in Nat /\ from \in Lsn /\ xact_head \in Slot
        /\ xact_list \in [Slot -> Xact]
    BY Numbers DEF IInv, TypeOK
  <2>. QED
    BY <2>1, <2>2
<1>3. /\ xact_list' \in [Slot -> Xact] /\ xact_list'[0].commit_lsn = from
      /\ \A s \in Slot : /\ xact_list'[s].xid = xact_list[s].xid
                         /\ xact_list'[s].pending_events = xact_list[s].pending_events
  BY <1>1, <1>2 DEF Xact
<1>4. Age(0) = 0 /\ \A s \in Slot : Live(s) <=> s = 0
  <2>1. \A s \in Slot : Age(s) = IF s = 0 THEN 0 ELSE N - s
    BY <1>2, AgeValue, RingAssumption DEF Slot
  <2>. QED
    BY <1>2, <2>1, RingAssumption DEF Live, Slot
<1>5. PendingExact'
  BY <1>1, <1>3 DEF IInv, PendingExact
<1>6. CallbackOK(xact_list', ev', envelopes')
  <2>1. \A s \in Slot : Live(s) => SlotOKWith(xact_list', ev', s)
    BY SMTT(40), <1>2, <1>3, <1>4 DEF IInv, RingInv, SlotOK, SlotOKWith
  <2>2. \A n \in envelopes : n.xact \in Slot /\ Live(n.xact) /\ n.txn = xact_list'[n.xact].xid
    BY <1>3 DEF IInv, TypeOK, EnvelopeInv, Envelope
  <2>3. \A s \in Slot : xact_list'[s].pending_events = 0 => \A n \in envelopes : n.xact # s
    BY <1>1, <1>5, NothingPending DEF IInv, EnvelopeInv, PendingExact
  <2>4. \A r \in RowsIn(0, from) : r \in kafka \/ \E n \in envelopes : n.row = r /\ n.txn = 0
    BY <1>1, <1>2 DEF IInv, CoverInv
  <2>5. RowsIn(from, cur) = {}
    BY <1>2 DEF RowsIn, Row
  <2>. QED
    BY <1>1, <1>2, <1>3, <2>1, <2>2, <2>3, <2>4, <2>5, Zenon DEF CallbackOK, TypeOK
<1>7. RowsIn(from, cur) = {}
  BY <1>2 DEF RowsIn, Row
<1>8. /\ TypeOK' /\ RingInv' /\ EnvelopeInv' /\ PendingExact' /\ CoverInv'
      /\ CheckpointInv' /\ SlotInv' /\ ConfirmedDelivered' /\ fsync_lsn <= fsync_lsn'
      /\ FlagInv'
  <2>1. /\ IsFiniteSet(envelopes') /\ envelopes' \subseteq envelopes
        /\ queued \subseteq envelopes' /\ acked' \subseteq acked /\ acked' \subseteq envelopes'
        /\ pc' \in Pc /\ received' \in BOOLEAN /\ sql_conn' \in BOOLEAN /\ ev' \in {0, ev}
    BY <1>1, <1>2, Zenon DEF IInv, EnvelopeInv, TypeOK, Pc
  <2>2. UNCHANGED <<server, cur, from, base, kafka, queued, snap, start_lsn, xact_head, faults>>
    BY <1>1 DEF server
  <2>3. CallbackFrame
    BY <1>5, <1>7, <2>1, <2>2 DEF CallbackFrame
  <2>. QED
    BY <1>1, <1>6, <2>3, CheckpointIInv
<1>9. xact_tail' = 0
  <2>1. Age(xact_tail') = 0 /\ xact_tail' \in Slot
    <3>1. Age(xact_tail') <= Age(xact_tail) /\ xact_tail' \in Slot
      BY <1>1, <1>6, CheckpointStep DEF IInv
    <3>2. Age(xact_tail') \in Nat
      BY <1>2, <3>1, AgeValue
    <3>. QED
      BY <1>2, <1>4, <3>1, <3>2
  <2>. QED
    BY <1>2, <1>4, <2>1, AgeInjective
<1>10. PhaseInv'
  <2>1. PositionInv'
    BY <1>1, <1>2 DEF PhaseInv, PositionInv
  <2>2. StartPhase'
    BY <1>1 DEF StartPhase
  <2>3. SnapshotPhase'
    BY <1>1 DEF SnapshotPhase
  <2>4. StreamPhase'
    BY <1>1, <1>2, <1>9 DEF StreamPhase, CopyBoth
  <2>. QED
    BY <1>8, <2>1, <2>2, <2>3, <2>4 DEF PhaseInv
<1>. QED
  BY <1>8, <1>10 DEF IInv

\* A delivery report is served.
LEMMA DeliverStep ==
  ASSUME IInv, NEW e \in acked, on_deliver_msg(e)
  PROVE  IInv' /\ fsync_lsn <= fsync_lsn'
<1>1. /\ Polling /\ acked' = acked \ {e} /\ envelopes' = envelopes \ {e}
      /\ xact_list' = [xact_list EXCEPT ![e.xact].pending_events = @ - 1]
      /\ maybe_checkpoint(xact_list')
      /\ UNCHANGED <<wal_end, wal, slot_exists, consistent_point, confirmed_flush, cur, ev, from,
                     base, kafka, queued, sql_conn, snap, start_lsn, received, xact_head, pc, faults>>
  BY DEF on_deliver_msg, server, session, conns
<1>2. /\ TypeOK /\ PhaseInv /\ from \in Nat /\ cur \in Nat /\ ev \in Nat
      /\ xact_head \in Slot /\ xact_tail \in Slot /\ xact_list \in [Slot -> Xact]
      /\ e \in envelopes /\ e.xact \in Slot /\ e.row \in kafka
      /\ PendingExact /\ IsFiniteSet(envelopes)
  <2>1. /\ TypeOK /\ PhaseInv /\ from \in Nat /\ cur \in Nat /\ ev \in Nat
        /\ xact_head \in Slot /\ xact_tail \in Slot /\ xact_list \in [Slot -> Xact]
    BY Numbers DEF IInv, TypeOK
  <2>2. e \in envelopes /\ e.xact \in Slot
    BY DEF IInv, TypeOK, Envelope
  <2>3. e.row \in kafka /\ PendingExact /\ IsFiniteSet(envelopes)
    BY DEF IInv, EnvelopeInv
  <2>. QED
    BY <2>1, <2>2, <2>3
<1>3. PendingExact' /\ xact_list' \in [Slot -> Xact] /\ IsFiniteSet(envelopes')
  BY <1>1, <1>2, CountOut, Zenon
<1>4. \A s \in Slot : /\ xact_list'[s].xid = xact_list[s].xid
                      /\ xact_list'[s].commit_lsn = xact_list[s].commit_lsn
  BY <1>1, <1>2 DEF Xact
<1>5. CASE sql_conn
  <2>1. /\ xact_head = 0 /\ xact_tail = 0 /\ fsync_lsn = 0 /\ xact_list[0].commit_lsn = 0
        /\ taking_snapshot \in BOOLEAN /\ cur = from /\ ev = 0 /\ base = 0 /\ 0 \in Slot
        /\ pc = "poll" \/ pc = "produce"
    <3>1. /\ xact_head = 0 /\ xact_tail = 0 /\ fsync_lsn = 0 /\ xact_list[0].commit_lsn = 0
          /\ cur = from /\ ev = 0 /\ base = 0 /\ pc \in {"snapshot_start", "poll", "produce"}
      BY <1>1, <1>2, <1>5 DEF PhaseInv, SnapshotPhase, Polling
    <3>2. taking_snapshot \in BOOLEAN
      BY <1>2 DEF TypeOK
    <3>3. pc # "snapshot_start"
      BY <1>1 DEF Polling
    <3>. QED
      BY <1>2, <3>1, <3>2, <3>3
  <2>2. UNCHANGED <<xact_tail, fsync_lsn, taking_snapshot>>
    BY <1>1, <1>4, <2>1, CheckpointIdle, Zenon
  <2>3. /\ \A s : Age(s)' = Age(s) /\ (Live(s)' <=> Live(s))
        /\ \A lo, hi : RowsIn(lo, hi)' = RowsIn(lo, hi)
    BY <1>1, <2>2, AgeFrame DEF RowsIn
  <2>4. TypeOK'
    BY <1>1, <1>2, <1>3, <2>2 DEF TypeOK, IInv, EnvelopeInv
  <2>5. RingInv'
    BY <1>1, <1>4, <2>2, <2>3 DEF IInv, RingInv, SlotOK
  <2>6. EnvelopeInv'
    <3>1. \A n \in envelopes' : Live(n.xact)' /\ n.txn = xact_list'[n.xact].xid
      BY <1>1, <1>4, <2>3 DEF IInv, TypeOK, EnvelopeInv, Envelope
    <3>. QED
      BY <1>1, <1>3, <3>1 DEF IInv, EnvelopeInv
  <2>7. CoverInv'
    BY <1>1, <1>2, <2>3 DEF IInv, CoverInv, Received
  <2>8. PhaseInv'
    <3>1. PositionInv'
      BY <1>1, <1>2 DEF PhaseInv, PositionInv
    <3>2. StartPhase'
      BY <1>1, <2>1 DEF StartPhase
    <3>3. SnapshotPhase'
      <4>1. xact_list'[0].commit_lsn = 0
        BY <1>4, <2>1
      <4>. QED
        BY <1>1, <1>2, <2>1, <2>2, <4>1 DEF PhaseInv, SnapshotPhase
    <3>4. StreamPhase'
      BY <1>1, <1>5, <2>1 DEF StreamPhase, CopyBoth
    <3>5. FlagInv'
      BY <1>1, <1>2, <2>2, <2>3 DEF PhaseInv, FlagInv
    <3>. QED
      BY <3>1, <3>2, <3>3, <3>4, <3>5 DEF PhaseInv
  <2>9. CheckpointInv'
    BY <1>1, <1>4, <2>1, <2>2, <2>3 DEF IInv, CheckpointInv, CheckpointDelivered
  <2>10. SlotInv' /\ ConfirmedDelivered'
    BY <1>1, <2>3 DEF IInv, SlotInv, ConfirmedDelivered
  <2>. QED
    BY SMTT(40), <1>3, <2>1, <2>2, <2>4, <2>5, <2>6, <2>7, <2>8, <2>9, <2>10 DEF IInv
<1>6. CASE ~ sql_conn
  <2>1. /\ snap = {} /\ CopyBoth
    BY <1>1, <1>2, <1>6 DEF PhaseInv, SnapshotPhase, CopyBoth, Polling
  <2>2. \A n \in envelopes' : n.xact \in Slot /\ Live(n.xact) /\ n.txn = xact_list'[n.xact].xid
    BY <1>1, <1>4 DEF IInv, TypeOK, EnvelopeInv, Envelope
  <2>3. /\ \A r \in RowsIn(from, cur) : Received(r) =>
             r \in kafka \/ \E n \in envelopes' : n.row = r /\ n.txn = r[1]
        /\ base = 0 => \A r \in RowsIn(0, from) :
             r \in kafka \/ \E n \in envelopes' : n.row = r /\ n.txn = 0
    BY <1>1, <1>2, <2>1 DEF IInv, CoverInv, CopyBoth
  <2>4. CallbackOK(xact_list', ev', envelopes')
    <3>1. \A s \in Slot : Live(s) => SlotOKWith(xact_list', ev', s)
      BY <1>1, <1>4 DEF IInv, RingInv, SlotOK, SlotOKWith
    <3>2. \A s \in Slot : xact_list'[s].pending_events = 0 => \A n \in envelopes' : n.xact # s
      BY <1>3, NothingPending DEF PendingExact
    <3>3. \A r \in RowsIn(from, cur) : r[1] < cur \/ ev' = 0 =>
            r \in kafka \/ \E n \in envelopes' : n.row = r /\ n.txn = r[1]
      BY <1>1, <2>3 DEF Received
    <3>4. fsync_lsn # 0 /\ cur - Age(xact_tail) = from => xact_list'[xact_tail].commit_lsn = from
      BY <1>2, <1>4 DEF IInv, CheckpointInv
    <3>5. envelopes' \subseteq Envelope /\ ev' \in Nat /\ pc # "snapshot_start"
      BY <1>1, <1>2, <2>1 DEF TypeOK, CopyBoth
    <3>. QED
      BY <1>3, <2>1, <2>2, <2>3, <3>1, <3>2, <3>3, <3>4, <3>5 DEF CallbackOK
  <2>5. \A r \in RowsIn(from, cur) : Received(r)' =>
          r \in kafka \/ \E n \in envelopes' : n.row = r /\ n.txn = r[1]
    BY <1>1, <2>3 DEF Received
  <2>6. /\ envelopes' \subseteq envelopes
        /\ queued \subseteq envelopes' /\ acked' \subseteq acked /\ acked' \subseteq envelopes'
        /\ pc' \in Pc /\ received' \in BOOLEAN /\ sql_conn' \in BOOLEAN /\ ev' \in {0, ev}
    BY <1>1, <1>2 DEF TypeOK, IInv, EnvelopeInv
  <2>7. UNCHANGED <<server, cur, from, base, kafka, queued, snap, start_lsn, xact_head, faults>>
    BY <1>1 DEF server
  <2>8. /\ TypeOK' /\ RingInv' /\ EnvelopeInv' /\ PendingExact' /\ CoverInv'
        /\ CheckpointInv' /\ SlotInv' /\ ConfirmedDelivered' /\ fsync_lsn <= fsync_lsn'
        /\ FlagInv'
    <3>1. CallbackFrame
      BY <1>3, <2>5, <2>6, <2>7 DEF CallbackFrame
    <3>. QED
      BY <1>1, <2>4, <3>1, CheckpointIInv
  <2>9. PhaseInv'
    <3>1. PositionInv'
      BY <1>1, <1>2 DEF PhaseInv, PositionInv
    <3>2. StartPhase'
      BY <1>1, <2>1 DEF StartPhase, CopyBoth
    <3>3. SnapshotPhase'
      BY <1>1, <1>6, <2>1 DEF SnapshotPhase, CopyBoth
    <3>4. StreamPhase'
      <4>1. fsync_lsn' \in Nat /\ fsync_lsn \in Nat /\ confirmed_flush \in Nat
        <5>1. fsync_lsn' \in Lsn
          BY <2>8 DEF TypeOK
        <5>. QED
          BY <1>2, <5>1, Numbers DEF Lsn
      <4>2. /\ slot_exists /\ from > 0 /\ consistent_point <= from /\ from <= confirmed_flush
            /\ confirmed_flush <= from \/ confirmed_flush <= fsync_lsn
            /\ pc = "begin" => ~ sql_conn /\ ev = 0 /\ cur < wal_end
        BY <1>2, <2>1 DEF PhaseInv, StreamPhase
      <4>3. confirmed_flush <= from \/ confirmed_flush <= fsync_lsn'
        BY <2>8, <4>1, <4>2
      <4>4. pc' # "stream_start"
        BY <1>1, <2>1 DEF CopyBoth
      <4>. QED
        BY <1>1, <4>2, <4>3, <4>4 DEF StreamPhase
    <3>. QED
      BY <2>8, <3>1, <3>2, <3>3, <3>4 DEF PhaseInv
  <2>. QED
    BY <2>8, <2>9 DEF IInv
<1>. QED
  BY <1>2, <1>5, <1>6 DEF TypeOK
-----------------------------------------------------------------------------
(* Theorems *)

\* Every step preserves the invariant.
LEMMA NextIInv == IInv /\ [Next]_vars => IInv'
<1>. SUFFICES ASSUME IInv, [Next]_vars PROVE IInv'
  OBVIOUS
<1>1. CASE \E n \in 0 .. MaxRows : CommitTxn(n)
  BY <1>1, CommitTxnStep
<1>2. CASE \E e \in queued : BrokerAck(e)
  BY <1>2, BrokerAckStep
<1>3. CASE Startup
  BY <1>3, ConnectStep, SlotCreateStep, SnapshotStartStep, StreamStartStep DEF Startup
<1>4. CASE Receive
  BY <1>4, SnapshotTupleStep, SnapshotEndStep, ControlStep, InsertStep, CommitStep DEF Receive
<1>5. CASE rd_kafka_produce
  BY <1>5, ControlStep
<1>6. CASE on_begin_txn
  BY <1>6, BeginStep
<1>7. CASE Deliver
  BY <1>7, DeliverStep DEF Deliver
<1>8. CASE replication_stream_keepalive \/ \E reply \in BOOLEAN : parse_keepalive_message(reply)
  BY <1>8, KeepaliveStep
<1>9. CASE Failure
  BY <1>9, FailureStep
<1>10. CASE UNCHANGED vars
  <2>. USE <1>10 DEF vars
  <2>1. TypeOK'
    BY DEF IInv, TypeOK
  <2>2. RingInv' /\ PendingExact'
    BY BufferFrame DEF ring, session
  <2>3. EnvelopeInv'
    BY BufferFrame DEF IInv, EnvelopeInv, ring, session
  <2>4. \A lo, hi : RowsIn(lo, hi)' = RowsIn(lo, hi)
    BY DEF RowsIn
  <2>5. CoverInv'
    BY <2>4 DEF IInv, CoverInv, Received
  <2>6. PhaseInv'
    BY PhaseFrame DEF IInv, server, session, conns, ring, ckpt
  <2>7. CheckpointInv'
    BY <2>4, AgeFrame DEF IInv, CheckpointInv, CheckpointDelivered
  <2>8. SlotInv' /\ ConfirmedDelivered'
    BY <2>4 DEF IInv, SlotInv, ConfirmedDelivered
  <2>. QED
    BY <2>1, <2>2, <2>3, <2>5, <2>6, <2>7, <2>8 DEF IInv
<1>. QED
  BY <1>1, <1>2, <1>3, <1>4, <1>5, <1>6, <1>7, <1>8, <1>9, <1>10 DEF Next

\* IInv is an invariant of the client.
THEOREM Invariance == Spec => []IInv
  BY InitIInv, NextIInv, PTL DEF Spec

\* Every variable keeps its type; in particular pending_events never becomes
\* negative and the head and tail stay within xact_list.
THEOREM TypeCorrect == Spec => []TypeOK
<1>1. IInv => TypeOK
  BY DEF IInv
<1>. QED
  BY <1>1, Invariance, PTL

\* What the replication slot remembers is durable in Kafka, for any buffer
\* size, any number of transactions and any finite number of faults.
THEOREM ConfirmedIsDelivered == Spec => []ConfirmedDelivered
<1>1. IInv => ConfirmedDelivered
  BY DEF IInv
<1>. QED
  BY <1>1, Invariance, PTL

\* The position the client is about to report is durable in Kafka.
THEOREM CheckpointIsDelivered == Spec => []CheckpointDelivered
<1>1. IInv => CheckpointDelivered
  BY DEF IInv, CheckpointInv
<1>. QED
  BY <1>1, Invariance, PTL

\* taking_snapshot is cleared only when the whole snapshot is in Kafka.
THEOREM SnapshotFlagCorrect == Spec => []SnapshotFlag
<1>1. ASSUME IInv, base = 0, ~ taking_snapshot PROVE RowsIn(0, from) \subseteq kafka
  <2>1. CASE from > 0
    BY <1>1, <2>1 DEF IInv, PhaseInv, FlagInv
  <2>2. CASE from = 0
    BY <2>2 DEF RowsIn, Row
  <2>. QED
    BY <1>1, <2>1, <2>2, Numbers DEF IInv
<1>2. IInv => SnapshotFlag
  BY <1>1 DEF SnapshotFlag
<1>. QED
  BY <1>2, Invariance, PTL

\* A slot is not recycled while a delivery report for it is outstanding.
THEOREM SlotsNotReused == Spec => []SlotNotReused
<1>1. IInv => SlotNotReused
  BY DEF IInv, EnvelopeInv, SlotNotReused
<1>. QED
  BY <1>1, Invariance, PTL

\* pending_events counts the outstanding delivery reports of the slot.
THEOREM PendingIsExact == Spec => []PendingExact
<1>1. IInv => PendingExact
  BY DEF IInv
<1>. QED
  BY <1>1, Invariance, PTL

\* The consistency checks of on_begin_txn and on_commit_txn never fail.
THEOREM NoProtocolErrors == Spec => []NoProtocolError
<1>1. ASSUME IInv PROVE NoProtocolError
  <2>1. /\ xact_head \in Slot /\ xact_tail \in Slot /\ cur \in Nat /\ from \in Nat /\ from <= cur
    BY <1>1, Numbers DEF IInv, PhaseInv, PositionInv
  <2>2. Age(xact_head) = 0 /\ Age(xact_tail) \in Nat
    BY <2>1, AgeValue, RingAssumption DEF Slot
  <2>3. SlotOK(xact_head)
    BY <1>1, <2>1, <2>2 DEF IInv, RingInv, Live
  <2>4. CopyBoth /\ ev > 0 => xact_list[xact_head].xid = cur
    <3>1. ev > 0 => from < cur
      BY <1>1 DEF IInv, PhaseInv, PositionInv
    <3>. QED
      BY <2>1, <2>2, <2>3, <3>1 DEF SlotOK
  <2>5. sql_conn => xact_head = 0 /\ xact_tail = 0 /\ xact_list[0].xid = 0
    <3>1. CASE pc = "create"
      BY <1>1, <3>1 DEF IInv, PhaseInv, StartPhase, EmptyXact
    <3>2. CASE sql_conn /\ pc # "create"
      <4>1. xact_head = 0 /\ xact_tail = 0 /\ cur = from
        BY <1>1, <3>2 DEF IInv, PhaseInv, SnapshotPhase
      <4>. QED
        BY <2>1, <2>2, <2>3, <4>1 DEF SlotOK
    <3>. QED
      BY <3>1, <3>2
  <2>. QED
    BY <2>4, <2>5 DEF NoProtocolError
<1>. QED
  BY <1>1, Invariance, PTL

\* The position the slot remembers never moves back while the slot exists.
THEOREM ConfirmedIsMonotone == Spec => ConfirmedMonotone
<1>1. ASSUME IInv, [Next]_vars, slot_exists, slot_exists' PROVE confirmed_flush <= confirmed_flush'
  <2>1. confirmed_flush \in Nat
    BY <1>1, Numbers DEF IInv
  <2>2. CASE replication_stream_keepalive \/ \E reply \in BOOLEAN : parse_keepalive_message(reply)
    BY <1>1, <2>2, KeepaliveStep
  <2>3. CASE replication_slot_create
    BY <1>1, <2>3 DEF replication_slot_create, IInv, PhaseInv, StartPhase
  <2>4. CASE Failure
    <3>1. confirmed_flush' = confirmed_flush
      BY <1>1, <2>4 DEF Failure, delivery_failed, shutdown_signal, ensure_fails, Crash, exit_nicely,
         slotv
    <3>. QED
      BY <2>1, <3>1
  <2>5. CASE \/ \E n \in 0 .. MaxRows : CommitTxn(n)
             \/ \E e \in queued : BrokerAck(e)
             \/ Start \/ replication_slot_exists \/ snapshot_start \/ replication_stream_start
             \/ Receive \/ rd_kafka_produce \/ on_begin_txn \/ Deliver \/ UNCHANGED vars
    <3>1. confirmed_flush' = confirmed_flush
      BY <2>5, Zenon DEF CommitTxn, BrokerAck, Start, replication_slot_exists, snapshot_start,
         replication_stream_start, Receive, snapshot_tuple, snapshot_end, recv_begin,
         on_insert_row, recv_commit, rd_kafka_produce, on_begin_txn, Deliver, on_deliver_msg,
         vars, server, slotv
    <3>. QED
      BY <2>1, <3>1
  <2>. QED
    BY <1>1, <2>2, <2>3, <2>4, <2>5 DEF Next, Startup
<1>2. IInv /\ [Next]_vars =>
        [slot_exists /\ slot_exists' => confirmed_flush <= confirmed_flush']_vars
  BY <1>1
<1>. QED
  BY <1>2, Invariance, PTL DEF Spec, ConfirmedMonotone

\* Between transactions, the slot at the tail is incomplete unless it is the
\* head: whatever completed it has called maybe_checkpoint.
TailInv == ev = 0 /\ xact_tail # xact_head => ~ Complete(xact_list[xact_tail])

\* Between two transactions the slot at the tail is not a finished one, unless
\* it is also the head.
LEMMA NextTailInv == IInv /\ TailInv /\ [Next]_vars => TailInv'
<1>. SUFFICES ASSUME IInv, TailInv, [Next]_vars PROVE TailInv'
  OBVIOUS
<1>1. ASSUME NEW list, maybe_checkpoint(list), list = xact_list', xact_head' = xact_head
      PROVE  TailInv'
  BY <1>1 DEF maybe_checkpoint, TailInv, Complete
<1>2. CASE recv_commit \/ snapshot_end \/ Deliver
  BY <1>1, <1>2, Zenon DEF recv_commit, snapshot_end, Deliver, on_commit_txn, on_deliver_msg
<1>3. CASE on_begin_txn
  BY <1>3 DEF on_begin_txn, TailInv
<1>4. CASE on_insert_row \/ \E row \in snap : snapshot_tuple(row)
  <2>1. CASE on_insert_row
    BY <2>1 DEF on_insert_row, TailInv, IInv, TypeOK
  <2>2. ASSUME NEW row \in snap, snapshot_tuple(row) PROVE TailInv'
    <3>1. /\ sql_conn /\ pc = "poll" /\ xact_head' = xact_head /\ xact_tail' = xact_tail
      BY <2>2 DEF snapshot_tuple, send_kafka_msg
    <3>2. xact_head = 0 /\ xact_tail = 0
      BY <3>1 DEF IInv, PhaseInv, SnapshotPhase
    <3>. QED
      BY <3>1, <3>2 DEF TailInv
  <2>. QED
    BY <1>4, <2>1, <2>2
<1>5. CASE Failure
  BY <1>5 DEF Failure, delivery_failed, shutdown_signal, ensure_fails, Crash, exit_nicely, Gone,
     TailInv
<1>6. CASE UNCHANGED <<ev, ring>>
  BY <1>6 DEF TailInv, Complete, ring
<1>7. CASE \/ \E n \in 0 .. MaxRows : CommitTxn(n)
           \/ \E e \in queued : BrokerAck(e)
           \/ Startup \/ recv_begin \/ rd_kafka_produce \/ replication_stream_keepalive
           \/ \E reply \in BOOLEAN : parse_keepalive_message(reply)
           \/ UNCHANGED vars
  <2>1. UNCHANGED <<ev, ring>>
    BY <1>7 DEF CommitTxn, BrokerAck, Startup, Start, replication_slot_exists,
       replication_slot_create, snapshot_start, replication_stream_start, recv_begin,
       rd_kafka_produce, replication_stream_keepalive, parse_keepalive_message, send_checkpoint,
       vars, session, ring
  <2>. QED
    BY <1>6, <2>1
<1>. QED
  BY <1>2, <1>3, <1>4, <1>5, <1>7 DEF Next, Receive

\* A full buffer waits for Kafka, never for a checkpoint nobody will make.
THEOREM FullWaits == Spec => []FullWaitsForKafka
<1>1. Init => TailInv
  BY DEF Init, InitClient, TailInv
<1>2. ASSUME IInv, TailInv, pc = "begin", xact_list_full
      PROVE  xact_list[xact_tail].pending_events > 0
  <2>1. /\ xact_head \in Slot /\ xact_tail \in Slot /\ cur \in Nat /\ from \in Nat /\ ev = 0
        /\ xact_list[xact_tail] \in Xact
    <3>1. /\ xact_head \in Slot /\ xact_tail \in Slot /\ cur \in Nat /\ from \in Nat
          /\ xact_list \in [Slot -> Xact]
      BY <1>2, Numbers DEF IInv, TypeOK
    <3>2. ev = 0
      BY <1>2 DEF IInv, PhaseInv, StreamPhase
    <3>. QED
      BY <3>1, <3>2
  <2>2. xact_tail # xact_head
    BY <1>2, <2>1, ModN, RingAssumption DEF xact_list_full, Slot
  <2>3. Age(xact_tail) \in Nat
    BY <2>1, AgeValue
  <2>4. SlotOK(xact_tail)
    BY <1>2, <2>1, <2>3 DEF IInv, RingInv, Live
  <2>5. xact_list[xact_tail].xid = 0 \/ xact_list[xact_tail].commit_lsn > 0
    BY <2>1, <2>3, <2>4 DEF SlotOK
  <2>. QED
    BY <1>2, <2>1, <2>2, <2>5 DEF TailInv, Complete, Xact
<1>3. IInv /\ TailInv => FullWaitsForKafka
  BY <1>2 DEF FullWaitsForKafka
<1>. QED
  BY <1>1, <1>3, Invariance, NextTailInv, PTL DEF Spec
-----------------------------------------------------------------------------
(* The refinement *)

\* The rows of the transactions committed so far
Committed == RowsIn(0, wal_end)

\* The client makes no row up: what it has still to receive from the snapshot,
\* and what it has handed to the producer, was committed
RowInv == snap \subseteq Committed /\ \A e \in envelopes : e.row \in Committed

\* A committed row stays committed.
LEMMA CommittedGrows == TypeOK /\ [Next]_vars => Committed \subseteq Committed'
<1>. SUFFICES ASSUME TypeOK, [Next]_vars PROVE Committed \subseteq Committed'
  OBVIOUS
<1>1. CASE \E n \in 0 .. MaxRows : CommitTxn(n)
  <2>1. PICK n \in 0 .. MaxRows : CommitTxn(n)
    BY <1>1
  <2>2. /\ wal_end' = wal_end + 1 /\ wal' = [wal EXCEPT ![wal_end + 1] = n]
        /\ wal_end \in Nat /\ wal \in [1 .. MaxTxns -> 0 .. MaxRows]
    BY <2>1, Numbers DEF CommitTxn, TypeOK
  <2>3. ASSUME NEW r \in Committed PROVE r \in Committed'
    <3>1. r \in Row /\ r[1] \in 1 .. MaxTxns /\ r[1] <= wal_end /\ 0 < r[1] /\ r[2] <= wal[r[1]]
      BY DEF Committed, RowsIn, Row
    <3>2. wal'[r[1]] = wal[r[1]] /\ r[1] <= wal_end'
      BY <2>2, <3>1, BoundAssumption
    <3>. QED
      BY <3>1, <3>2 DEF Committed, RowsIn
  <2>. QED
    BY <2>3
<1>2. CASE UNCHANGED <<wal_end, wal>>
  BY <1>2 DEF Committed, RowsIn
<1>3. CASE \/ \E e \in queued : BrokerAck(e)
           \/ Startup \/ rd_kafka_produce \/ on_begin_txn \/ UNCHANGED vars
  BY <1>2, <1>3 DEF BrokerAck, Startup, Start, replication_slot_exists, replication_slot_create,
     snapshot_start, replication_stream_start, rd_kafka_produce, on_begin_txn, server, vars
<1>4. CASE Receive \/ Deliver
  BY <1>2, <1>4, Zenon DEF Receive, snapshot_tuple, snapshot_end, recv_begin, on_insert_row, recv_commit,
     Deliver, on_deliver_msg, server
<1>5. CASE \/ replication_stream_keepalive
           \/ \E reply \in BOOLEAN : parse_keepalive_message(reply)
           \/ Failure
  BY <1>2, <1>5 DEF replication_stream_keepalive, parse_keepalive_message, send_checkpoint, server,
     Failure, delivery_failed, shutdown_signal, ensure_fails, Crash, Fault
<1>. QED
  BY <1>1, <1>3, <1>4, <1>5 DEF Next

\* Every step preserves it: snapshot_start asks for the rows below the slot's
\* position, and the walsender sends the rows of the transaction it is at.
LEMMA NextRowInv == IInv /\ RowInv /\ [Next]_vars => RowInv'
<1>. SUFFICES ASSUME IInv, RowInv, [Next]_vars PROVE RowInv'
  OBVIOUS
<1>1. Committed \subseteq Committed'
  BY CommittedGrows DEF IInv
<1>2. ASSUME snap' \subseteq Committed, \A e \in envelopes' : e.row \in Committed PROVE RowInv'
  BY <1>1, <1>2 DEF RowInv
<1>3. ASSUME snap' \subseteq snap, envelopes' \subseteq envelopes PROVE RowInv'
  BY <1>2, <1>3 DEF RowInv
<1>4. CASE \E n \in 0 .. MaxRows : CommitTxn(n)
  BY <1>3, <1>4 DEF CommitTxn, conns, ring
<1>5. CASE \/ \E e \in queued : BrokerAck(e)
           \/ Start \/ replication_slot_exists \/ replication_slot_create
           \/ replication_stream_start \/ rd_kafka_produce \/ on_begin_txn \/ UNCHANGED vars
  BY <1>3, <1>5 DEF BrokerAck, Start, replication_slot_exists, replication_slot_create,
     replication_stream_start, rd_kafka_produce, on_begin_txn, conns, ring, vars
<1>6. CASE snapshot_start
  <2>1. snap' = RowsIn(0, start_lsn) /\ envelopes' = envelopes
    BY <1>6 DEF snapshot_start, ring
  <2>2. start_lsn \in Nat /\ wal_end \in Nat /\ start_lsn <= wal_end
    BY <1>6, Numbers DEF snapshot_start, IInv, PhaseInv, SnapshotPhase, PositionInv
  <2>3. RowsIn(0, start_lsn) \subseteq Committed
    BY <2>2 DEF Committed, RowsIn, Row
  <2>. QED
    BY <1>2, <2>1, <2>3 DEF RowInv
<1>7. CASE \E row \in snap : snapshot_tuple(row)
  <2>1. PICK row \in snap : snapshot_tuple(row)
    BY <1>7
  <2>2. /\ snap' \subseteq snap
        /\ envelopes' = envelopes \cup
             {[xact |-> xact_head, txn |-> xact_list[xact_head].xid, row |-> row]}
    BY <2>1 DEF snapshot_tuple, send_kafka_msg
  <2>. QED
    BY <1>2, <2>2 DEF RowInv
<1>8. CASE on_insert_row
  <2>1. /\ snap' = snap /\ ev > 0 /\ ev <= wal[cur]
        /\ envelopes' = envelopes \cup
             {[xact |-> xact_head, txn |-> xact_list[xact_head].xid, row |-> <<cur, ev>>]}
    BY <1>8 DEF on_insert_row, send_kafka_msg
  <2>2. /\ cur \in Nat /\ ev \in Nat /\ wal_end \in Nat /\ wal_end <= MaxTxns
        /\ from \in Nat /\ from < cur /\ cur <= wal_end
    BY <2>1, Numbers DEF IInv, PhaseInv, PositionInv
  <2>3. cur \in 1 .. MaxTxns
    BY <2>2, BoundAssumption
  <2>4. wal[cur] \in 0 .. MaxRows
    BY <2>3, WalElement DEF IInv
  <2>5. ev \in 1 .. MaxRows
    BY <2>1, <2>2, <2>4, BoundAssumption
  <2>6. <<cur, ev>> \in Committed
    BY <2>1, <2>2, <2>3, <2>5 DEF Committed, RowsIn, Row
  <2>. QED
    BY <1>2, <2>1, <2>6 DEF RowInv
<1>9. CASE snapshot_end \/ recv_begin \/ recv_commit \/ Deliver
  BY <1>3, <1>9, Zenon DEF snapshot_end, recv_begin, recv_commit, on_commit_txn, Deliver, on_deliver_msg,
     conns, ring
<1>10. CASE \/ replication_stream_keepalive
            \/ \E reply \in BOOLEAN : parse_keepalive_message(reply)
  BY <1>3, <1>10 DEF replication_stream_keepalive, parse_keepalive_message, send_checkpoint, ring
<1>11. CASE Failure
  BY <1>3, <1>11 DEF Failure, delivery_failed, shutdown_signal, ensure_fails, Crash, exit_nicely, Gone
<1>. QED
  BY <1>4, <1>5, <1>6, <1>7, <1>8, <1>9, <1>10, <1>11 DEF Next, Startup, Receive
-----------------------------------------------------------------------------
\* The two specifications agree on the rows between two positions.
LEMMA SameRows ==
  ASSUME TypeOK, NEW lo \in Nat, NEW hi \in Nat, hi <= wal_end
  PROVE  Promise!Between(lo, hi) = RowsIn(lo, hi)
  BY Numbers, BoundAssumption DEF Promise!Between, RowsIn, Row

\* An initial state of the client is one of the promise.
LEMMA InitPromise == Init => Promise!Init
<1>. SUFFICES ASSUME Init PROVE Promise!Init
  OBVIOUS
<1>1. PICK n \in 0 .. MaxRows : wal = [t \in 1 .. MaxTxns |-> IF t = 1 THEN n ELSE 0]
  BY DEF Init
<1>2. wal[1] \in 0 .. MaxRows
  BY <1>1, BoundAssumption
<1>. QED
  BY <1>2 DEF Init, Promise!Init

\* A step that leaves server and broker alone is a stutter of the promise.
LEMMA NextPromise == IInv /\ RowInv /\ [Next]_vars => [Promise!Next]_(Promise!vars)
<1>. SUFFICES ASSUME IInv, RowInv, [Next]_vars PROVE [Promise!Next]_(Promise!vars)
  OBVIOUS
<1>1. CASE UNCHANGED <<server, kafka>>
  BY <1>1 DEF Promise!vars, server
<1>2. ASSUME NEW e \in envelopes PROVE e.row \in Promise!Between(0, wal_end)
  BY Numbers, SameRows DEF IInv, RowInv, Committed
<1>3. CASE \E n \in 0 .. MaxRows : CommitTxn(n)
  BY <1>3, Zenon DEF CommitTxn, slotv, broker, Promise!Next, Promise!Commit
<1>4. CASE \E e \in queued : BrokerAck(e)
  <2>1. PICK e \in queued : BrokerAck(e)
    BY <1>4
  <2>2. e \in envelopes
    BY DEF IInv, TypeOK
  <2>3. Promise!Publish
    BY <1>2, <2>1, <2>2 DEF BrokerAck, server, Promise!Publish
  <2>. QED
    BY <2>3 DEF Promise!Next
<1>5. CASE replication_slot_create
  <2>1. ~ slot_exists
    BY <1>5 DEF replication_slot_create, IInv, PhaseInv, StartPhase
  <2>. QED
    BY <1>5, <2>1 DEF replication_slot_create, broker, Promise!Next, Promise!Reserve
<1>6. CASE replication_stream_keepalive \/ \E reply \in BOOLEAN : parse_keepalive_message(reply)
  <2>1. slot_exists
    BY <1>6 DEF replication_stream_keepalive, parse_keepalive_message, Polling, IInv,
       PhaseInv, StreamPhase, SnapshotPhase, CopyBoth
  <2>2. IInv' /\ confirmed_flush <= confirmed_flush'
    BY <1>6, <2>1, KeepaliveStep
  <2>3. UNCHANGED <<wal_end, wal, slot_exists, consistent_point, kafka>>
    BY <1>6 DEF replication_stream_keepalive, parse_keepalive_message, send_checkpoint, server,
       broker
  <2>4. /\ confirmed_flush \in Nat /\ confirmed_flush' \in Nat /\ consistent_point \in Nat
        /\ wal_end \in Nat
    <3>1. confirmed_flush' \in Lsn
      BY <2>2 DEF IInv, TypeOK
    <3>. QED
      BY <3>1, Numbers DEF IInv, Lsn
  <2>5. confirmed_flush' <= wal_end
    BY <2>1, <2>2, <2>3 DEF IInv, SlotInv
  <2>6. RowsIn(consistent_point, confirmed_flush') \subseteq kafka
    BY <2>1, <2>2, <2>3 DEF IInv, ConfirmedDelivered, RowsIn
  <2>7. Promise!Between(consistent_point, confirmed_flush') \subseteq kafka
    BY <2>4, <2>5, <2>6, SameRows DEF IInv
  <2>8. confirmed_flush' \in confirmed_flush .. wal_end
    BY <2>2, <2>4, <2>5
  <2>9. Promise!Advance
    BY <2>1, <2>3, <2>7, <2>8 DEF Promise!Advance
  <2>. QED
    BY <2>9 DEF Promise!Next
<1>7. CASE Failure
  <2>. DEFINE Dropped == slot_exists /\ slot_exists' = FALSE /\ consistent_point' = 0
                           /\ confirmed_flush' = 0
              Outcome == /\ UNCHANGED <<wal_end, wal>>
                         /\ kafka' = kafka \/ \E e \in envelopes : kafka' = kafka \cup {e.row}
                         /\ Dropped \/ UNCHANGED slotv
  <2>1. Outcome
    <3>1. ASSUME NEW e \in queued, delivery_failed(e) PROVE Outcome
      BY <3>1 DEF delivery_failed, Fault, exit_nicely, IInv, TypeOK
    <3>2. CASE shutdown_signal \/ ensure_fails
      BY <3>2 DEF shutdown_signal, ensure_fails, Fault, exit_nicely
    <3>3. CASE Crash
      BY <3>3 DEF Crash, Fault
    <3>. QED
      BY <1>7, <3>1, <3>2, <3>3, Zenon DEF Failure
  <2>2. CASE UNCHANGED slotv
    <3>1. CASE kafka' = kafka
      BY <1>1, <2>1, <2>2, <3>1 DEF server, slotv
    <3>2. CASE \E e \in envelopes : kafka' = kafka \cup {e.row}
      BY <1>2, <2>1, <2>2, <3>2 DEF slotv, Promise!Next, Promise!Publish
    <3>. QED
      BY <2>1, <3>1, <3>2
  <2>3. CASE Dropped
    BY <1>2, <2>1, <2>3 DEF Promise!Next, Promise!Release
  <2>. QED
    BY <2>1, <2>2, <2>3, Zenon
<1>8. CASE \/ Start \/ replication_slot_exists \/ snapshot_start \/ replication_stream_start
           \/ Receive \/ rd_kafka_produce \/ on_begin_txn \/ Deliver \/ UNCHANGED vars
  BY <1>1, <1>8, Zenon DEF Start, replication_slot_exists, snapshot_start, replication_stream_start,
     Receive, snapshot_tuple, snapshot_end, recv_begin, on_insert_row, recv_commit,
     rd_kafka_produce, on_begin_txn, Deliver, on_deliver_msg, vars, server, broker
<1>. QED
  BY <1>3, <1>4, <1>5, <1>6, <1>7, <1>8 DEF Next, Startup

\* The client implements the promise: whatever its faults, it publishes
\* committed rows only, and the slot passes no row that is not published.
THEOREM ImplementsAtLeastOnce == Spec => KeepsPromise
<1>1. Init => RowInv
  BY DEF Init, InitClient, RowInv
<1>. QED
  BY <1>1, InitPromise, NextPromise, NextRowInv, Invariance, PTL DEF Spec, KeepsPromise, Promise!Spec
=============================================================================
