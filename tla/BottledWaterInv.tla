-------------------------- MODULE BottledWaterInv ---------------------------
(***************************************************************************)
(* The inductive invariant of BottledWater, the arithmetic of its circular *)
(* buffer, how envelopes are counted, what one call of maybe_checkpoint    *)
(* does to the invariant; the invariant holds initially and is preserved   *)
(* by the ends and starts of incarnations, by server and broker.           *)
(***************************************************************************)
EXTENDS BottledWater, TLAPS

\* How many transactions ago slot s became the head
Age(s) == (xact_head - s) % N

\* The slots between tail and head hold consecutive transactions, the oldest
\* possible one being the snapshot or, after a restart, an empty slot.
SlotOK(s) ==
  LET t == cur - Age(s) IN
  /\ t >= from
  /\ t > from => /\ xact_list[s].xid = t
                 /\ xact_list[s].commit_lsn = IF s = xact_head /\ ev > 0 THEN 0 ELSE t
  /\ t = from => xact_list[s].xid = 0 /\ xact_list[s].commit_lsn \in {0, from}

Live(s) == Age(s) <= Age(xact_tail)

RingInv == \A s \in Slot : Live(s) => SlotOK(s)

\* Where an envelope points, and what it carries
EnvelopeInv ==
  /\ IsFiniteSet(envelopes)
  /\ \A e \in envelopes :
       /\ Live(e.xact) /\ e.txn = xact_list[e.xact].xid
       /\ e.row[1] <= cur
       /\ IF e.txn = 0 THEN base = 0 /\ e.row[1] <= from /\ e.row \notin snap
                       ELSE e.row[1] = e.txn
       /\ e.txn # 0 /\ e.txn = cur /\ ev > 0 => e.row[2] < ev
  /\ \A e \in acked : e.row \in kafka /\ e \notin queued

\* Every row received is in Kafka or on its way
Received(r) == r[1] < cur \/ ev = 0 \/ r[2] < ev
CoverInv ==
  /\ \A r \in RowsIn(from, cur) : Received(r) =>
       r \in kafka \/ \E e \in envelopes : e.row = r /\ e.txn = r[1]
  /\ base = 0 /\ pc # "snapshot_start" =>
       \A r \in RowsIn(0, from) :
         r \in kafka \/ r \in snap \/ \E e \in envelopes : e.row = r /\ e.txn = 0

\* Where the walsender stands in the log
PositionInv ==
  /\ cur <= wal_end /\ from <= cur /\ (ev > 0 => from < cur /\ ev <= wal[cur] + 1)
  /\ base \in {0, from}

\* Until a slot is found or created, nothing has been received
StartPhase ==
  /\ pc \in {"down", "connect", "create"} =>
       /\ cur = 0 /\ envelopes = {} /\ snap = {} /\ ~ received
       /\ xact_head = 0 /\ xact_tail = 0 /\ xact_list[0] = EmptyXact /\ fsync_lsn = 0
  /\ pc = "create" => ~ slot_exists /\ sql_conn /\ taking_snapshot
  /\ pc \in {"down", "connect"} => ~ sql_conn

\* While the snapshot is being received, its slot is the whole buffer
SnapshotPhase ==
  /\ pc = "snapshot_start" =>
       /\ sql_conn /\ envelopes = {} /\ snap = {} /\ xact_list[0] = EmptyXact
  /\ sql_conn /\ pc # "create" =>
       /\ slot_exists /\ from > 0 /\ base = 0 /\ confirmed_flush = from
       /\ consistent_point = from /\ start_lsn = from /\ cur = from /\ ev = 0
       /\ xact_head = 0 /\ xact_tail = 0 /\ fsync_lsn = 0 /\ ~ received
       /\ xact_list[0].commit_lsn = 0
       /\ pc \in {"snapshot_start", "poll", "produce"}
  /\ ~ sql_conn => snap = {}
  /\ \A r \in snap : r[1] <= from

\* Before and during the stream
StreamPhase ==
  /\ pc = "stream_start" =>
       /\ slot_exists /\ ~ sql_conn /\ cur = from /\ ev = 0 /\ ~ received
       /\ consistent_point = start_lsn /\ from \in {0, confirmed_flush}
       /\ from # 0 => base = 0 /\ start_lsn = from
       /\ from = 0 => envelopes = {} /\ xact_list[0] = EmptyXact /\ fsync_lsn = 0
       /\ xact_head = 0 /\ xact_tail = 0
  /\ CopyBoth => /\ slot_exists /\ from > 0 /\ consistent_point <= from
                 /\ from <= confirmed_flush
                 /\ confirmed_flush <= from \/ confirmed_flush <= fsync_lsn
  /\ pc = "begin" => ~ sql_conn /\ ev = 0 /\ cur < wal_end

FlagInv == base = 0 /\ from > 0 /\ ~ taking_snapshot => RowsIn(0, from) \subseteq kafka

\* The phases of an incarnation
PhaseInv == PositionInv /\ StartPhase /\ SnapshotPhase /\ StreamPhase /\ FlagInv

\* What the checkpoint has passed is in Kafka
CheckpointInv ==
  LET t == cur - Age(xact_tail) IN
  /\ t > from => RowsIn(base, t - 1) \subseteq kafka
  /\ fsync_lsn # 0 => /\ from <= fsync_lsn /\ fsync_lsn <= t
                      /\ t = from => xact_list[xact_tail].commit_lsn = from
  /\ CheckpointDelivered

SlotInv ==
  slot_exists => /\ 1 <= consistent_point /\ consistent_point <= confirmed_flush
                 /\ confirmed_flush <= wal_end

IInv == /\ TypeOK /\ RingInv /\ EnvelopeInv /\ PendingExact /\ CoverInv
        /\ PhaseInv /\ CheckpointInv /\ SlotInv /\ ConfirmedDelivered
-----------------------------------------------------------------------------
\* What is not beyond n is below n + 1.
LEMMA Below == \A m, n \in Nat : (m <= n => m <= n + 1 /\ m # n + 1) /\ (m < n => m < n + 1)
  OBVIOUS

\* The types of the numbers the proofs calculate with.
LEMMA Numbers ==
  ASSUME TypeOK
  PROVE  /\ cur \in Nat /\ ev \in Nat /\ from \in Nat /\ base \in Nat
         /\ fsync_lsn \in Nat /\ start_lsn \in Nat
         /\ confirmed_flush \in Nat /\ consistent_point \in Nat
         /\ wal_end \in Nat /\ wal_end \in Lsn /\ 1 <= wal_end /\ wal_end <= MaxTxns
         /\ xact_head \in Slot /\ xact_tail \in Slot
  BY BoundAssumption DEF TypeOK, Lsn

\* The number of rows of a transaction.
LEMMA WalElement ==
  ASSUME TypeOK, NEW t \in 1 .. MaxTxns
  PROVE  wal[t] \in 0 .. MaxRows /\ wal[t] \in Nat
<1>1. wal \in [1 .. MaxTxns -> 0 .. MaxRows]
  BY DEF TypeOK
<1>. QED
  BY <1>1, BoundAssumption

(* Arithmetic of the circular buffer *)

\* A position up to one turn away from the buffer, taken modulo its size.
LEMMA ModN ==
  /\ \A a \in 0 .. N - 1 : a % N = a
  /\ \A a \in N .. 2 * N - 1 : a % N = a - N
  /\ \A a \in -N .. -1 : a % N = a + N
  BY RingAssumption

\* The age of a slot, without the modulo operator.
LEMMA AgeValue ==
  ASSUME xact_head \in Slot, NEW s \in Slot
  PROVE  /\ Age(s) = IF s <= xact_head THEN xact_head - s ELSE xact_head - s + N
         /\ Age(s) \in 0 .. N - 1
  BY ModN, RingAssumption DEF Age, Slot

\* Two slots of the same age are the same slot.
LEMMA AgeInjective ==
  ASSUME xact_head \in Slot, NEW s \in Slot, NEW u \in Slot, Age(s) = Age(u)
  PROVE  s = u
  BY AgeValue, RingAssumption DEF Slot

\* The head is the youngest slot.
LEMMA HeadIsLive ==
  ASSUME xact_head \in Slot, xact_tail \in Slot
  PROVE  Age(xact_head) = 0 /\ Age(xact_tail) \in Nat /\ Live(xact_head)
<1>1. Age(xact_head) = 0
  BY AgeValue, RingAssumption DEF Slot
<1>2. Age(xact_tail) \in Nat
  BY AgeValue, RingAssumption
<1>. QED
  BY <1>1, <1>2 DEF Live

\* In a buffer whose head and tail are slot 0, only that slot is live.
LEMMA AgeFresh ==
  ASSUME xact_head' = 0, xact_tail' = 0
  PROVE  /\ Age(0)' = 0
         /\ \A s \in Slot : Live(s)' <=> s = 0
<1>1. 0 \in Slot /\ \A s \in Slot : Age(s)' = IF s = 0 THEN 0 ELSE N - s
  BY ModN, RingAssumption DEF Age, Slot
<1>2. \A s \in Slot : Live(s)' <=> s = 0
  BY <1>1, RingAssumption DEF Live, Slot
<1>. QED
  BY <1>1, <1>2

\* The j-th slot from the tail exists and is j transactions younger than it.
LEMMA FromTailAge ==
  ASSUME xact_head \in Slot, xact_tail \in Slot, NEW j \in 0 .. InFlight
  PROVE  /\ FromTail(j) \in Slot
         /\ Age(FromTail(j)) = InFlight - j
<1>1. InFlight = Age(xact_tail)
  BY DEF InFlight, Age
<1>2. /\ InFlight = IF xact_tail <= xact_head THEN xact_head - xact_tail
                                              ELSE xact_head - xact_tail + N
      /\ InFlight \in 0 .. N - 1
  BY <1>1, AgeValue
<1>3. FromTail(j) = IF xact_tail + j < N THEN xact_tail + j ELSE xact_tail + j - N
  BY <1>2, ModN, RingAssumption DEF FromTail, Slot
<1>4. FromTail(j) \in Slot
  BY <1>2, <1>3, RingAssumption DEF Slot
<1>. QED
  BY <1>2, <1>3, <1>4, AgeValue, RingAssumption DEF Slot
-----------------------------------------------------------------------------
(* The loop of maybe_checkpoint *)

\* SlotOK for a buffer list and an event counter e that the state may not
\* hold yet: maybe_checkpoint runs in the middle of a callback.
SlotOKWith(list, e, s) ==
  LET t == cur - Age(s) IN
  /\ t >= from
  /\ t > from => /\ list[s].xid = t
                 /\ list[s].commit_lsn = IF s = xact_head /\ e > 0 THEN 0 ELSE t
  /\ t = from => list[s].xid = 0 /\ list[s].commit_lsn \in {0, from}

\* What the callbacks establish before they call maybe_checkpoint, once the
\* snapshot query has returned all its rows.
CallbackOK(list, e, envs) ==
  /\ list \in [Slot -> Xact] /\ e \in Nat /\ envs \subseteq Envelope
  /\ snap = {} /\ pc # "snapshot_start"
  /\ \A s \in Slot : Live(s) => SlotOKWith(list, e, s)
  /\ \A n \in envs : Live(n.xact) /\ n.txn = list[n.xact].xid
  /\ \A s \in Slot : list[s].pending_events = 0 => \A n \in envs : n.xact # s
  /\ \A r \in RowsIn(from, cur) : r[1] < cur \/ e = 0 =>
       r \in kafka \/ \E n \in envs : n.row = r /\ n.txn = r[1]
  /\ base = 0 => \A r \in RowsIn(0, from) :
       r \in kafka \/ \E n \in envs : n.row = r /\ n.txn = 0
  /\ fsync_lsn # 0 /\ cur - Age(xact_tail) = from => list[xact_tail].commit_lsn = from

\* If every slot from the tail up to s is complete, the rows of the
\* transactions up to the one in s are in Kafka.
LEMMA PrefixDelivered ==
  ASSUME TypeOK, PhaseInv, CheckpointInv,
         NEW list, NEW e, NEW envs, CallbackOK(list, e, envs),
         NEW s \in Slot, Live(s),
         \A u \in Slot : Live(u) /\ Age(u) >= Age(s) => Complete(list[u])
  PROVE  RowsIn(base, cur - Age(s)) \subseteq kafka
<1>. DEFINE t0 == cur - Age(xact_tail)
            t1 == cur - Age(s)
<1>1. /\ xact_head \in Slot /\ xact_tail \in Slot /\ cur \in Nat /\ from \in Nat
      /\ Age(s) \in Nat /\ Age(xact_tail) \in Nat /\ Age(s) <= Age(xact_tail)
      /\ t0 \in Int /\ t1 \in Int /\ t0 <= t1 /\ t1 <= cur /\ from <= t0
  <2>1. xact_head \in Slot /\ xact_tail \in Slot /\ cur \in Nat /\ from \in Nat
    BY Numbers
  <2>2. Age(s) \in 0 .. N - 1 /\ Age(xact_tail) \in 0 .. N - 1
    BY <2>1, AgeValue
  <2>3. Age(s) <= Age(xact_tail)
    BY DEF Live
  <2>4. from <= t0
    BY <2>1, <2>2 DEF CallbackOK, SlotOKWith, Live
  <2>. QED
    BY <2>1, <2>2, <2>3, <2>4, RingAssumption
<1>2. SUFFICES ASSUME NEW r \in RowsIn(base, t1) PROVE r \in kafka
  OBVIOUS
<1>3. r \in Row /\ r[1] \in Nat /\ base < r[1] /\ r[1] <= t1 /\ r[2] <= wal[r[1]]
  BY DEF RowsIn, Row
<1>4. CASE r[1] > from /\ r[1] < t0
  BY <1>1, <1>3, <1>4 DEF CheckpointInv, RowsIn
<1>5. CASE r[1] > from /\ r[1] >= t0
  \* the row's transaction still has a slot u, which is complete
  <2>. DEFINE j == r[1] - t0
              u == FromTail(j)
  <2>1. InFlight = Age(xact_tail)
    BY DEF InFlight, Age
  <2>2. j \in 0 .. InFlight
    BY <1>1, <1>3, <1>5, <2>1
  <2>3. u \in Slot /\ Age(u) = InFlight - j
    BY <1>1, <2>2, FromTailAge
  <2>4. Age(u) = cur - r[1] /\ Live(u) /\ Age(u) >= Age(s)
    BY <1>1, <1>3, <1>5, <2>1, <2>2, <2>3 DEF Live
  <2>5. Complete(list[u])
    BY <2>3, <2>4
  <2>6. /\ list[u].xid = r[1]
        /\ list[u].commit_lsn = IF u = xact_head /\ e > 0 THEN 0 ELSE r[1]
    <3>1. SlotOKWith(list, e, u)
      BY <2>3, <2>4 DEF CallbackOK
    <3>. HIDE DEF u
    <3>. QED
      BY <1>1, <1>3, <1>5, <2>4, <3>1 DEF SlotOKWith
  <2>7. list[u].pending_events = 0 /\ (u = xact_head => e = 0)
    BY <1>3, <1>5, <1>1, <2>5, <2>6 DEF Complete, CallbackOK
  <2>8. r[1] < cur \/ e = 0
    <3>1. CASE r[1] = cur
      <4>1. Age(u) = 0 /\ Age(xact_head) = 0
        BY <1>1, <2>4, <3>1, AgeValue, RingAssumption DEF Slot
      <4>2. u = xact_head
        BY <4>1, <1>1, <2>3, AgeInjective
      <4>. QED
        BY <4>2, <2>7
    <3>. QED
      BY <3>1, <1>1, <1>3
  <2>9. r \in RowsIn(from, cur)
    BY <1>1, <1>3, <1>5 DEF RowsIn
  <2>10. ASSUME NEW n \in envs, n.row = r, n.txn = r[1] PROVE FALSE
    <3>1. n.xact \in Slot /\ Live(n.xact) /\ list[n.xact].xid = r[1]
      BY <2>10 DEF CallbackOK, Envelope
    <3>2. SlotOKWith(list, e, n.xact)
      BY <3>1 DEF CallbackOK
    <3>3. Age(n.xact) \in Nat
      BY <1>1, <3>1, AgeValue
    <3>4. cur - Age(n.xact) = r[1]
      BY <1>1, <1>3, <1>5, <3>1, <3>2, <3>3 DEF SlotOKWith
    <3>5. n.xact = u
      BY <1>1, <1>3, <2>3, <2>4, <3>1, <3>3, <3>4, AgeInjective
    <3>. QED
      BY <2>3, <2>7, <3>5 DEF CallbackOK
  <2>. QED
    BY <2>8, <2>9, <2>10 DEF CallbackOK
<1>6. CASE r[1] <= from
  <2>1. base = 0 /\ base \in Nat
    BY <1>1, <1>3, <1>6 DEF PhaseInv, PositionInv
  <2>2. r \in RowsIn(0, from)
    BY <1>3, <1>6, <2>1 DEF RowsIn
  <2>3. CASE t0 > from
    BY <1>1, <1>3, <1>6, <2>1, <2>3 DEF CheckpointInv, RowsIn
  <2>4. CASE t0 = from
    \* the snapshot's slot is the tail
    <3>1. Live(xact_tail) /\ Age(xact_tail) >= Age(s)
      BY <1>1 DEF Live
    <3>2. list[xact_tail].pending_events = 0
      BY <1>1, <3>1 DEF Complete
    <3>3. ASSUME NEW n \in envs, n.row = r, n.txn = 0 PROVE FALSE
      <4>1. n.xact \in Slot /\ Live(n.xact) /\ list[n.xact].xid = 0
        BY <3>3 DEF CallbackOK, Envelope
      <4>2. SlotOKWith(list, e, n.xact)
        BY <4>1 DEF CallbackOK
      <4>3. Age(n.xact) \in Nat
        BY <1>1, <4>1, AgeValue
      <4>4. cur - Age(n.xact) = from
        BY <1>1, <4>1, <4>2, <4>3 DEF SlotOKWith
      <4>5. n.xact = xact_tail
        BY <1>1, <2>4, <4>1, <4>3, <4>4, AgeInjective
      <4>. QED
        BY <1>1, <3>2, <4>5 DEF CallbackOK
    <3>. QED
      BY <2>1, <2>2, <3>3 DEF CallbackOK
  <2>. QED
    BY <1>1, <2>3, <2>4
<1>. QED
  BY <1>1, <1>3, <1>4, <1>5, <1>6

\* What maybe_checkpoint does to a buffer that satisfies CallbackOK.
LEMMA CheckpointStep ==
  ASSUME TypeOK, PhaseInv, CheckpointInv,
         NEW list, NEW e, NEW envs, CallbackOK(list, e, envs),
         maybe_checkpoint(list)
  PROVE  LET age == Age(xact_tail')
             t   == cur - age
         IN  /\ xact_tail' \in Slot /\ age <= Age(xact_tail)
             /\ fsync_lsn' \in Lsn /\ fsync_lsn <= fsync_lsn'
             /\ taking_snapshot' \in BOOLEAN
             /\ \A n \in envs : Age(n.xact) <= age
             /\ t > from => RowsIn(base, t - 1) \subseteq kafka
             /\ fsync_lsn' # 0 =>
                  /\ from <= fsync_lsn' /\ fsync_lsn' <= t
                  /\ t = from => list[xact_tail'].commit_lsn = from
             /\ RowsIn(base, fsync_lsn') \subseteq kafka
             /\ base = 0 /\ from > 0 /\ ~ taking_snapshot' => RowsIn(0, from) \subseteq kafka
<1>. DEFINE a0 == Age(xact_tail)
<1>1. /\ xact_head \in Slot /\ xact_tail \in Slot /\ cur \in Nat /\ from \in Nat
      /\ base \in Nat /\ fsync_lsn \in Nat /\ fsync_lsn \in Lsn
      /\ list \in [Slot -> Xact] /\ a0 \in Nat /\ Live(xact_tail)
      /\ from <= cur - a0 /\ cur - a0 \in Nat
  <2>1. /\ xact_head \in Slot /\ xact_tail \in Slot /\ cur \in Nat /\ from \in Nat
        /\ base \in Nat /\ fsync_lsn \in Nat /\ fsync_lsn \in Lsn /\ list \in [Slot -> Xact]
    BY Numbers DEF TypeOK, CallbackOK
  <2>2. a0 \in 0 .. N - 1
    BY <2>1, AgeValue
  <2>3. Live(xact_tail)
    BY <2>2 DEF Live
  <2>4. from <= cur - a0
    BY <2>1, <2>2, <2>3 DEF CallbackOK, SlotOKWith
  <2>. QED
    BY <2>1, <2>2, <2>3, <2>4
<1>2. InFlight = a0
  BY DEF InFlight, Age
<1>3. PICK k \in 0 .. InFlight + 1 :
        /\ \A j \in 0 .. k - 1 : Complete(list[FromTail(j)])
        /\ k <= InFlight => ~ Complete(list[FromTail(k)])
        /\ fsync_lsn' = IF k = 0 THEN fsync_lsn ELSE list[FromTail(k - 1)].commit_lsn
        /\ xact_tail' = IF k <= InFlight THEN FromTail(k) ELSE xact_head
        /\ taking_snapshot' =
             (taking_snapshot /\ \A j \in 0 .. k - 1 :
                ~ (list[FromTail(j)].xid = 0 /\ list[FromTail(j)].commit_lsn > 0))
  BY DEF maybe_checkpoint
<1>4. taking_snapshot' \in BOOLEAN
  BY <1>3
<1>5. Age(xact_head) = 0
  BY <1>1, AgeValue, RingAssumption DEF Slot
\* The slots passed are those at least as old as the (k-1)-th
<1>6. ASSUME NEW u \in Slot, Live(u), Age(u) > a0 - k PROVE Complete(list[u])
  <2>1. Age(u) \in Nat /\ Age(u) <= a0
    BY <1>1, <1>6, AgeValue DEF Live
  <2>2. a0 - Age(u) \in 0 .. k - 1 /\ a0 - Age(u) \in 0 .. InFlight
    BY <1>1, <1>2, <1>6, <2>1
  <2>3. FromTail(a0 - Age(u)) = u
    BY <1>1, <1>2, <2>1, <2>2, FromTailAge, AgeInjective
  <2>. QED
    BY <1>3, <2>2, <2>3
<1>7. ASSUME NEW n \in envs PROVE Age(n.xact) \in Nat /\ Age(n.xact) <= a0 - k
  <2>1. n.xact \in Slot /\ Live(n.xact)
    BY DEF CallbackOK, Envelope
  <2>2. Age(n.xact) \in Nat
    BY <1>1, <2>1, AgeValue
  <2>3. ~ Complete(list[n.xact])
    BY <2>1 DEF CallbackOK, Complete
  <2>. QED
    BY <1>1, <1>2, <1>6, <2>1, <2>2, <2>3
<1>8. CASE k = 0
  <2>1. xact_tail' = xact_tail
    BY <1>1, <1>2, <1>3, <1>8, ModN DEF FromTail, Slot
  <2>2. fsync_lsn' = fsync_lsn /\ (taking_snapshot' <=> taking_snapshot)
    BY <1>3, <1>8 DEF TypeOK
  <2>3. base = 0 /\ from > 0 /\ ~ taking_snapshot' => RowsIn(0, from) \subseteq kafka
    BY <2>2 DEF PhaseInv, FlagInv
  <2>4. /\ cur - a0 > from => RowsIn(base, cur - a0 - 1) \subseteq kafka
        /\ fsync_lsn # 0 => from <= fsync_lsn /\ fsync_lsn <= cur - a0
        /\ RowsIn(base, fsync_lsn) \subseteq kafka
    BY DEF CheckpointInv, CheckpointDelivered
  <2>5. fsync_lsn # 0 /\ cur - a0 = from => list[xact_tail].commit_lsn = from
    BY DEF CallbackOK
  <2>6. \A n \in envs : Age(n.xact) <= a0
    BY <1>1, <1>7, <1>8
  <2>. QED
    BY <1>1, <1>4, <2>1, <2>2, <2>3, <2>4, <2>5, <2>6
<1>9. CASE k # 0
  <2>. DEFINE s  == FromTail(k - 1)
              t1 == cur - Age(s)
  <2>1. k - 1 \in 0 .. InFlight
    BY <1>1, <1>2, <1>9
  <2>2. s \in Slot /\ Age(s) = a0 - (k - 1)
    BY <1>1, <1>2, <2>1, FromTailAge
  <2>3. Live(s) /\ Age(s) \in Nat /\ t1 \in Nat /\ t1 = cur - a0 + k - 1 /\ t1 <= cur
    BY <1>1, <1>2, <2>1, <2>2 DEF Live
  <2>4. RowsIn(base, t1) \subseteq kafka
    <3>1. \A u \in Slot : Live(u) /\ Age(u) >= Age(s) => Complete(list[u])
      BY <1>1, <1>6, <2>2, <2>3, AgeValue
    <3>. HIDE DEF s
    <3>. QED
      BY <2>2, <2>3, <3>1, PrefixDelivered
  <2>5. SlotOKWith(list, e, s) /\ Complete(list[s])
    <3>1. Age(s) > a0 - k
      BY <1>1, <1>2, <2>2
    <3>. HIDE DEF s
    <3>2. Complete(list[s])
      BY <1>6, <2>2, <2>3, <3>1
    <3>3. SlotOKWith(list, e, s)
      BY <2>2, <2>3 DEF CallbackOK
    <3>. QED
      BY <3>2, <3>3
  <2>6. /\ t1 > from => list[s].commit_lsn = t1
        /\ t1 = from => list[s].commit_lsn \in {0, from}
        /\ t1 >= from /\ list[s].commit_lsn \in Lsn
    <3>. HIDE DEF s
    <3>1. list[s] \in Xact
      BY <1>1, <2>2
    <3>. QED
      BY <1>1, <2>3, <2>5, <3>1 DEF SlotOKWith, Complete, Xact, Lsn
  <2>7. fsync_lsn' = list[s].commit_lsn
    BY <1>3, <1>9
  <2>8. /\ xact_tail' \in Slot /\ Age(xact_tail') \in Nat
        /\ Age(xact_tail') = IF k <= a0 THEN a0 - k ELSE 0
        /\ k = a0 + 1 => xact_tail' = s
    <3>1. CASE k <= a0
      BY <1>1, <1>2, <1>3, <3>1, FromTailAge
    <3>2. CASE k = a0 + 1
      <4>1. xact_tail' = xact_head
        BY <1>1, <1>2, <1>3, <3>2
      <4>. QED
        BY <1>1, <1>5, <2>2, <3>2, <4>1, AgeInjective
    <3>. QED
      BY <1>1, <1>2, <3>1, <3>2
  <2>. DEFINE t == cur - Age(xact_tail')
  <2>9. t \in Nat /\ t1 <= t /\ t <= t1 + 1 /\ (t = t1 => xact_tail' = s)
    BY <1>1, <1>2, <2>3, <2>8
  <2>. HIDE DEF s
  <2>10. xact_tail' \in Slot /\ Age(xact_tail') <= a0 /\ fsync_lsn' \in Lsn
    BY <1>1, <2>6, <2>7, <2>8
  <2>11. fsync_lsn <= fsync_lsn'
    <3>0. (fsync_lsn # 0 => fsync_lsn <= cur - a0) /\ cur - a0 <= t1
      BY <1>1, <1>2, <2>1, <2>3 DEF CheckpointInv
    <3>1. CASE t1 > from
      BY <1>1, <2>3, <2>6, <2>7, <3>0, <3>1
    <3>2. CASE t1 = from
      <4>1. k = 1 /\ cur - a0 = from
        BY <1>1, <1>2, <1>9, <2>3, <3>2
      <4>2. s = xact_tail
        BY <1>1, <2>2, <4>1, AgeInjective
      <4>3. fsync_lsn # 0 => list[xact_tail].commit_lsn = from
        BY <4>1 DEF CallbackOK
      <4>4. list[xact_tail].commit_lsn \in {0, from} /\ fsync_lsn' = list[xact_tail].commit_lsn
        BY <2>6, <2>7, <3>2, <4>2
      <4>. QED
        BY <1>1, <3>0, <4>1, <4>3, <4>4
    <3>. QED
      BY <1>1, <2>3, <2>6, <3>1, <3>2
  <2>12. \A n \in envs : Age(n.xact) <= Age(xact_tail')
    BY <1>1, <1>2, <1>7, <2>8
  <2>13. t > from => RowsIn(base, t - 1) \subseteq kafka
    BY <2>3, <2>4, <2>9 DEF RowsIn, Row
  <2>14. fsync_lsn' # 0 => /\ from <= fsync_lsn' /\ fsync_lsn' <= t
                           /\ t = from => list[xact_tail'].commit_lsn = from
    BY <1>1, <2>3, <2>6, <2>7, <2>9
  <2>15. RowsIn(base, fsync_lsn') \subseteq kafka
    BY <1>1, <2>3, <2>4, <2>6, <2>7 DEF RowsIn, Row
  <2>16. base = 0 /\ from > 0 /\ ~ taking_snapshot' => RowsIn(0, from) \subseteq kafka
    BY <1>1, <2>3, <2>4, <2>6 DEF RowsIn, Row
  <2>. QED
    BY <1>4, <2>10, <2>11, <2>12, <2>13, <2>14, <2>15, <2>16
<1>. QED
  BY <1>8, <1>9
-----------------------------------------------------------------------------
(* Counting.  The library of facts about finite sets is taken in locally, as *)
(* the modules that build on this one need no more of it than these lemmas.  *)
LOCAL Sets == INSTANCE FiniteSetTheorems

\* The library speaks of the finiteness and cardinality the model speaks of.
LEMMA SameCount ==
  \A S : (Sets!IsFiniteSet(S) <=> IsFiniteSet(S)) /\ Sets!Cardinality(S) = Cardinality(S)
  BY Zenon DEF Sets!IsFiniteSet, IsFiniteSet, Sets!Cardinality, Cardinality

\* The empty set is the finite set of cardinality 0.
LEMMA EmptyCount ==
  /\ IsFiniteSet({}) /\ Cardinality({}) = 0
  /\ \A S : IsFiniteSet(S) => (Cardinality(S) = 0 <=> S = {})
  BY SameCount, Sets!FS_EmptySet

\* A part of a finite set is finite and has a number of elements.
LEMMA PartCount ==
  \A S, T : IsFiniteSet(S) /\ T \subseteq S => IsFiniteSet(T) /\ Cardinality(T) \in Nat
  BY SameCount, Sets!FS_Subset, Sets!FS_CardinalityType

\* One element more.
LEMMA AddCount ==
  ASSUME NEW S, NEW x, IsFiniteSet(S)
  PROVE  /\ IsFiniteSet(S \cup {x})
         /\ x \notin S => Cardinality(S \cup {x}) = Cardinality(S) + 1
  BY SameCount, Sets!FS_AddElement

\* One element less.
LEMMA RemoveCount ==
  ASSUME NEW S, NEW x, IsFiniteSet(S)
  PROVE  /\ IsFiniteSet(S \ {x})
         /\ x \in S => Cardinality(S \ {x}) = Cardinality(S) - 1
  BY SameCount, Sets!FS_RemoveElement

\* Counting an envelope in its slot.
LEMMA CountIn ==
  ASSUME PendingExact, IsFiniteSet(envelopes), xact_list \in [Slot -> Xact],
         NEW e, e \notin envelopes, e.xact \in Slot,
         envelopes' = envelopes \cup {e},
         xact_list' = [xact_list EXCEPT ![e.xact].pending_events = @ + 1]
  PROVE  PendingExact' /\ xact_list' \in [Slot -> Xact] /\ IsFiniteSet(envelopes')
<1>. DEFINE at(s) == {n \in envelopes : n.xact = s}
<1>1. ASSUME NEW s \in Slot PROVE IsFiniteSet(at(s)) /\ Cardinality(at(s)) \in Nat
  BY PartCount
<1>2. IsFiniteSet(envelopes')
  BY AddCount
<1>3. xact_list' \in [Slot -> Xact]
  BY DEF Xact
<1>4. ASSUME NEW s \in Slot
      PROVE  xact_list'[s].pending_events = Cardinality({n \in envelopes' : n.xact = s})
  <2>1. CASE s = e.xact
    <3>1. {n \in envelopes' : n.xact = s} = at(s) \cup {e}
      BY <2>1
    <3>2. e \notin at(s)
      OBVIOUS
    <3>3. Cardinality(at(s) \cup {e}) = Cardinality(at(s)) + 1
      BY <1>1, <3>2, AddCount, Zenon
    <3>4. xact_list'[s].pending_events = xact_list[s].pending_events + 1
      BY <2>1 DEF Xact
    <3>. QED
      BY <3>1, <3>3, <3>4, Zenon DEF PendingExact
  <2>2. CASE s # e.xact
    <3>1. {n \in envelopes' : n.xact = s} = at(s)
      BY <2>2
    <3>. QED
      BY <2>2, <3>1 DEF PendingExact
  <2>. QED
    BY <2>1, <2>2
<1>. QED
  BY <1>2, <1>3, <1>4 DEF PendingExact

\* A slot with nothing pending has no envelope pointing at it.
LEMMA NothingPending ==
  ASSUME NEW list, NEW envs, IsFiniteSet(envs),
         \A s \in Slot : list[s].pending_events = Cardinality({n \in envs : n.xact = s})
  PROVE  \A s \in Slot : list[s].pending_events = 0 => \A n \in envs : n.xact # s
<1>. SUFFICES ASSUME NEW s \in Slot, list[s].pending_events = 0, NEW n \in envs, n.xact = s
              PROVE  FALSE
  OBVIOUS
<1>1. IsFiniteSet({m \in envs : m.xact = s})
  BY PartCount
<1>2. Cardinality({m \in envs : m.xact = s}) = 0
  OBVIOUS
<1>3. {m \in envs : m.xact = s} = {}
  BY <1>1, <1>2, EmptyCount
<1>. QED
  BY <1>3

\* Counting an envelope out of its slot.
LEMMA CountOut ==
  ASSUME PendingExact, IsFiniteSet(envelopes), xact_list \in [Slot -> Xact],
         NEW e \in envelopes, e.xact \in Slot,
         envelopes' = envelopes \ {e},
         xact_list' = [xact_list EXCEPT ![e.xact].pending_events = @ - 1]
  PROVE  PendingExact' /\ xact_list' \in [Slot -> Xact] /\ IsFiniteSet(envelopes')
<1>. DEFINE at(s) == {n \in envelopes : n.xact = s}
<1>1. ASSUME NEW s \in Slot PROVE IsFiniteSet(at(s)) /\ Cardinality(at(s)) \in Nat
  BY PartCount
<1>2. IsFiniteSet(envelopes')
  BY RemoveCount
<1>3. xact_list[e.xact].pending_events > 0
  <2>1. e \in at(e.xact)
    OBVIOUS
  <2>2. Cardinality(at(e.xact)) # 0
    BY <1>1, <2>1, EmptyCount, Zenon
  <2>3. xact_list[e.xact].pending_events = Cardinality(at(e.xact))
    BY DEF PendingExact
  <2>4. Cardinality(at(e.xact)) \in Nat
    BY <1>1
  <2>. HIDE DEF at
  <2>. QED
    BY <2>2, <2>3, <2>4
<1>4. xact_list' \in [Slot -> Xact]
  BY <1>3 DEF Xact
<1>5. ASSUME NEW s \in Slot
      PROVE  xact_list'[s].pending_events = Cardinality({n \in envelopes' : n.xact = s})
  <2>1. CASE s = e.xact
    <3>1. {n \in envelopes' : n.xact = s} = at(s) \ {e}
      BY <2>1
    <3>2. e \in at(s)
      BY <2>1
    <3>3. Cardinality(at(s) \ {e}) = Cardinality(at(s)) - 1
      BY <1>1, <3>2, RemoveCount, Zenon
    <3>4. xact_list'[s].pending_events = xact_list[s].pending_events - 1
      BY <2>1 DEF Xact
    <3>. QED
      BY <3>1, <3>3, <3>4, Zenon DEF PendingExact
  <2>2. CASE s # e.xact
    <3>1. {n \in envelopes' : n.xact = s} = at(s)
      BY <2>2
    <3>. QED
      BY <2>2, <3>1 DEF PendingExact
  <2>. QED
    BY <2>1, <2>2
<1>. QED
  BY <1>2, <1>4, <1>5 DEF PendingExact
-----------------------------------------------------------------------------
(* The initial state, and the end of an incarnation *)

\* The invariant holds before the client first starts.
LEMMA InitIInv == Init => IInv
<1>. SUFFICES ASSUME Init PROVE IInv
  OBVIOUS
<1>. USE RingAssumption, BoundAssumption
<1>1. TypeOK
  <2>1. wal \in [1 .. MaxTxns -> 0 .. MaxRows] /\ wal_end = 1
    BY DEF Init
  <2>2. [s \in Slot |-> EmptyXact] \in [Slot -> Xact]
    BY DEF EmptyXact, Xact, Lsn
  <2>3. xact_list \in [Slot -> Xact]
    BY <2>2 DEF Init, InitClient
  <2>4. wal_end \in 1 .. MaxTxns
    BY <2>1
  <2>5. 0 \in Lsn /\ 0 \in Slot /\ 0 \in 0 .. MaxRows + 1 /\ 0 \in 0 .. MaxFaults
    BY DEF Lsn, Slot
  <2>6. "down" \in Pc
    BY DEF Pc
  <2>. QED
    BY <2>1, <2>3, <2>4, <2>5, <2>6, Zenon DEF Init, InitClient, TypeOK
<1>2. RingInv
  BY AgeValue DEF RingInv, Live, SlotOK, Init, InitClient, EmptyXact, Slot
<1>3. EnvelopeInv
  BY EmptyCount DEF Init, InitClient, EnvelopeInv
<1>4. PendingExact
  <2>1. \A s \in Slot : {e \in envelopes : e.xact = s} = {}
    BY DEF Init, InitClient
  <2>. QED
    BY <2>1, EmptyCount DEF PendingExact, Init, InitClient, EmptyXact
<1>5. CoverInv
  BY DEF CoverInv, Init, InitClient, RowsIn, Row
<1>6. PhaseInv
  <2>1. xact_list[0] = EmptyXact
    BY DEF Init, InitClient, Slot
  <2>. QED
    BY <2>1 DEF PhaseInv, PositionInv, StartPhase, SnapshotPhase, StreamPhase, FlagInv,
       Init, InitClient, CopyBoth
<1>7. CheckpointInv
  BY AgeValue DEF CheckpointInv, CheckpointDelivered, Init, InitClient, RowsIn, Row, Slot
<1>8. SlotInv /\ ConfirmedDelivered
  BY DEF SlotInv, ConfirmedDelivered, Init
<1>. QED
  BY <1>1, <1>2, <1>3, <1>4, <1>5, <1>6, <1>7, <1>8 DEF IInv

\* The end of an incarnation, whether the slot survives it or is dropped.
LEMMA GoneStep ==
  ASSUME IInv, Gone, wal_end' = wal_end, wal' = wal, kafka \subseteq kafka', kafka' \subseteq Row,
         faults' \in 0 .. MaxFaults,
         \/ UNCHANGED slotv
         \/ slot_exists' = FALSE /\ consistent_point' = 0 /\ confirmed_flush' = 0
  PROVE  IInv'
<1>. USE RingAssumption, BoundAssumption
<1>1. TypeOK'
  <2>1. [s \in Slot |-> EmptyXact] \in [Slot -> Xact]
    BY DEF EmptyXact, Xact, Lsn
  <2>2. wal_end' \in 1 .. MaxTxns /\ wal' \in [1 .. MaxTxns -> 0 .. MaxRows]
    BY DEF IInv, TypeOK
  <2>3. slot_exists' \in BOOLEAN /\ consistent_point' \in Lsn /\ confirmed_flush' \in Lsn
    <3>1. 0 \in Lsn
      BY DEF Lsn
    <3>2. slot_exists \in BOOLEAN /\ consistent_point \in Lsn /\ confirmed_flush \in Lsn
      BY DEF IInv, TypeOK
    <3>3. CASE UNCHANGED slotv
      BY <3>2, <3>3 DEF slotv
    <3>4. CASE slot_exists' = FALSE /\ consistent_point' = 0 /\ confirmed_flush' = 0
      BY <3>1, <3>4, Zenon
    <3>. QED
      BY <3>3, <3>4, Zenon
  <2>4. /\ cur' \in Lsn /\ ev' \in 0 .. MaxRows + 1 /\ from' \in Lsn /\ base' \in Lsn
        /\ start_lsn' \in Lsn /\ fsync_lsn' \in Lsn
        /\ xact_list' \in [Slot -> Xact] /\ xact_head' \in Slot /\ xact_tail' \in Slot
        /\ pc' \in Pc
    BY <2>1 DEF Gone, Lsn, Slot, Pc
  <2>. QED
    BY <2>2, <2>3, <2>4, Zenon DEF Gone, TypeOK
<1>2. Age(0)' = 0 /\ \A s \in Slot : Live(s)' <=> s = 0
  BY AgeFresh DEF Gone
<1>3. RingInv'
  BY <1>2 DEF RingInv, SlotOK, Gone, EmptyXact
<1>4. EnvelopeInv'
  BY EmptyCount DEF Gone, EnvelopeInv
<1>5. PendingExact'
  <2>1. \A s \in Slot : {e \in envelopes' : e.xact = s} = {}
    BY DEF Gone
  <2>. QED
    BY <2>1, EmptyCount DEF PendingExact, Gone, EmptyXact
<1>6. CoverInv'
  BY DEF CoverInv, Gone, RowsIn, Row
<1>7. PhaseInv'
  <2>1. xact_list'[0] = EmptyXact
    BY DEF Gone, Slot
  <2>2. PositionInv'
    BY Numbers DEF PositionInv, Gone, IInv
  <2>. QED
    BY <2>1, <2>2 DEF PhaseInv, StartPhase, SnapshotPhase, StreamPhase, FlagInv, Gone, CopyBoth
<1>8. CheckpointInv'
  BY <1>2 DEF CheckpointInv, CheckpointDelivered, Gone, RowsIn, Row
<1>9. SlotInv' /\ ConfirmedDelivered'
  BY DEF SlotInv, ConfirmedDelivered, IInv, slotv, RowsIn
<1>. QED
  BY <1>1, <1>3, <1>4, <1>5, <1>6, <1>7, <1>8, <1>9 DEF IInv

\* Delivery failures, signals, failing calls and crashes.
LEMMA FailureStep == IInv /\ Failure => IInv'
<1>. SUFFICES ASSUME IInv, Failure PROVE IInv'
  OBVIOUS
<1>1. ASSUME NEW kind, Fault(kind)
      PROVE  wal_end' = wal_end /\ wal' = wal /\ faults' \in 0 .. MaxFaults
  BY <1>1, BoundAssumption DEF Fault, IInv, TypeOK
<1>2. kafka \subseteq Row
  BY DEF IInv, TypeOK
<1>3. ASSUME NEW e \in queued, delivery_failed(e) PROVE IInv'
  <2>1. e.row \in Row
    BY DEF IInv, TypeOK, Envelope
  <2>. QED
    BY <1>1, <1>2, <1>3, <2>1, GoneStep, Zenon DEF delivery_failed, exit_nicely
<1>4. CASE shutdown_signal
  BY <1>1, <1>2, <1>4, GoneStep DEF shutdown_signal, exit_nicely
<1>5. CASE ensure_fails
  BY <1>1, <1>2, <1>5, GoneStep, Zenon DEF ensure_fails, exit_nicely
<1>6. CASE Crash
  BY <1>1, <1>2, <1>6, GoneStep DEF Crash
<1>. QED
  BY <1>3, <1>4, <1>5, <1>6 DEF Failure
-----------------------------------------------------------------------------
(* Steps that leave the buffer alone *)

\* Ages, and which slots are live, depend on head and tail only.
LEMMA AgeFrame ==
  ASSUME xact_head' = xact_head
  PROVE  /\ \A s : Age(s)' = Age(s)
         /\ xact_tail' = xact_tail => \A s : Live(s)' <=> Live(s)
  BY DEF Age, Live

\* The parts of the invariant about the buffer survive a step that changes
\* neither the buffer nor what the walsender has sent.
LEMMA BufferFrame ==
  ASSUME IInv, UNCHANGED ring, UNCHANGED session
  PROVE  /\ RingInv' /\ PendingExact'
         /\ \A e \in envelopes : Live(e.xact)'
<1>1. /\ \A s : Age(s)' = Age(s) /\ (Live(s)' <=> Live(s))
  BY AgeFrame DEF ring
<1>2. RingInv'
  BY <1>1 DEF IInv, RingInv, SlotOK, ring, session
<1>. QED
  BY <1>1, <1>2 DEF IInv, PendingExact, EnvelopeInv, ring

\* The phases survive a step of the broker, of the producer, or one that only
\* moves on to the begin of a transaction.
LEMMA PhaseFrame ==
  ASSUME PhaseInv, UNCHANGED <<server, session, conns, ring, ckpt>>, kafka \subseteq kafka',
         \/ pc' = pc
         \/ pc \in {"poll", "produce"} /\ pc' = "poll"
         \/ pc = "poll" /\ pc' = "begin" /\ ~ sql_conn /\ ev = 0 /\ cur < wal_end
  PROVE  PhaseInv'
<1>. USE DEF server, session, conns, ring, ckpt
<1>1. PositionInv'
  BY DEF PhaseInv, PositionInv
<1>2. StartPhase'
  BY DEF PhaseInv, StartPhase
<1>3. SnapshotPhase'
  BY DEF PhaseInv, SnapshotPhase
<1>4. StreamPhase'
  BY DEF PhaseInv, StreamPhase, CopyBoth
<1>5. FlagInv'
  <2>1. RowsIn(0, from)' = RowsIn(0, from)
    BY DEF RowsIn
  <2>. QED
    BY <2>1 DEF PhaseInv, FlagInv
<1>. QED
  BY <1>1, <1>2, <1>3, <1>4, <1>5 DEF PhaseInv

\* A transaction commits in the database.
LEMMA CommitTxnStep ==
  ASSUME IInv, NEW n \in 0 .. MaxRows, CommitTxn(n)
  PROVE  IInv'
<1>. USE DEF slotv, session, broker, conns, ring, ckpt
<1>0. UNCHANGED <<slotv, session, broker, conns, ring, ckpt, pc, faults>>
  BY DEF CommitTxn
<1>1. /\ wal_end' = wal_end + 1 /\ wal_end \in Nat /\ wal_end' \in 1 .. MaxTxns
      /\ wal' \in [1 .. MaxTxns -> 0 .. MaxRows]
      /\ \A i \in 1 .. wal_end : wal'[i] = wal[i]
  <2>1. wal \in [1 .. MaxTxns -> 0 .. MaxRows] /\ wal_end \in 1 .. MaxTxns
    BY DEF IInv, TypeOK
  <2>. QED
    BY <2>1, BoundAssumption DEF CommitTxn
<1>2. TypeOK'
  BY <1>0, <1>1 DEF IInv, TypeOK
<1>3. ASSUME NEW lo, NEW hi \in Lsn, hi <= wal_end PROVE RowsIn(lo, hi)' = RowsIn(lo, hi)
  BY <1>1, <1>3 DEF RowsIn, Row, Lsn
<1>4. RingInv' /\ PendingExact'
  BY <1>0, BufferFrame
<1>5. EnvelopeInv'
  BY <1>0, BufferFrame DEF IInv, EnvelopeInv
<1>6. /\ from \in Lsn /\ cur \in Lsn /\ from \in Nat /\ cur \in Nat
      /\ from <= cur /\ cur <= wal_end /\ from <= wal_end
  <2>1. from \in Lsn /\ cur \in Lsn /\ from \in Nat /\ cur \in Nat
    BY Numbers DEF IInv, TypeOK
  <2>2. from <= cur /\ cur <= wal_end
    BY DEF IInv, PhaseInv, PositionInv
  <2>. QED
    BY <1>1, <2>1, <2>2
<1>7. CoverInv'
  <2>1. RowsIn(from, cur)' = RowsIn(from, cur) /\ RowsIn(0, from)' = RowsIn(0, from)
    BY <1>0, <1>3, <1>6
  <2>. QED
    BY <1>0, <2>1 DEF IInv, CoverInv, Received
<1>8. PhaseInv'
  <2>1. PositionInv'
    <3>1. ev > 0 => from < cur /\ ev <= wal[cur] + 1
      BY DEF IInv, PhaseInv, PositionInv
    <3>2. ev > 0 => wal'[cur] = wal[cur]
      BY <1>1, <1>6, <3>1
    <3>3. base \in {0, from}
      BY DEF IInv, PhaseInv, PositionInv
    <3>. QED
      BY <1>0, <1>1, <1>6, <3>1, <3>2, <3>3 DEF PositionInv
  <2>2. StartPhase'
    BY <1>0 DEF IInv, PhaseInv, StartPhase
  <2>3. SnapshotPhase'
    BY <1>0 DEF IInv, PhaseInv, SnapshotPhase
  <2>4. StreamPhase'
    <3>1. (CopyBoth)' <=> CopyBoth
      BY <1>0 DEF CopyBoth
    <3>2. cur < wal_end => cur < wal_end'
      BY <1>1, <1>6
    <3>. QED
      BY <1>0, <3>1, <3>2 DEF IInv, PhaseInv, StreamPhase
  <2>5. FlagInv'
    <3>1. RowsIn(0, from)' = RowsIn(0, from)
      BY <1>0, <1>3, <1>6
    <3>. QED
      BY <1>0, <3>1 DEF IInv, PhaseInv, FlagInv
  <2>. QED
    BY <2>1, <2>2, <2>3, <2>4, <2>5 DEF PhaseInv
<1>9. CheckpointInv'
  <2>. DEFINE t == cur - Age(xact_tail)
  <2>1. Age(xact_tail) \in Nat /\ Age(xact_tail)' = Age(xact_tail)
    <3>1. xact_head \in Slot /\ xact_tail \in Slot
      BY Numbers DEF IInv
    <3>2. Age(xact_tail) \in Nat
      BY <3>1, AgeValue, RingAssumption
    <3>. QED
      BY <1>0, <3>2 DEF Age
  <2>2. t > from => t - 1 \in Lsn /\ t - 1 <= wal_end
    <3>1. t \in Int /\ t <= cur
      BY <1>6, <2>1
    <3>2. wal_end <= MaxTxns
      BY Numbers DEF IInv
    <3>. HIDE DEF t
    <3>. QED
      BY <1>1, <1>6, <3>1, <3>2, BoundAssumption DEF Lsn
  <2>3. fsync_lsn \in Lsn /\ fsync_lsn <= wal_end
    <3>1. fsync_lsn \in Lsn /\ fsync_lsn \in Nat
      BY Numbers DEF IInv, TypeOK
    <3>2. fsync_lsn # 0 => fsync_lsn <= t
      BY DEF IInv, CheckpointInv
    <3>. QED
      BY <1>1, <1>6, <2>1, <3>1, <3>2
  <2>4. /\ t > from => RowsIn(base, t - 1)' = RowsIn(base, t - 1)
        /\ RowsIn(base, fsync_lsn)' = RowsIn(base, fsync_lsn)
    BY <1>0, <1>3, <2>1, <2>2, <2>3
  <2>. QED
    BY <1>0, <2>1, <2>4 DEF IInv, CheckpointInv, CheckpointDelivered
<1>10. SlotInv'
  BY <1>0, <1>1, Numbers DEF IInv, SlotInv
<1>11. ConfirmedDelivered'
  <2>1. confirmed_flush \in Lsn
    BY DEF IInv, TypeOK
  <2>. QED
    BY <1>0, <1>3, <2>1 DEF IInv, SlotInv, ConfirmedDelivered
<1>. QED
  BY <1>2, <1>4, <1>5, <1>7, <1>8, <1>9, <1>10, <1>11 DEF IInv

\* The broker writes a message.
LEMMA BrokerAckStep ==
  ASSUME IInv, NEW e \in queued, BrokerAck(e)
  PROVE  IInv'
<1>. USE DEF BrokerAck, server, session, conns, ring, ckpt
<1>1. TypeOK'
  BY DEF IInv, TypeOK, Envelope
<1>2. RingInv' /\ PendingExact'
  BY BufferFrame
<1>3. EnvelopeInv'
  BY BufferFrame DEF IInv, EnvelopeInv
<1>4. \A lo, hi : RowsIn(lo, hi)' = RowsIn(lo, hi)
  BY DEF RowsIn
<1>5. CoverInv'
  BY <1>4 DEF IInv, CoverInv, Received
<1>6. PhaseInv'
  <2>1. UNCHANGED <<server, session, conns, ring, ckpt, pc>> /\ kafka \subseteq kafka'
    OBVIOUS
  <2>. HIDE DEF BrokerAck, server, session, conns, ring, ckpt
  <2>. QED
    BY <2>1, PhaseFrame DEF IInv
<1>7. CheckpointInv'
  BY <1>4, AgeFrame DEF IInv, CheckpointInv, CheckpointDelivered
<1>8. SlotInv' /\ ConfirmedDelivered'
  BY <1>4 DEF IInv, SlotInv, ConfirmedDelivered
<1>. QED
  BY <1>1, <1>2, <1>3, <1>5, <1>6, <1>7, <1>8 DEF IInv

\* The start of an incarnation, up to its look at pg_replication_slots.
LEMMA ConnectStep == IInv /\ (Start \/ replication_slot_exists) => IInv'
<1>. SUFFICES ASSUME IInv, Start \/ replication_slot_exists PROVE IInv'
  OBVIOUS
<1>0. /\ UNCHANGED <<server, session, broker, snap, received, ring, fsync_lsn, faults>>
      /\ pc \in {"down", "connect"}
  BY DEF Start, replication_slot_exists, conns, ckpt
<1>a. \/ pc' = "connect" /\ UNCHANGED <<start_lsn, sql_conn, taking_snapshot>>
      \/ /\ slot_exists /\ start_lsn' = consistent_point /\ pc' = "stream_start"
         /\ UNCHANGED <<sql_conn, taking_snapshot>>
      \/ /\ ~ slot_exists /\ taking_snapshot' = TRUE /\ sql_conn' = TRUE /\ pc' = "create"
         /\ UNCHANGED start_lsn
  BY DEF Start, replication_slot_exists, conns, ckpt
<1>. USE DEF server, session, broker, ring
<1>1. TypeOK'
  BY <1>0, <1>a, Zenon DEF IInv, TypeOK, Pc
<1>2. RingInv' /\ PendingExact'
  BY <1>0, BufferFrame
<1>3. EnvelopeInv'
  BY <1>0, BufferFrame DEF IInv, EnvelopeInv
<1>4. \A lo, hi : RowsIn(lo, hi)' = RowsIn(lo, hi)
  BY <1>0 DEF RowsIn
<1>b. /\ cur = 0 /\ from = 0 /\ base = 0 /\ ev = 0 /\ envelopes = {} /\ snap = {} /\ ~ received
      /\ xact_head = 0 /\ xact_tail = 0 /\ xact_list[0] = EmptyXact /\ fsync_lsn = 0 /\ ~ sql_conn
  <2>1. /\ cur = 0 /\ envelopes = {} /\ snap = {} /\ ~ received /\ ~ sql_conn
        /\ xact_head = 0 /\ xact_tail = 0 /\ xact_list[0] = EmptyXact /\ fsync_lsn = 0
    BY <1>0 DEF IInv, PhaseInv, StartPhase
  <2>. QED
    BY <2>1, Numbers DEF IInv, PhaseInv, PositionInv
<1>5. CoverInv'
  <2>1. RowsIn(0, 0) = {}
    BY DEF RowsIn, Row
  <2>. QED
    BY <1>0, <1>4, <1>b, <2>1 DEF CoverInv
<1>6. PhaseInv'
  <2>1. PositionInv'
    BY <1>0 DEF IInv, PhaseInv, PositionInv
  <2>2. StartPhase'
    BY <1>0, <1>a, <1>b DEF StartPhase
  <2>3. SnapshotPhase'
    <3>1. snap' = {} /\ pc' # "snapshot_start" /\ (sql_conn' => pc' = "create")
      BY <1>0, <1>a, <1>b
    <3>. QED
      BY <3>1 DEF SnapshotPhase
  <2>4. StreamPhase'
    <3>1. pc' \in {"connect", "stream_start", "create"}
      BY <1>a
    <3>2. pc' = "stream_start" => slot_exists /\ start_lsn' = consistent_point /\ ~ sql_conn'
      BY <1>a, <1>b
    <3>. QED
      BY <1>0, <1>b, <3>1, <3>2 DEF StreamPhase, CopyBoth
  <2>5. FlagInv'
    BY <1>0, <1>b DEF FlagInv
  <2>. QED
    BY <2>1, <2>2, <2>3, <2>4, <2>5 DEF PhaseInv
<1>7. CheckpointInv'
  BY <1>0, <1>4, AgeFrame DEF IInv, CheckpointInv, CheckpointDelivered
<1>8. SlotInv' /\ ConfirmedDelivered'
  BY <1>0, <1>4 DEF IInv, SlotInv, ConfirmedDelivered
<1>. QED
  BY <1>1, <1>2, <1>3, <1>5, <1>6, <1>7, <1>8 DEF IInv

\* The slot and the exported snapshot are created.
LEMMA SlotCreateStep == IInv /\ replication_slot_create => IInv'
<1>. SUFFICES ASSUME IInv, replication_slot_create PROVE IInv'
  OBVIOUS
<1>a. /\ pc = "create" /\ slot_exists' = TRUE /\ consistent_point' = wal_end
      /\ confirmed_flush' = wal_end /\ start_lsn' = wal_end /\ from' = wal_end /\ cur' = wal_end
      /\ pc' = "snapshot_start"
      /\ UNCHANGED <<wal_end, wal, ev, base, kafka, queued, acked, sql_conn, snap, received,
                     xact_list, xact_head, xact_tail, envelopes, fsync_lsn, taking_snapshot,
                     faults>>
  BY DEF replication_slot_create, broker, ring, ckpt
<1>0. /\ cur = 0 /\ from = 0 /\ base = 0 /\ ev = 0 /\ fsync_lsn = 0 /\ sql_conn
      /\ xact_head = 0 /\ xact_tail = 0 /\ envelopes = {} /\ snap = {}
      /\ xact_list[0] = EmptyXact /\ ~ received /\ taking_snapshot
      /\ wal_end \in Lsn /\ wal_end \in Nat /\ wal_end > 0
  <2>1. /\ cur = 0 /\ envelopes = {} /\ snap = {} /\ ~ received /\ sql_conn /\ taking_snapshot
        /\ xact_head = 0 /\ xact_tail = 0 /\ xact_list[0] = EmptyXact /\ fsync_lsn = 0
    BY <1>a DEF IInv, PhaseInv, StartPhase
  <2>2. wal_end \in Lsn /\ wal_end \in Nat /\ wal_end > 0
    BY Numbers DEF IInv
  <2>3. from = 0 /\ base = 0 /\ ev = 0
    BY <2>1, Numbers DEF IInv, PhaseInv, PositionInv
  <2>. QED
    BY <2>1, <2>2, <2>3
<1>1. TypeOK'
  BY <1>a, <1>0 DEF IInv, TypeOK, Pc
<1>2. Age(0)' = 0 /\ \A s \in Slot : Live(s)' <=> s = 0
  BY <1>a, <1>0, AgeFresh
<1>3. RingInv'
  <2>1. xact_list'[0].xid = 0 /\ xact_list'[0].commit_lsn = 0
    <3>1. xact_list'[0] = EmptyXact
      BY <1>a, <1>0
    <3>. QED
      BY <3>1 DEF EmptyXact
  <2>2. cur' - Age(0)' = from' /\ from' \in Nat
    BY <1>a, <1>0, <1>2
  <2>3. SlotOK(0)'
    BY <2>1, <2>2 DEF SlotOK
  <2>. QED
    BY <1>2, <2>3 DEF RingInv
<1>4. PendingExact'
  BY <1>a DEF IInv, PendingExact
<1>5. EnvelopeInv'
  <2>1. acked' = {}
    BY <1>a, <1>0 DEF IInv, TypeOK
  <2>. QED
    BY <1>a, <1>0, <2>1, EmptyCount DEF EnvelopeInv
<1>6. RowsIn(from, cur)' = {} /\ RowsIn(from, fsync_lsn)' = {} /\ RowsIn(0, 0)' = {}
  BY <1>a, <1>0 DEF RowsIn, Row
<1>7. CoverInv'
  BY <1>a, <1>6 DEF CoverInv
<1>8. PhaseInv'
  <2>1. PositionInv'
    BY <1>a, <1>0 DEF PositionInv
  <2>2. StartPhase'
    BY <1>a DEF StartPhase
  <2>3. SnapshotPhase'
    <3>1. xact_list'[0] = EmptyXact /\ xact_list'[0].commit_lsn = 0
      BY <1>a, <1>0 DEF EmptyXact
    <3>2. /\ slot_exists' /\ from' > 0 /\ base' = 0 /\ confirmed_flush' = from'
          /\ consistent_point' = from' /\ start_lsn' = from' /\ cur' = from' /\ ev' = 0
          /\ xact_head' = 0 /\ xact_tail' = 0 /\ fsync_lsn' = 0 /\ ~ received'
          /\ pc' = "snapshot_start" /\ sql_conn' /\ envelopes' = {} /\ snap' = {}
      BY <1>a, <1>0
    <3>. QED
      BY <3>1, <3>2 DEF SnapshotPhase
  <2>4. StreamPhase'
    BY <1>a DEF StreamPhase, CopyBoth
  <2>5. FlagInv'
    BY <1>a, <1>0 DEF FlagInv
  <2>. QED
    BY <2>1, <2>2, <2>3, <2>4, <2>5 DEF PhaseInv
<1>9. CheckpointInv'
  <2>1. RowsIn(base, fsync_lsn)' = {}
    BY <1>a, <1>0 DEF RowsIn, Row
  <2>2. cur' - Age(xact_tail)' = from'
    <3>1. Age(xact_tail)' = 0
      BY <1>a, <1>0, <1>2 DEF Age
    <3>. QED
      BY <1>a, <1>0, <3>1
  <2>3. fsync_lsn' = 0 /\ from' \in Nat
    BY <1>a, <1>0
  <2>. QED
    BY <2>1, <2>2, <2>3 DEF CheckpointInv, CheckpointDelivered
<1>10. SlotInv'
  BY <1>a, <1>0 DEF SlotInv
<1>11. ConfirmedDelivered'
  <2>1. RowsIn(consistent_point, confirmed_flush)' = {}
    BY <1>a, <1>0 DEF RowsIn, Row
  <2>. QED
    BY <2>1 DEF ConfirmedDelivered
<1>. QED
  BY <1>1, <1>3, <1>4, <1>5, <1>7, <1>8, <1>9, <1>10, <1>11 DEF IInv

\* The snapshot query is sent.
LEMMA SnapshotStartStep == IInv /\ snapshot_start => IInv'
<1>. SUFFICES ASSUME IInv, snapshot_start PROVE IInv'
  OBVIOUS
<1>. USE DEF server, session, broker, ring, ckpt
<1>a. /\ pc = "snapshot_start" /\ pc' = "poll" /\ snap' = RowsIn(0, start_lsn)
      /\ UNCHANGED <<server, session, broker, sql_conn, start_lsn, received, ring, ckpt, faults>>
  BY DEF snapshot_start
<1>0. /\ sql_conn /\ from \in Nat /\ start_lsn = from /\ cur = from /\ envelopes = {}
      /\ snap' = RowsIn(0, from) /\ \A lo, hi : RowsIn(lo, hi)' = RowsIn(lo, hi)
  <2>1. sql_conn /\ start_lsn = from /\ cur = from /\ envelopes = {}
    BY <1>a DEF IInv, PhaseInv, SnapshotPhase
  <2>2. \A lo, hi : RowsIn(lo, hi)' = RowsIn(lo, hi)
    BY <1>a DEF RowsIn
  <2>. QED
    BY <1>a, <2>1, <2>2, Numbers DEF IInv
<1>r. \A r \in RowsIn(0, from) : r \in Row /\ r[1] <= from
  BY DEF RowsIn
<1>1. TypeOK'
  BY <1>a, <1>0, <1>r DEF IInv, TypeOK, Pc
<1>2. RingInv' /\ PendingExact'
  BY <1>a, BufferFrame
<1>3. EnvelopeInv'
  <2>1. acked' = {}
    BY <1>a, <1>0 DEF IInv, TypeOK
  <2>. QED
    BY <1>a, <1>0, <2>1, EmptyCount DEF EnvelopeInv
<1>4. CoverInv'
  <2>1. RowsIn(from, cur) = {}
    BY <1>0 DEF RowsIn, Row
  <2>. QED
    BY <1>a, <1>0, <2>1 DEF CoverInv
<1>5. PhaseInv'
  <2>1. PositionInv'
    BY <1>a DEF IInv, PhaseInv, PositionInv
  <2>2. StartPhase'
    BY <1>a DEF StartPhase
  <2>3. SnapshotPhase'
    BY <1>a, <1>0, <1>r DEF IInv, PhaseInv, SnapshotPhase
  <2>4. StreamPhase'
    BY <1>a, <1>0 DEF StreamPhase, CopyBoth
  <2>5. FlagInv'
    BY <1>a, <1>0 DEF IInv, PhaseInv, FlagInv
  <2>. QED
    BY <2>1, <2>2, <2>3, <2>4, <2>5 DEF PhaseInv
<1>6. CheckpointInv'
  BY <1>a, <1>0, AgeFrame DEF IInv, CheckpointInv, CheckpointDelivered
<1>7. SlotInv' /\ ConfirmedDelivered'
  BY <1>a, <1>0 DEF IInv, SlotInv, ConfirmedDelivered
<1>. QED
  BY <1>1, <1>2, <1>3, <1>4, <1>5, <1>6, <1>7 DEF IInv
=============================================================================
