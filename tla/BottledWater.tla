---------------------------- MODULE BottledWater ----------------------------
(***************************************************************************)
(* The Bottled Water client (kafka/bottledwater.c on top of                *)
(* client/connect.c and client/replication.c): it takes a consistent       *)
(* snapshot of the database when it creates its replication slot, then     *)
(* streams the committed transactions, hands every row to the Kafka        *)
(* producer, and reports to Postgres how far the rows are durable in       *)
(* Kafka.  The process may fail at any step; it is then started again and  *)
(* finds out from the replication slot where to continue.                  *)
(*                                                                         *)
(* The n-th transaction of the database commits at LSN n, so an LSN is     *)
(* also the number of transactions below it; LSN 0 is InvalidXLogRecPtr.   *)
(* A transaction's xid is its commit number: the code only compares xids   *)
(* for equality and with 0, the xid of the snapshot.                       *)
(***************************************************************************)
EXTENDS Integers, FiniteSets

CONSTANTS
  MAX_IN_FLIGHT_TRANSACTIONS, \* slots of the circular buffer xact_list
  QueueMax,   \* messages librdkafka accepts before it answers QUEUE_FULL
  MaxRows,    \* bound: messages one transaction gives rise to
  MaxTxns,    \* bound: transactions the database commits
  MaxFaults,  \* bound: faults that befall the client
  Faults      \* the kinds of fault that may befall it

N == MAX_IN_FLIGHT_TRANSACTIONS

\* "crash": the process dies; "signal": SIGINT, SIGTERM or the end of the
\* stream; "error": a call fails and the client exits with status 1;
\* "delivery": Kafka reports a message as failed; "drop": the command that
\* drops the slot fails.
FaultKinds == {"crash", "signal", "error", "delivery", "drop"}

ASSUME RingAssumption == N \in Nat /\ N >= 2
ASSUME QueueAssumption == QueueMax \in Nat \ {0}
ASSUME BoundAssumption == MaxRows \in Nat /\ MaxTxns \in Nat \ {0} /\ MaxFaults \in Nat
ASSUME FaultAssumption == Faults \subseteq FaultKinds

VARIABLES
  \* The Postgres server
  wal_end,          \* the LSN of the last commit
  wal,              \* wal[t]: the number of rows transaction t writes
  slot_exists,      \* the replication slot is there,
  consistent_point, \*   the LSN at which it was created,
  confirmed_flush,  \*   and the LSN from which it resends after a restart
  cur, ev,          \* walsender: transaction last begun, its next event (0: none)
  from,             \* walsender: LSN after which it began to stream
  \* The Kafka broker, and librdkafka inside the client
  kafka,            \* rows durably written
  queued, acked,    \* envelopes enqueued; those with a delivery report waiting
  \* The client
  pc,               \* where it stands; "poll" is the loop of main
  sql_conn,         \* the snapshot connection is open
  snap,             \* snapshot rows it has not received yet
  taking_snapshot, start_lsn, fsync_lsn,
  received,         \* recvd_lsn # InvalidXLogRecPtr
  xact_list, xact_head, xact_tail,
  envelopes,        \* msg_envelopes allocated and not yet freed
  \* History
  base,             \* LSN below which earlier incarnations were responsible
  faults            \* faults so far

server  == <<wal_end, wal, slot_exists, consistent_point, confirmed_flush>>
slotv   == <<slot_exists, consistent_point, confirmed_flush>>
session == <<cur, ev, from, base>>
broker  == <<kafka, queued, acked>>
conns   == <<sql_conn, snap, start_lsn, received>>
ring    == <<xact_list, xact_head, xact_tail, envelopes>>
ckpt    == <<fsync_lsn, taking_snapshot>>
vars == <<wal_end, wal, slot_exists, consistent_point, confirmed_flush, cur, ev,
          from, kafka, queued, acked, pc, sql_conn, snap, taking_snapshot, start_lsn,
          fsync_lsn, received, xact_list, xact_head, xact_tail, envelopes,
          base, faults>>

Lsn  == 0 .. MaxTxns
Row  == (1 .. MaxTxns) \X (1 .. MaxRows)
Slot == 0 .. N - 1
Xact == [xid : Lsn, pending_events : Nat, commit_lsn : Lsn]
\* envelope->xact is a slot's address; txn names the transaction the slot
\* held when the envelope was made (history)
Envelope == [xact : Slot, txn : Lsn, row : Row]
Pc == {"down", "connect", "create", "snapshot_start", "poll", "produce",
       "begin", "stream_start"}

\* The rows of the transactions that commit after lo and no later than hi
RowsIn(lo, hi) == {r \in Row : lo < r[1] /\ r[1] <= hi /\ r[2] <= wal[r[1]]}

EmptyXact == [xid |-> 0, pending_events |-> 0, commit_lsn |-> 0]
-----------------------------------------------------------------------------
(* The circular buffer of transactions in flight *)

\* Variant: the wrap-around is forgotten
xact_list_full_unwrapped == xact_head + 1 = xact_tail

xact_list_full == (xact_head + 1) % N = xact_tail

\* Variant: delivery reports still to come are ignored
Complete_unreported(x) == x.commit_lsn > 0 \/ x.xid = 0

\* The loop condition of maybe_checkpoint
Complete(x) == x.pending_events = 0 /\ (x.commit_lsn > 0 \/ x.xid = 0)

\* Slots from the tail to the head: the slots of the transactions in flight
InFlight == (xact_head - xact_tail) % N
FromTail(j) == (xact_tail + j) % N

\* Variant: an if in place of the while, so that one call passes one slot
maybe_checkpoint_once(list) ==
  LET k == IF Complete(list[xact_tail]) THEN 1 ELSE 0
  IN  /\ fsync_lsn' = IF k = 0 THEN fsync_lsn ELSE list[xact_tail].commit_lsn
      /\ xact_tail' = IF k <= InFlight THEN FromTail(k) ELSE xact_head
      /\ taking_snapshot' =
           (taking_snapshot /\ ~ (k = 1 /\ list[xact_tail].xid = 0
                                        /\ list[xact_tail].commit_lsn > 0))

\* Variant: the flag is cleared as soon as the snapshot's slot looks idle
maybe_checkpoint_flag(list) ==
  LET k == IF Complete(list[xact_tail]) THEN 1 ELSE 0
  IN  /\ fsync_lsn' = IF k = 0 THEN fsync_lsn ELSE list[xact_tail].commit_lsn
      /\ xact_tail' = IF k <= InFlight THEN FromTail(k) ELSE xact_head
      /\ taking_snapshot' = (taking_snapshot /\ ~ (k = 1 /\ list[xact_tail].xid = 0))

\* The loop of maybe_checkpoint over the buffer list: k complete slots are
\* passed, and the loop ends at the first slot that is not or at the head,
\* where the tail stays.
maybe_checkpoint(list) ==
  \E k \in 0 .. InFlight + 1 :
    /\ \A j \in 0 .. k - 1 : Complete(list[FromTail(j)])
    /\ k <= InFlight => ~ Complete(list[FromTail(k)])
    /\ fsync_lsn' = IF k = 0 THEN fsync_lsn ELSE list[FromTail(k - 1)].commit_lsn
    /\ xact_tail' = IF k <= InFlight THEN FromTail(k) ELSE xact_head
    /\ taking_snapshot' =
         (taking_snapshot /\ \A j \in 0 .. k - 1 :
            ~ (list[FromTail(j)].xid = 0 /\ list[FromTail(j)].commit_lsn > 0))
-----------------------------------------------------------------------------
(* Where the client stands *)

\* START_REPLICATION has put the replication connection in COPY BOTH mode
CopyBoth == pc \in {"poll", "produce", "begin"} /\ ~ sql_conn

QueueFull == Cardinality(queued \cup acked) >= QueueMax

\* rd_kafka_poll is called by the loop of main, and by backpressure while the
\* buffer of transactions or the producer's queue is full
Polling == \/ pc = "poll"
           \/ pc = "begin" /\ xact_list_full
           \/ pc = "produce" /\ QueueFull

InitClient ==
  /\ pc = "down" /\ sql_conn = FALSE /\ snap = {} /\ taking_snapshot = FALSE
  /\ start_lsn = 0 /\ fsync_lsn = 0 /\ received = FALSE
  /\ xact_list = [s \in Slot |-> EmptyXact] /\ xact_head = 0 /\ xact_tail = 0
  /\ envelopes = {} /\ queued = {} /\ acked = {}
  /\ cur = 0 /\ ev = 0 /\ from = 0 /\ base = 0

\* The database has committed something before the client first starts
Init ==
  /\ wal_end = 1
  /\ \E n \in 0 .. MaxRows : wal = [t \in 1 .. MaxTxns |-> IF t = 1 THEN n ELSE 0]
  /\ slot_exists = FALSE /\ consistent_point = 0 /\ confirmed_flush = 0
  /\ kafka = {} /\ faults = 0
  /\ InitClient

\* The process is gone: its memory, its connections and its producer queue
Gone ==
  /\ pc' = "down" /\ sql_conn' = FALSE /\ snap' = {} /\ taking_snapshot' = FALSE
  /\ start_lsn' = 0 /\ fsync_lsn' = 0 /\ received' = FALSE
  /\ xact_list' = [s \in Slot |-> EmptyXact] /\ xact_head' = 0 /\ xact_tail' = 0
  /\ envelopes' = {} /\ queued' = {} /\ acked' = {}
  /\ cur' = 0 /\ ev' = 0 /\ from' = 0 /\ base' = 0
-----------------------------------------------------------------------------
(* The database and the broker *)

CommitTxn(n) ==
  /\ wal_end < MaxTxns
  /\ wal_end' = wal_end + 1
  /\ wal' = [wal EXCEPT ![wal_end + 1] = n]
  /\ UNCHANGED <<slotv, session, broker, conns, ring, ckpt, pc, faults>>

\* The broker writes the message; its delivery report waits to be polled
BrokerAck(e) ==
  /\ e \in queued
  /\ queued' = queued \ {e}
  /\ acked' = acked \cup {e}
  /\ kafka' = kafka \cup {e.row}
  /\ UNCHANGED <<server, session, conns, ring, ckpt, pc, faults>>
-----------------------------------------------------------------------------
(* Starting up: db_client_start *)

Start ==
  /\ pc = "down"
  /\ pc' = "connect"
  /\ UNCHANGED <<server, session, broker, conns, ring, ckpt, faults>>

\* An existing slot is streamed from its restart_lsn, which the server keeps
\* at or below confirmed_flush; here it is as old as the slot.
replication_slot_exists ==
  /\ pc = "connect"
  /\ \/ /\ slot_exists
        /\ start_lsn' = consistent_point
        /\ pc' = "stream_start"
        /\ UNCHANGED <<sql_conn, taking_snapshot>>
     \/ /\ ~ slot_exists
        /\ taking_snapshot' = TRUE
        /\ sql_conn' = TRUE
        /\ pc' = "create"
        /\ UNCHANGED start_lsn
  /\ UNCHANGED <<server, session, broker, snap, received, ring, fsync_lsn, faults>>

replication_slot_create ==
  /\ pc = "create"
  /\ slot_exists' = TRUE
  /\ consistent_point' = wal_end
  /\ confirmed_flush' = wal_end
  /\ start_lsn' = wal_end
  /\ from' = wal_end
  /\ cur' = wal_end
  /\ pc' = "snapshot_start"
  /\ UNCHANGED <<wal_end, wal, ev, base, broker, sql_conn, snap, received, ring, ckpt, faults>>

\* The query of the exported snapshot is sent and on_begin_txn is called with
\* xid 0, which insists on an unused buffer.
snapshot_start ==
  /\ pc = "snapshot_start"
  /\ xact_head = 0 /\ xact_tail = 0
  /\ snap' = RowsIn(0, start_lsn)
  /\ pc' = "poll"
  /\ UNCHANGED <<server, session, broker, sql_conn, start_lsn, received, ring, ckpt, faults>>

\* The server streams what committed after the later of the position asked
\* for and confirmed_flush.  An incarnation that took no snapshot answers only
\* for what follows.
replication_stream_start ==
  /\ pc = "stream_start"
  /\ from' = IF start_lsn > confirmed_flush THEN start_lsn ELSE confirmed_flush
  /\ cur' = from'
  /\ base' = IF from = 0 THEN from' ELSE base
  /\ pc' = "poll"
  /\ UNCHANGED <<server, ev, broker, conns, ring, ckpt, faults>>
-----------------------------------------------------------------------------
(* Rows, from the snapshot or from the stream *)

\* Variant: the message is not counted
send_kafka_msg_uncounted(row) ==
  /\ envelopes' = envelopes \cup
       {[xact |-> xact_head, txn |-> xact_list[xact_head].xid, row |-> row]}
  /\ pc' = "produce"
  /\ UNCHANGED <<xact_list, xact_head, xact_tail>>

\* send_kafka_msg up to its loop: the row is counted in the slot at the head
\* before the producer sees it
send_kafka_msg(row) ==
  /\ envelopes' = envelopes \cup
       {[xact |-> xact_head, txn |-> xact_list[xact_head].xid, row |-> row]}
  /\ xact_list' = [xact_list EXCEPT ![xact_head].pending_events = @ + 1]
  /\ pc' = "produce"
  /\ UNCHANGED <<xact_head, xact_tail>>

\* The loop of send_kafka_msg, once the producer takes the message
rd_kafka_produce ==
  /\ pc = "produce" /\ ~ QueueFull
  /\ queued' = envelopes \ acked
  /\ pc' = "poll"
  /\ UNCHANGED <<server, session, kafka, acked, conns, ring, ckpt, faults>>

snapshot_tuple(row) ==
  /\ pc = "poll" /\ sql_conn
  /\ row \in snap
  /\ snap' = snap \ {row}
  /\ send_kafka_msg(row)
  /\ UNCHANGED <<server, session, broker, sql_conn, start_lsn, received, ckpt, faults>>

\* Variant: the frame that ends a transaction is taken for one more row
on_insert_row_extra ==
  /\ pc = "poll" /\ ~ sql_conn
  /\ ev > 0 /\ ev <= wal[cur] + 1 /\ ev <= MaxRows
  /\ ev' = ev + 1
  /\ received' = TRUE
  /\ send_kafka_msg(<<cur, ev>>)
  /\ UNCHANGED <<server, cur, from, base, broker, sql_conn, snap, start_lsn, ckpt, faults>>

on_insert_row ==
  /\ pc = "poll" /\ ~ sql_conn
  /\ ev > 0 /\ ev <= wal[cur]
  /\ ev' = ev + 1
  /\ received' = TRUE
  /\ send_kafka_msg(<<cur, ev>>)
  /\ UNCHANGED <<server, cur, from, base, broker, sql_conn, snap, start_lsn, ckpt, faults>>
-----------------------------------------------------------------------------
(* Transactions *)

\* The begin frame is read; on_begin_txn waits while the buffer is full
recv_begin ==
  /\ pc = "poll" /\ ~ sql_conn
  /\ ev = 0 /\ cur < wal_end
  /\ pc' = "begin"
  /\ UNCHANGED <<server, session, broker, conns, ring, ckpt, faults>>

\* Variant: the slot keeps the commit position of its former transaction
on_begin_txn_stale_lsn ==
  /\ pc = "begin" /\ ~ xact_list_full
  /\ cur' = cur + 1
  /\ ev' = 1
  /\ received' = TRUE
  /\ xact_head' = (xact_head + 1) % N
  /\ xact_list' = [xact_list EXCEPT ![(xact_head + 1) % N].xid = cur + 1,
                                    ![(xact_head + 1) % N].pending_events = 0]
  /\ pc' = "poll"
  /\ UNCHANGED <<server, from, base, broker, sql_conn, snap, start_lsn,
                 xact_tail, envelopes, ckpt, faults>>

\* Variant: the slot keeps the xid of its former transaction
on_begin_txn_stale_xid ==
  /\ pc = "begin" /\ ~ xact_list_full
  /\ cur' = cur + 1
  /\ ev' = 1
  /\ received' = TRUE
  /\ xact_head' = (xact_head + 1) % N
  /\ xact_list' = [xact_list EXCEPT ![(xact_head + 1) % N].pending_events = 0,
                                    ![(xact_head + 1) % N].commit_lsn = 0]
  /\ pc' = "poll"
  /\ UNCHANGED <<server, from, base, broker, sql_conn, snap, start_lsn,
                 xact_tail, envelopes, ckpt, faults>>

on_begin_txn ==
  /\ pc = "begin" /\ ~ xact_list_full
  /\ cur' = cur + 1
  /\ ev' = 1
  /\ received' = TRUE
  /\ xact_head' = (xact_head + 1) % N
  /\ xact_list' = [xact_list EXCEPT ![(xact_head + 1) % N] =
                     [xid |-> cur + 1, pending_events |-> 0, commit_lsn |-> 0]]
  /\ pc' = "poll"
  /\ UNCHANGED <<server, from, base, broker, sql_conn, snap, start_lsn,
                 xact_tail, envelopes, ckpt, faults>>

\* Variant: only delivery reports move the checkpoint
on_commit_txn_quiet(wal_pos, xid) ==
  /\ xid = xact_list[xact_head].xid
  /\ xact_list' = [xact_list EXCEPT ![xact_head].commit_lsn = wal_pos]
  /\ UNCHANGED <<xact_head, xact_tail, envelopes, ckpt>>

on_commit_txn(wal_pos, xid) ==
  /\ xid = xact_list[xact_head].xid
  /\ xact_list' = [xact_list EXCEPT ![xact_head].commit_lsn = wal_pos]
  /\ maybe_checkpoint(xact_list')
  /\ UNCHANGED <<xact_head, envelopes>>

recv_commit ==
  /\ pc = "poll" /\ ~ sql_conn
  /\ ev > 0 /\ ev = wal[cur] + 1
  /\ ev' = 0
  /\ received' = TRUE
  /\ on_commit_txn(cur, cur)
  /\ UNCHANGED <<server, cur, from, base, broker, sql_conn, snap, start_lsn, pc, faults>>

\* snapshot_poll finds no more rows
snapshot_end ==
  /\ pc = "poll" /\ sql_conn
  /\ snap = {}
  /\ sql_conn' = FALSE
  /\ on_commit_txn(start_lsn, 0)
  /\ pc' = "stream_start"
  /\ UNCHANGED <<server, session, broker, snap, start_lsn, received, faults>>
-----------------------------------------------------------------------------
(* Checkpoints *)

\* Variant: the report is credited to the transaction being received
on_deliver_msg_head(e) ==
  /\ Polling
  /\ e \in acked
  /\ acked' = acked \ {e}
  /\ envelopes' = envelopes \ {e}
  /\ xact_list' = [xact_list EXCEPT ![xact_head].pending_events = @ - 1]
  /\ maybe_checkpoint(xact_list')
  /\ UNCHANGED <<server, session, kafka, queued, conns, xact_head, pc, faults>>

\* Variant: no reports are served while a begin waits for a slot
on_deliver_msg_begin(e) ==
  /\ Polling /\ pc # "begin"
  /\ e \in acked
  /\ acked' = acked \ {e}
  /\ envelopes' = envelopes \ {e}
  /\ xact_list' = [xact_list EXCEPT ![e.xact].pending_events = @ - 1]
  /\ maybe_checkpoint(xact_list')
  /\ UNCHANGED <<server, session, kafka, queued, conns, xact_head, pc, faults>>

\* A delivery report of success
on_deliver_msg(e) ==
  /\ Polling
  /\ e \in acked
  /\ acked' = acked \ {e}
  /\ envelopes' = envelopes \ {e}
  /\ xact_list' = [xact_list EXCEPT ![e.xact].pending_events = @ - 1]
  /\ maybe_checkpoint(xact_list')
  /\ UNCHANGED <<server, session, kafka, queued, conns, xact_head, pc, faults>>

\* Variant: the position received is reported as the position made durable
send_checkpoint_received ==
  /\ confirmed_flush' = cur
  /\ UNCHANGED <<wal_end, wal, slot_exists, consistent_point, session, broker, sql_conn,
                 snap, start_lsn, ring, ckpt, pc, faults>>

\* The standby status update: the server takes the flush position it carries,
\* unless that is InvalidXLogRecPtr.  An update is as good as applied when it
\* is sent: the slot is next read when a later walsender starts.
send_checkpoint ==
  /\ confirmed_flush' = IF fsync_lsn # 0 THEN fsync_lsn ELSE confirmed_flush
  /\ UNCHANGED <<wal_end, wal, slot_exists, consistent_point, session, broker, sql_conn,
                 snap, start_lsn, ring, ckpt, pc, faults>>

\* Every CHECKPOINT_INTERVAL_SEC, from the main loop and from backpressure
replication_stream_keepalive ==
  /\ Polling
  /\ received
  /\ send_checkpoint
  /\ UNCHANGED received

\* A keepalive message from the server, which may ask for an answer
parse_keepalive_message(reply_requested) ==
  /\ pc = "poll" /\ ~ sql_conn
  /\ received' = TRUE
  /\ IF reply_requested
       THEN send_checkpoint
       ELSE UNCHANGED <<server, session, broker, sql_conn, snap, start_lsn, ring, ckpt,
                        pc, faults>>
-----------------------------------------------------------------------------
(* Faults and exits *)

Fault(kind) ==
  /\ kind \in Faults
  /\ faults < MaxFaults
  /\ faults' = faults + 1
  /\ UNCHANGED <<wal_end, wal>>

\* With an error status, a client still taking its snapshot tries to drop the
\* slot.  libpq refuses the command on a connection in COPY BOTH mode.
exit_nicely(status) ==
  LET droppable == taking_snapshot /\ status # 0 /\ slot_exists /\ ~ CopyBoth
  IN  /\ Gone
      /\ \/ /\ droppable
            /\ slot_exists' = FALSE /\ consistent_point' = 0 /\ confirmed_flush' = 0
         \/ /\ droppable => "drop" \in Faults
            /\ UNCHANGED slotv

\* A delivery report of failure; the broker may have the message all the same
delivery_failed(e) ==
  /\ Polling
  /\ e \in queued
  /\ Fault("delivery")
  /\ kafka' \in {kafka, kafka \cup {e.row}}
  /\ exit_nicely(1)

\* Seen by the loop of main and by backpressure
shutdown_signal ==
  /\ Polling
  /\ Fault("signal")
  /\ UNCHANGED kafka
  /\ exit_nicely(0)

\* A call to Postgres, to Kafka, to the schema registry or to a decoder fails
ensure_fails ==
  /\ pc # "down"
  /\ Fault("error")
  /\ UNCHANGED kafka
  /\ exit_nicely(1)

Crash ==
  /\ pc # "down"
  /\ Fault("crash")
  /\ UNCHANGED <<kafka, slotv>>
  /\ Gone
-----------------------------------------------------------------------------
Startup == \/ Start \/ replication_slot_exists \/ replication_slot_create
           \/ snapshot_start \/ replication_stream_start

Receive == \/ \E row \in snap : snapshot_tuple(row)
           \/ snapshot_end \/ recv_begin \/ on_insert_row \/ recv_commit

Deliver == \E e \in acked : on_deliver_msg(e)

Failure == \/ \E e \in queued : delivery_failed(e)
           \/ shutdown_signal \/ ensure_fails \/ Crash

Next == \/ \E n \in 0 .. MaxRows : CommitTxn(n)
        \/ \E e \in queued : BrokerAck(e)
        \/ Startup \/ Receive \/ rd_kafka_produce \/ on_begin_txn \/ Deliver
        \/ replication_stream_keepalive
        \/ \E reply \in BOOLEAN : parse_keepalive_message(reply)
        \/ Failure

Spec == Init /\ [][Next]_vars

\* main loops over db_client_poll, rd_kafka_poll and the keepalive timer and
\* never skips one of them; the supervisor restarts the process; the broker
\* answers.  The database need not commit and faults need not happen.
Fairness ==
  /\ WF_vars(Startup)
  /\ WF_vars(Receive)
  /\ WF_vars(rd_kafka_produce)
  /\ WF_vars(on_begin_txn)
  /\ WF_vars(Deliver)
  /\ WF_vars(replication_stream_keepalive)
  /\ WF_vars(\E e \in queued : BrokerAck(e))

FairSpec == Spec /\ Fairness
-----------------------------------------------------------------------------
(* Properties *)

\* The types of all variables.
TypeOK ==
  /\ wal_end \in 1 .. MaxTxns /\ wal \in [1 .. MaxTxns -> 0 .. MaxRows]
  /\ slot_exists \in BOOLEAN /\ consistent_point \in Lsn /\ confirmed_flush \in Lsn
  /\ cur \in Lsn /\ ev \in 0 .. MaxRows + 1 /\ from \in Lsn /\ base \in Lsn
  /\ kafka \subseteq Row
  /\ envelopes \subseteq Envelope /\ queued \subseteq envelopes /\ acked \subseteq envelopes
  /\ pc \in Pc /\ sql_conn \in BOOLEAN /\ snap \subseteq Row
  /\ taking_snapshot \in BOOLEAN /\ received \in BOOLEAN
  /\ start_lsn \in Lsn /\ fsync_lsn \in Lsn
  /\ xact_list \in [Slot -> Xact] /\ xact_head \in Slot /\ xact_tail \in Slot
  /\ faults \in 0 .. MaxFaults

\* What the slot remembers is durable: every row of a transaction that
\* committed after the slot was created, and that the server would not send
\* again to a restarted client, is in Kafka.  Holds across crashes, error
\* exits and restarts (maybe_checkpoint, send_checkpoint).
ConfirmedDelivered ==
  slot_exists => RowsIn(consistent_point, confirmed_flush) \subseteq kafka

\* The position the client is about to report covers only rows that Kafka
\* has acknowledged, counting the snapshot's rows if this process took it.
CheckpointDelivered == RowsIn(base, fsync_lsn) \subseteq kafka

\* The flag that makes an error exit drop the slot is only cleared once the
\* whole snapshot is in Kafka (maybe_checkpoint, xid 0).
SnapshotFlag == (base = 0 /\ ~ taking_snapshot) => RowsIn(0, from) \subseteq kafka

\* An envelope's xact pointer still points at the transaction it was made for:
\* the slot is not recycled while a delivery report is outstanding, so
\* on_deliver_msg decrements the right counter.
SlotNotReused == \A e \in envelopes : xact_list[e.xact].xid = e.txn

\* pending_events counts the messages of the slot that are not yet reported.
PendingExact ==
  \A s \in Slot :
    xact_list[s].pending_events = Cardinality({e \in envelopes : e.xact = s})

\* The two consistency checks of the callbacks never fail: a commit always
\* meets the transaction at the head, and the snapshot comes first.
NoProtocolError ==
  /\ CopyBoth /\ ev > 0 => xact_list[xact_head].xid = cur
  /\ sql_conn => xact_head = 0 /\ xact_tail = 0 /\ xact_list[0].xid = 0

\* When on_begin_txn finds the buffer full, the transaction at the tail waits
\* for Kafka; it is not a finished one that nobody will check again.
FullWaitsForKafka ==
  pc = "begin" /\ xact_list_full => xact_list[xact_tail].pending_events > 0

\* The slot's position never moves back while the slot exists, in one
\* incarnation or from one to the next ("Commits not in WAL order").
ConfirmedMonotone ==
  [][slot_exists /\ slot_exists' => confirmed_flush <= confirmed_flush']_vars

\* After a restart no committed row is lost: what the server will not send
\* again is in Kafka (the comment in maybe_checkpoint).
NoDataLost ==
  pc = "down" /\ slot_exists => RowsIn(0, confirmed_flush) \subseteq kafka

\* The client keeps the promise of AtLeastOnce: whatever faults it meets, it
\* publishes committed rows only, and what the slot will not resend is
\* published (refinement; the rest of its state is hidden).
Promise == INSTANCE AtLeastOnce WITH
  log_end <- wal_end, log <- wal, published <- kafka,
  reserved <- slot_exists, floor <- consistent_point, position <- confirmed_flush
KeepsPromise == Promise!Spec

\* Backpressure ends: a blocked client gets on, once the broker answers.
BackpressureEnds ==
  pc \in {"begin", "produce"} ~> pc \notin {"begin", "produce"}

\* Every committed transaction is eventually confirmed to Postgres, whatever
\* finite number of faults the client meets.
EventuallyConfirmed ==
  \A t \in 1 .. MaxTxns :
    wal_end >= t ~> (slot_exists /\ confirmed_flush >= t)
=============================================================================
