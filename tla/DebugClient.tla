---------------------------- MODULE DebugClient ----------------------------
(***************************************************************************)
(* The debug client (client/bwtest.c): it looks for its replication slot,  *)
(* creates it and prints a snapshot if there is none, then prints every    *)
(* frame of the stream and moves its checkpoint, for every frame, to the   *)
(* position the frame came with.  Unlike in module BottledWater the log    *)
(* holds the single records of transactions that run at the same time:     *)
(* record k is at position k, the decoder sends a transaction when it      *)
(* meets its commit record, and the positions of the frames sent go back   *)
(* and forth.                                                              *)
(***************************************************************************)
EXTENDS Integers, FiniteSets

CONSTANTS
  Txns,
  MaxRows,  \* bound: rows of one transaction
  MaxFaults \* bound: errors and deaths of clients

ASSUME DebugAssumption == MaxRows \in Nat /\ MaxFaults \in Nat

VARIABLES
  last,            \* the position of the last record of the log
  wal,             \* wal[k]: the record at position k, [txn, commit]
  slot,            \* TRUE if the replication slot exists
  confirmed_flush, \* the position the slot remembers
  pc,              \* "off", "create", "snapshot", "start", "stream" or "failed"
  taking_snapshot,
  todo,            \* the rows of the slot's snapshot that are not printed yet
  faults,
  start_at,        \* the position streaming was started at
  decoded,         \* the decoder has read this many records
  frames,          \* the frames on the way to the client
  fsync_lsn,
  printed,         \* history: the records printed by some client
  orphan           \* history: the slot was left behind without its snapshot

server == <<last, wal, slot, confirmed_flush>>
client == <<pc, taking_snapshot, todo, faults>>
stream == <<start_at, decoded, frames, fsync_lsn>>
history == <<printed, orphan>>
vars == <<server, client, stream, history>>

Init ==
  /\ last = 0 /\ wal \in [1..last -> [txn : Txns, commit : BOOLEAN]] /\ slot = FALSE /\ confirmed_flush = 0
  /\ pc = "off" /\ taking_snapshot = FALSE /\ todo = {} /\ faults = 0
  /\ start_at = 0 /\ decoded = 0 /\ frames = {} /\ fsync_lsn = 0
  /\ printed = {} /\ orphan = FALSE

Of(t) == {k \in 1..last : wal[k].txn = t}
Committed(t) == \E k \in Of(t) : wal[k].commit
RowsOf(t) == {k \in Of(t) : ~ wal[k].commit}

\* A transaction changes a row, or commits
Write(t, commit) ==
  /\ ~ Committed(t)
  /\ commit \/ Cardinality(RowsOf(t)) < MaxRows
  /\ last' = last + 1
  /\ wal' = [k \in 1..last' |-> IF k = last' THEN [txn |-> t, commit |-> commit] ELSE wal[k]]
  /\ UNCHANGED <<slot, confirmed_flush, client, stream, history>>
-----------------------------------------------------------------------------
(* The slot and the snapshot *)

\* A new process connects and looks for the slot
db_client_start ==
  /\ pc = "off"
  /\ pc' = IF slot THEN "start" ELSE "create"
  /\ taking_snapshot' = ~ slot
  /\ decoded' = 0 /\ frames' = {} /\ fsync_lsn' = 0
  /\ UNCHANGED <<server, todo, faults, start_at, history>>

\* The server creates the slot: what is committed is in the snapshot, what
\* commits later will be in the stream
NewSlot ==
  /\ slot' = TRUE /\ confirmed_flush' = last + 1
  /\ todo' = UNION {RowsOf(t) : t \in {u \in Txns : Committed(u)}}
  /\ orphan' = FALSE

\* Variant: the flag is only set once the slot has been created
replication_slot_create_flag(understood) ==
  /\ pc = "create"
  /\ ~ understood => faults < MaxFaults
  /\ NewSlot
  /\ pc' = IF understood THEN "snapshot" ELSE "failed"
  /\ faults' = IF understood THEN faults ELSE faults + 1
  /\ taking_snapshot' = understood
  /\ UNCHANGED <<last, wal, stream, printed>>

\* The answer may be one the client does not understand
replication_slot_create(understood) ==
  /\ pc = "create"
  /\ ~ understood => faults < MaxFaults
  /\ NewSlot
  /\ pc' = IF understood THEN "snapshot" ELSE "failed"
  /\ faults' = IF understood THEN faults ELSE faults + 1
  /\ UNCHANGED <<last, wal, taking_snapshot, stream, printed>>

\* print_insert_row; the position is 0 and moves no checkpoint
snapshot_tuple(k) ==
  /\ pc = "snapshot" /\ k \in todo
  /\ todo' = todo \ {k}
  /\ printed' = printed \cup {k}
  /\ UNCHANGED <<server, pc, taking_snapshot, faults, stream, orphan>>

\* Variant: the end of a snapshot without rows goes unnoticed
snapshot_end_rows ==
  /\ pc = "snapshot" /\ todo = {} /\ printed # {}
  /\ pc' = "start"
  /\ taking_snapshot' = FALSE
  /\ UNCHANGED <<server, todo, faults, stream, printed, orphan>>

\* No more rows: print_commit_txn with xid 0
snapshot_end ==
  /\ pc = "snapshot" /\ todo = {}
  /\ pc' = "start"
  /\ taking_snapshot' = FALSE
  /\ UNCHANGED <<server, todo, faults, stream, printed, orphan>>

\* START_REPLICATION: the server skips what the slot has confirmed
replication_stream_start ==
  /\ pc = "start"
  /\ pc' = "stream"
  /\ start_at' = confirmed_flush
  /\ UNCHANGED <<server, taking_snapshot, todo, faults, decoded, frames, fsync_lsn, history>>

\* A call that ensure() checks returns an error
fail ==
  /\ pc \in {"create", "snapshot", "start", "stream"} /\ faults < MaxFaults
  /\ pc' = "failed"
  /\ faults' = faults + 1
  /\ UNCHANGED <<server, taking_snapshot, todo, stream, history>>

\* The slot is left to the next client, which will take no snapshot
Leave ==
  /\ UNCHANGED slot
  /\ todo' = {}
  /\ orphan' = (orphan \/ (slot /\ taking_snapshot))

\* The slot is dropped if the snapshot did not complete, and the connection works
exit_nicely ==
  /\ pc = "failed"
  /\ pc' = "off"
  /\ \/ taking_snapshot /\ slot' = FALSE /\ todo' = {} /\ UNCHANGED orphan
     \/ Leave
  /\ UNCHANGED <<last, wal, confirmed_flush, taking_snapshot, faults, stream, printed>>

\* "TODO install signal handler for graceful shutdown": a signal is a crash
Crash ==
  /\ pc # "off" /\ faults < MaxFaults
  /\ pc' = "off" /\ faults' = faults + 1
  /\ Leave
  /\ UNCHANGED <<last, wal, confirmed_flush, taking_snapshot, stream, printed>>
-----------------------------------------------------------------------------
(* The stream *)

\* The frames of transaction t, committed by record k: begin with the position
\* of its first record, its rows with theirs, commit with the position behind it
FramesOf(t, k) ==
  LET ks == {i \in Of(t) : i <= k}
      frame(kind, i, wal_pos) == [commit |-> k, kind |-> kind, rec |-> i, wal_pos |-> wal_pos]
  IN  {frame("begin", 0, i) : i \in {i \in ks : \A j \in ks : i <= j}}
      \cup {frame("row", i, i) : i \in ks \ {k}}
      \cup {frame("commit", k, k + 1)}

\* The order in which the frames are sent
Before(f, g) ==
  \/ f.commit < g.commit
  \/ f.commit = g.commit /\ (f.kind = "begin" \/ f.wal_pos < g.wal_pos)

\* The decoder reads a record; a commit it need not skip makes it send
Decode ==
  LET k == decoded + 1 IN
  /\ pc = "stream" /\ decoded < last
  /\ decoded' = k
  /\ frames' = IF wal[k].commit /\ k >= start_at
                 THEN frames \cup FramesOf(wal[k].txn, k) ELSE frames
  /\ UNCHANGED <<server, client, start_at, fsync_lsn, history>>

checkpoint(wal_pos) == fsync_lsn' = IF wal_pos > fsync_lsn THEN wal_pos ELSE fsync_lsn

\* print_begin_txn, print_insert_row, print_update_row, print_delete_row and
\* print_commit_txn: the frame is printed, then its position noted
print_frame(f) ==
  /\ pc = "stream" /\ f \in frames /\ \A g \in frames \ {f} : Before(f, g)
  /\ printed' = printed \cup ({f.rec} \ {0})
  /\ checkpoint(f.wal_pos)
  /\ frames' = frames \ {f}
  /\ UNCHANGED <<server, client, start_at, decoded, orphan>>

\* The status update: a position that is 0 says nothing, any other one is taken,
\* one behind the slot's too
replication_stream_keepalive ==
  /\ pc = "stream" /\ fsync_lsn \notin {0, confirmed_flush}
  /\ confirmed_flush' = fsync_lsn
  /\ UNCHANGED <<last, wal, slot, client, stream, history>>

Client ==
  \/ db_client_start \/ replication_slot_create(TRUE) \/ snapshot_end
  \/ \E k \in todo : snapshot_tuple(k)
  \/ replication_stream_start \/ exit_nicely \/ Decode
  \/ \E f \in frames : print_frame(f)

Next == \/ \E t \in Txns, commit \in BOOLEAN : Write(t, commit)
        \/ Client \/ replication_slot_create(FALSE) \/ replication_stream_keepalive
        \/ fail \/ Crash

Spec == Init /\ [][Next]_vars

\* The user starts the client again; server and client go on
FairSpec == Spec /\ WF_vars(Client)
-----------------------------------------------------------------------------
(* Properties *)

\* The position the slot remembers, though moved there in the middle of
\* transactions, never makes the server skip a transaction of which a row is
\* still to be printed, in the stream or in the slot's snapshot; the exception is
\* a slot left behind by a client that was killed, or could not drop it, before
\* its snapshot was complete (checkpoint, taking_snapshot, exit_nicely).
SkippedIsPrinted ==
  slot /\ ~ orphan =>
    \A k \in 1..last : wal[k].commit /\ k < confirmed_flush =>
      RowsOf(wal[k].txn) \subseteq printed \cup todo

\* The rows of every committed transaction are printed sooner or later, from the
\* snapshot or from the stream, across any errors and deaths, unless a slot was
\* left behind without its snapshot.
EventuallyPrinted == \A t \in Txns : Committed(t) ~> (RowsOf(t) \subseteq printed \/ orphan)
=============================================================================
