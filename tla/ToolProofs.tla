----------------------------- MODULE ToolProofs -----------------------------
(***************************************************************************)
(* Proofs about the tools around the pipeline.  Module DebugClient, the    *)
(* client that prints the stream: for any number of transactions, rows and *)
(* faults.  Module PropertyEditor, which edits a server's properties: for  *)
(* any containers, environments, files and number of crashes.              *)
(***************************************************************************)
EXTENDS DebugClient, PropertyEditor, TLAPS

Frame == [commit : Nat, kind : {"begin", "row", "commit"}, rec : Nat, wal_pos : Nat]

Types ==
  /\ last \in Nat /\ wal \in [1..last -> [txn : Txns, commit : BOOLEAN]]
  /\ slot \in BOOLEAN /\ confirmed_flush \in Nat
  /\ pc \in {"off", "create", "snapshot", "start", "stream", "failed"}
  /\ taking_snapshot \in BOOLEAN /\ orphan \in BOOLEAN
  /\ start_at \in Nat /\ decoded \in Nat /\ fsync_lsn \in Nat
  /\ frames \subseteq Frame

\* A transaction has no records behind its commit
Closed == \A k \in 1..last : wal[k].commit => \A i \in Of(wal[k].txn) : i <= k

\* Where the client is: whoever has rows of a snapshot before them knows it
Phases ==
  /\ pc \in {"create", "snapshot"} => taking_snapshot
  /\ todo # {} => taking_snapshot /\ pc \in {"snapshot", "failed"}
  /\ pc \in {"create", "snapshot", "start"} => decoded = 0 /\ frames = {} /\ fsync_lsn = 0
  /\ pc = "stream" => decoded <= last /\ start_at <= last + 1
  /\ confirmed_flush <= last + 1

\* The frames on their way, and the position noted for those that have arrived:
\* it is not behind a commit of which a frame is still to come
Stream ==
  /\ fsync_lsn <= decoded + 1
  /\ \A f \in frames : f.commit <= decoded /\ f.wal_pos <= f.commit + 1 /\ fsync_lsn <= f.commit
                       /\ (f.kind = "begin" => f.wal_pos <= f.commit)
  /\ \A k \in 1..decoded : wal[k].commit /\ k >= start_at =>
       \A i \in RowsOf(wal[k].txn) : i \in printed \/ \E f \in frames : f.commit = k /\ f.rec = i

\* The slot may go back behind the position where the stream has started, and
\* forward again: it does not matter to what was skipped at the start
Started ==
  pc = "stream" /\ slot /\ ~ orphan =>
    \A k \in 1..last : wal[k].commit /\ k < start_at =>
      RowsOf(wal[k].txn) \subseteq printed \cup todo

\* The inductive invariant
IInv == Types /\ Closed /\ Phases /\ (pc = "stream" => Stream) /\ Started /\ SkippedIsPrinted
-----------------------------------------------------------------------------
\* Nothing is written yet.
LEMMA InitIInv == Init => IInv
<1>. SUFFICES ASSUME Init PROVE IInv
  OBVIOUS
<1>1. Types
  BY Zenon DEF Init, Types
<1>2. Closed /\ Phases /\ Started /\ SkippedIsPrinted
  BY DEF Init, Closed, Phases, Started, SkippedIsPrinted
<1>. QED
  BY <1>1, <1>2 DEF IInv, Init

\* A record is written: no committed transaction gets another one.
LEMMA WriteStep ==
  ASSUME IInv, NEW t \in Txns, NEW commit \in BOOLEAN, Write(t, commit)
  PROVE  IInv'
<1>. DEFINE r == [txn |-> t, commit |-> commit]
<1>1. /\ ~ Committed(t) /\ last' = last + 1
      /\ wal' = [k \in 1..(last + 1) |-> IF k = last + 1 THEN r ELSE wal[k]]
      /\ UNCHANGED <<slot, confirmed_flush, pc, taking_snapshot, todo, start_at, decoded, frames,
                     fsync_lsn, printed, orphan>>
  BY DEF Write, client, stream, history
<1>2. last \in Nat
  BY DEF IInv, Types
<1>3. /\ \A k \in 1..last : wal'[k] = wal[k] /\ wal[k] \in [txn : Txns, commit : BOOLEAN]
      /\ wal'[last + 1] = r /\ r.txn = t /\ r.commit = commit
  BY <1>1, <1>2 DEF IInv, Types
<1>4. Types'
  <2>1. r \in [txn : Txns, commit : BOOLEAN]
    OBVIOUS
  <2>. QED
    BY <1>1, <1>2, <1>3, <2>1 DEF IInv, Types
<1>. HIDE DEF r
<1>5. ASSUME NEW k \in 1..last, wal[k].commit
      PROVE  /\ wal[k].txn # t /\ Of(wal[k].txn)' = Of(wal[k].txn)
             /\ RowsOf(wal[k].txn)' = RowsOf(wal[k].txn)
  <2>1. wal[k].txn # t
    BY <1>1, <1>5 DEF Committed, Of
  <2>2. 1..last' = 1..last \cup {last + 1}
    BY <1>1, <1>2
  <2>3. wal'[k].txn = wal[k].txn
    BY <1>3
  <2>4. Of(wal[k].txn)' = Of(wal[k].txn)
    BY <1>3, <2>1, <2>2, <2>3 DEF Of
  <2>5. Of(wal[k].txn) \subseteq 1..last
    BY Zenon DEF Of
  <2>. QED
    BY <1>3, <2>1, <2>3, <2>4, <2>5 DEF RowsOf
<1>6. Closed'
  <2>. SUFFICES ASSUME NEW k \in 1..last', wal'[k].commit, NEW j \in Of(wal[k].txn)'
                PROVE  j <= k
    BY Zenon DEF Closed
  <2>1. j \in 1..(last + 1) /\ k \in 1..(last + 1)
    BY <1>1 DEF Of
  <2>2. CASE k = last + 1
    BY <1>2, <2>1, <2>2
  <2>3. CASE k # last + 1
    <3>1. k \in 1..last
      BY <1>2, <2>1, <2>3
    <3>2. wal[k].commit /\ Of(wal[k].txn)' = Of(wal[k].txn)
      BY <1>3, <1>5, <3>1
    <3>. QED
      BY <3>1, <3>2, Zenon DEF IInv, Closed
  <2>. QED
    BY <2>2, <2>3
<1>7. Phases'
  BY <1>1, <1>2 DEF IInv, Types, Phases
<1>8. pc' = "stream" => Stream'
  <2>. SUFFICES ASSUME Stream, decoded \in Nat, decoded <= last,
                       NEW k \in 1..decoded, wal'[k].commit, k >= start_at,
                       NEW i \in RowsOf(wal[k].txn)'
                PROVE  i \in printed \/ \E f \in frames : f.commit = k /\ f.rec = i
    BY <1>1, Zenon DEF IInv, Types, Phases, Stream
  <2>1. k \in 1..last
    BY <1>2
  <2>2. wal[k].commit /\ i \in RowsOf(wal[k].txn)
    BY <1>3, <1>5, <2>1
  <2>. QED
    BY <2>2 DEF Stream
<1>9. SkippedIsPrinted'
  <2>. SUFFICES ASSUME slot, ~ orphan,
                       NEW k \in 1..(last + 1), wal'[k].commit, k < confirmed_flush
                PROVE  RowsOf(wal[k].txn)' \subseteq printed \cup todo
    BY <1>1 DEF SkippedIsPrinted
  <2>1. k \in 1..last
    BY <1>2 DEF IInv, Types, Phases
  <2>2. wal[k].commit /\ RowsOf(wal[k].txn)' = RowsOf(wal[k].txn)
    BY <1>3, <1>5, <2>1
  <2>. QED
    BY <2>1, <2>2 DEF IInv, SkippedIsPrinted
<1>10. Started'
  <2>. SUFFICES ASSUME pc = "stream", slot, ~ orphan,
                       NEW k \in 1..(last + 1), wal'[k].commit, k < start_at
                PROVE  RowsOf(wal[k].txn)' \subseteq printed \cup todo
    BY <1>1 DEF Started
  <2>1. k \in 1..last
    BY <1>2 DEF IInv, Types, Phases
  <2>2. wal[k].commit /\ RowsOf(wal[k].txn)' = RowsOf(wal[k].txn)
    BY <1>3, <1>5, <2>1
  <2>. QED
    BY <2>1, <2>2 DEF IInv, Started
<1>. QED
  BY <1>4, <1>6, <1>7, <1>8, <1>9, <1>10, Zenon DEF IInv

\* What RowsOf is about is the log alone.
LEMMA SameLog ==
  ASSUME UNCHANGED <<last, wal>>
  PROVE  /\ Closed' <=> Closed
         /\ \A t : RowsOf(t)' = RowsOf(t)
  BY DEF Closed, RowsOf, Of

\* A client starts, or creates its slot, or takes a row of the snapshot, or ends
\* the snapshot, or starts the stream.
LEMMA StartSteps ==
  ASSUME IInv,
         \/ db_client_start \/ (\E understood \in BOOLEAN : replication_slot_create(understood))
         \/ (\E k \in todo : snapshot_tuple(k)) \/ snapshot_end \/ replication_stream_start
  PROVE  IInv'
<1>1. CASE db_client_start
  <2>1. UNCHANGED <<last, wal, slot, confirmed_flush, todo, start_at, printed, orphan>>
    BY <1>1 DEF db_client_start, server, history
  <2>2. pc = "off" /\ pc' = (IF slot THEN "start" ELSE "create") /\ taking_snapshot' = ~ slot
        /\ decoded' = 0 /\ frames' = {} /\ fsync_lsn' = 0
    BY <1>1 DEF db_client_start
  <2>3. Types'
    BY <2>1, <2>2 DEF IInv, Types
  <2>4. Phases'
    BY <2>1, <2>2, Zenon DEF IInv, Types, Phases
  <2>. QED
    BY <2>1, <2>2, <2>3, <2>4, SameLog DEF IInv, Started, SkippedIsPrinted
<1>2. ASSUME NEW understood \in BOOLEAN, replication_slot_create(understood) PROVE IInv'
  <2>1. /\ pc = "create" /\ pc' = (IF understood THEN "snapshot" ELSE "failed")
        /\ slot' = TRUE /\ confirmed_flush' = last + 1 /\ orphan' = FALSE
        /\ todo' = UNION {RowsOf(t) : t \in {u \in Txns : Committed(u)}}
        /\ UNCHANGED <<last, wal, taking_snapshot, start_at, decoded, frames, fsync_lsn, printed>>
    BY <1>2 DEF replication_slot_create, NewSlot, stream
  <2>2. Types'
    <3>1. slot' \in BOOLEAN /\ orphan' \in BOOLEAN
      BY <2>1, Zenon
    <3>2. confirmed_flush' \in Nat
      BY <2>1 DEF IInv, Types
    <3>. QED
      BY <2>1, <3>1, <3>2 DEF IInv, Types
  <2>3. Phases'
    BY <2>1 DEF IInv, Types, Phases
  <2>4. SkippedIsPrinted'
    <3>. SUFFICES ASSUME NEW k \in 1..last, wal[k].commit PROVE RowsOf(wal[k].txn) \subseteq todo'
      BY <2>1, SameLog DEF SkippedIsPrinted
    <3>1. wal[k].txn \in Txns /\ Committed(wal[k].txn)
      BY DEF IInv, Types, Committed, Of
    <3>. QED
      BY <2>1, <3>1
  <2>. QED
    BY <2>1, <2>2, <2>3, <2>4, SameLog DEF IInv, Started
<1>3. ASSUME NEW k \in todo, snapshot_tuple(k) PROVE IInv'
  <2>1. /\ pc = "snapshot" /\ todo' = todo \ {k} /\ printed' = printed \cup {k}
        /\ UNCHANGED <<last, wal, slot, confirmed_flush, pc, taking_snapshot, start_at, decoded, frames,
                       fsync_lsn, orphan>>
    BY <1>3 DEF snapshot_tuple, server, stream
  <2>2. Types' /\ Phases'
    BY <2>1, Zenon DEF IInv, Types, Phases
  <2>3. SkippedIsPrinted'
    BY <2>1, SameLog, Zenon DEF IInv, SkippedIsPrinted
  <2>. QED
    BY <2>1, <2>2, <2>3, SameLog DEF IInv, Started
<1>4. CASE snapshot_end
  <2>1. /\ pc = "snapshot" /\ todo = {} /\ pc' = "start" /\ taking_snapshot' = FALSE
        /\ UNCHANGED <<last, wal, slot, confirmed_flush, todo, start_at, decoded, frames, fsync_lsn,
                       printed, orphan>>
    BY <1>4 DEF snapshot_end, server, stream
  <2>2. Types' /\ Phases'
    BY <2>1, Zenon DEF IInv, Types, Phases
  <2>. QED
    BY <2>1, <2>2, SameLog DEF IInv, Started, SkippedIsPrinted
<1>5. CASE replication_stream_start
  <2>1. /\ pc = "start" /\ pc' = "stream" /\ start_at' = confirmed_flush
        /\ UNCHANGED <<last, wal, slot, confirmed_flush, taking_snapshot, todo, decoded, frames,
                       fsync_lsn, printed, orphan>>
    BY <1>5 DEF replication_stream_start, server, history
  <2>2. decoded = 0 /\ frames = {} /\ fsync_lsn = 0 /\ last \in Nat
    BY <2>1 DEF IInv, Types, Phases
  <2>3. Types' /\ Phases'
    BY <2>1, <2>2 DEF IInv, Types, Phases
  <2>4. Stream'
    BY <2>1, <2>2 DEF Stream
  <2>5. Started' /\ SkippedIsPrinted'
    BY <2>1, SameLog DEF IInv, Started, SkippedIsPrinted
  <2>. QED
    BY <2>1, <2>3, <2>4, <2>5, SameLog DEF IInv
<1>. QED
  BY <1>1, <1>2, <1>3, <1>4, <1>5

\* The client ends, or is about to: if it leaves the slot while its snapshot is
\* not complete, the slot is an orphan.
LEMMA EndSteps == ASSUME IInv, fail \/ exit_nicely \/ Crash PROVE IInv'
<1>1. CASE fail
  <2>1. /\ pc # "off" /\ pc' = "failed"
        /\ UNCHANGED <<last, wal, slot, confirmed_flush, taking_snapshot, todo, start_at, decoded, frames,
                       fsync_lsn, printed, orphan>>
    BY <1>1, Zenon DEF fail, server, stream, history
  <2>2. Types' /\ Phases'
    BY <2>1 DEF IInv, Types, Phases
  <2>. QED
    BY <2>1, <2>2, SameLog DEF IInv, Started, SkippedIsPrinted
<1>2. CASE exit_nicely \/ Crash
  <2>1. /\ pc' = "off" /\ todo' = {}
        /\ UNCHANGED <<last, wal, confirmed_flush, taking_snapshot, start_at, decoded, frames, fsync_lsn, printed>>
        /\ \/ slot' = FALSE /\ orphan' = orphan
           \/ slot' = slot /\ orphan' = (orphan \/ (slot /\ taking_snapshot))
    BY <1>2 DEF exit_nicely, Crash, Leave, stream
  <2>2. Types' /\ Phases'
    BY <2>1, Zenon DEF IInv, Types, Phases
  <2>3. SkippedIsPrinted'
    <3>1. CASE slot' = FALSE
      BY <3>1, Zenon DEF SkippedIsPrinted
    <3>2. CASE slot' = slot /\ orphan' = (orphan \/ (slot /\ taking_snapshot))
      <4>. SUFFICES ASSUME slot, ~ orphan, ~ taking_snapshot PROVE SkippedIsPrinted'
        BY <3>2, Zenon DEF SkippedIsPrinted
      <4>1. todo = {}
        BY Zenon DEF IInv, Phases
      <4>. QED
        BY <2>1, <4>1, SameLog DEF IInv, SkippedIsPrinted
    <3>. QED
      BY <2>1, <3>1, <3>2, Zenon
  <2>. QED
    BY <2>1, <2>2, <2>3, SameLog, Zenon DEF IInv, Started
<1>. QED
  BY <1>1, <1>2

\* A record is decoded: every row of a transaction it commits is on its way.
LEMMA DecodeStep == ASSUME IInv, Decode PROVE IInv'
<1>. DEFINE k == decoded + 1
            t == wal[k].txn
<1>1. /\ pc = "stream" /\ decoded < last /\ decoded' = k
      /\ frames' = IF wal[k].commit /\ k >= start_at THEN frames \cup FramesOf(t, k) ELSE frames
      /\ UNCHANGED <<last, wal, slot, confirmed_flush, pc, taking_snapshot, todo, start_at, fsync_lsn,
                     printed, orphan>>
  BY DEF Decode, server, client, history
<1>2. decoded \in Nat /\ last \in Nat /\ k \in Nat /\ k \in 1..last /\ Stream /\ fsync_lsn \in Nat
  BY <1>1 DEF IInv, Types
<1>3. k = decoded + 1
  BY Zenon
<1>. HIDE DEF k, t
<1>4. ASSUME NEW f \in FramesOf(t, k)
      PROVE  f \in Frame /\ f.commit = k /\ f.wal_pos <= k + 1 /\ (f.kind = "begin" => f.wal_pos <= k)
  <2>1. {i \in Of(t) : i <= k} \subseteq Nat
    BY <1>2 DEF Of
  <2>. QED
    BY <1>2, <2>1 DEF FramesOf, Frame
<1>5. ASSUME wal[k].commit, NEW i \in RowsOf(t) PROVE \E f \in FramesOf(t, k) : f.commit = k /\ f.rec = i
  <2>1. i \in Of(t) /\ i <= k /\ i # k
    BY <1>2, <1>5, Zenon DEF RowsOf, IInv, Closed, t
  <2>. DEFINE f == [commit |-> k, kind |-> "row", rec |-> i, wal_pos |-> i]
  <2>2. f \in FramesOf(t, k)
    BY <2>1, Zenon DEF FramesOf
  <2>. QED
    BY <2>2
<1>6. Types'
  BY <1>1, <1>2, <1>4, Zenon DEF IInv, Types
<1>7. Phases'
  BY <1>1, <1>2, <1>3 DEF IInv, Phases
<1>8. Stream'
  <2>1. fsync_lsn <= k /\ fsync_lsn' <= decoded' + 1
    BY <1>1, <1>2, <1>3 DEF Stream
  <2>2. ASSUME NEW f \in frames'
        PROVE  /\ f.commit <= decoded' /\ f.wal_pos <= f.commit + 1 /\ fsync_lsn' <= f.commit
               /\ (f.kind = "begin" => f.wal_pos <= f.commit)
    <3>1. CASE f \in frames
      <4>1. f.commit \in Nat
        BY <3>1, Zenon DEF IInv, Types, Frame
      <4>. QED
        BY <1>1, <1>2, <1>3, <3>1, <4>1 DEF Stream
    <3>2. CASE f \in FramesOf(t, k)
      BY <1>1, <1>2, <1>4, <2>1, <3>2
    <3>. QED
      BY <1>1, <3>1, <3>2, Zenon
  <2>3. ASSUME NEW c \in 1..k, wal[c].commit, c >= start_at, NEW i \in RowsOf(wal[c].txn)
        PROVE  i \in printed \/ \E f \in frames' : f.commit = c /\ f.rec = i
    <3>1. CASE c \in 1..decoded
      BY <1>1, <1>2, <2>3, <3>1 DEF Stream
    <3>2. CASE c = k
      BY <1>1, <1>5, <2>3, <3>2, Zenon DEF t
    <3>. QED
      BY <1>2, <1>3, <3>1, <3>2
  <2>. QED
    BY <1>1, <2>1, <2>2, <2>3, SameLog DEF Stream
<1>. QED
  BY <1>1, <1>6, <1>7, <1>8, SameLog, Zenon DEF IInv, Started, SkippedIsPrinted

\* A frame is printed and its position noted: the frames that are left are of
\* this transaction, which commits there or later, or of later ones.
LEMMA PrintStep == ASSUME IInv, NEW f \in frames, print_frame(f) PROVE IInv'
<1>1. /\ pc = "stream" /\ (\A g \in frames \ {f} : Before(f, g))
      /\ printed' = printed \cup ({f.rec} \ {0}) /\ frames' = frames \ {f}
      /\ fsync_lsn' = IF f.wal_pos > fsync_lsn THEN f.wal_pos ELSE fsync_lsn
      /\ UNCHANGED <<last, wal, slot, confirmed_flush, pc, taking_snapshot, todo, start_at, decoded, orphan>>
  BY Zenon DEF print_frame, checkpoint, server, client
<1>2. decoded \in Nat /\ Stream /\ fsync_lsn \in Nat /\ f \in Frame /\ last \in Nat
  BY <1>1, Zenon DEF IInv, Types
<1>3. Types'
  BY <1>1, <1>2, Zenon DEF IInv, Types, Frame
<1>4. Phases'
  BY <1>1, Zenon DEF IInv, Phases
<1>5. Stream'
  <2>1. fsync_lsn' <= decoded' + 1
    BY <1>1, <1>2 DEF Stream, Frame
  <2>2. ASSUME NEW g \in frames \ {f}
        PROVE  /\ g.commit <= decoded /\ g.wal_pos <= g.commit + 1 /\ fsync_lsn' <= g.commit
               /\ (g.kind = "begin" => g.wal_pos <= g.commit)
    <3>1. g \in Frame /\ Before(f, g)
      BY <1>1, Zenon DEF IInv, Types
    <3>2. /\ g.commit <= decoded /\ g.wal_pos <= g.commit + 1 /\ fsync_lsn <= g.commit
          /\ (g.kind = "begin" => g.wal_pos <= g.commit)
          /\ f.wal_pos <= f.commit + 1 /\ (f.kind = "begin" => f.wal_pos <= f.commit)
      BY <1>2 DEF Stream
    <3>3. f.wal_pos <= g.commit
      BY <1>2, <3>1, <3>2 DEF Before, Frame
    <3>. QED
      BY <1>1, <3>2, <3>3, Zenon
  <2>3. ASSUME NEW k \in 1..decoded, wal[k].commit, k >= start_at, NEW i \in RowsOf(wal[k].txn)
        PROVE  i \in printed' \/ \E g \in frames' : g.commit = k /\ g.rec = i
    <3>1. i # 0
      BY DEF RowsOf, Of
    <3>. QED
      BY <1>1, <1>2, <2>3, <3>1 DEF Stream
  <2>. QED
    BY <1>1, <2>1, <2>2, <2>3, SameLog DEF Stream
<1>. QED
  BY <1>1, <1>3, <1>4, <1>5, SameLog DEF IInv, Started, SkippedIsPrinted

\* The position noted becomes the slot's: of a commit before it no frame is on
\* its way any more.
LEMMA KeepaliveStep == ASSUME IInv, replication_stream_keepalive PROVE IInv'
<1>1. /\ pc = "stream" /\ confirmed_flush' = fsync_lsn
      /\ UNCHANGED <<last, wal, slot, pc, taking_snapshot, todo, start_at, decoded, frames, fsync_lsn,
                     printed, orphan>>
  BY Zenon DEF replication_stream_keepalive, client, stream, history
<1>2. /\ decoded \in Nat /\ last \in Nat /\ fsync_lsn \in Nat /\ confirmed_flush \in Nat
      /\ start_at \in Nat /\ Stream /\ decoded <= last /\ start_at <= last + 1
      /\ frames \subseteq Frame
  BY <1>1, Zenon DEF IInv, Types, Phases
<1>3. Types'
  BY <1>1, Zenon DEF IInv, Types
<1>4. Phases'
  BY <1>1, <1>2 DEF IInv, Phases, Stream
<1>5. Stream'
  BY <1>1, <1>2, SameLog DEF Stream
<1>6. SkippedIsPrinted'
  <2>. SUFFICES ASSUME slot, ~ orphan, NEW k \in 1..last, wal[k].commit, k < fsync_lsn,
                       NEW i \in RowsOf(wal[k].txn)
                PROVE  i \in printed \cup todo
    BY <1>1, SameLog DEF SkippedIsPrinted
  <2>1. CASE k < start_at
    BY <1>1, <2>1, Zenon DEF IInv, Started
  <2>2. CASE k >= start_at
    <3>1. k \in 1..decoded
      BY <1>2 DEF Stream
    <3>2. ASSUME NEW f \in frames PROVE f.commit # k
      BY <1>2 DEF Stream, Frame
    <3>. QED
      BY <1>2, <2>2, <3>1, <3>2, Zenon DEF Stream
  <2>. QED
    BY <1>2, <2>1, <2>2
<1>7. Started'
  BY <1>1, SameLog, Zenon DEF IInv, Started
<1>. QED
  BY <1>1, <1>3, <1>4, <1>5, <1>6, <1>7, SameLog, Zenon DEF IInv

\* Every step keeps the invariant.
LEMMA NextIInv == IInv /\ [Next]_vars => IInv'
<1>. SUFFICES ASSUME IInv, [Next]_vars PROVE IInv'
  OBVIOUS
<1>1. ASSUME NEW t \in Txns, NEW commit \in BOOLEAN, Write(t, commit) PROVE IInv'
  BY <1>1, WriteStep
<1>2. CASE Client
  <2>1. CASE \E f \in frames : print_frame(f)
    BY <2>1, PrintStep
  <2>. QED
    BY <1>2, <2>1, StartSteps, EndSteps, DecodeStep, Zenon DEF Client
<1>3. CASE replication_slot_create(FALSE)
  BY <1>3, StartSteps, Zenon
<1>4. CASE replication_stream_keepalive
  BY <1>4, KeepaliveStep
<1>5. CASE fail \/ Crash
  BY <1>5, EndSteps, Zenon
<1>6. CASE UNCHANGED vars
  <2>. USE <1>6 DEF vars, server, client, stream, history
  <2>1. Types' /\ Phases'
    BY Zenon DEF IInv, Types, Phases
  <2>2. Stream => Stream'
    BY SameLog DEF Stream
  <2>3. Started' /\ SkippedIsPrinted'
    BY SameLog DEF IInv, Started, SkippedIsPrinted
  <2>. QED
    BY <2>1, <2>2, <2>3, SameLog, Zenon DEF IInv
<1>. QED
  BY <1>1, <1>2, <1>3, <1>4, <1>5, <1>6, Zenon DEF Next

\* What the step lemmas establish, put together.
LEMMA Invariance == Spec => []IInv
<1>. QED
  BY InitIInv, NextIInv, PTL DEF Spec
-----------------------------------------------------------------------------
\* Though the position moves in the middle of transactions, back and forth with
\* their records, no row is skipped that nobody has printed or will print.
THEOREM SkippedIsAlwaysPrinted == Spec => []SkippedIsPrinted
<1>1. IInv => SkippedIsPrinted
  BY DEF IInv
<1>. QED
  BY <1>1, Invariance, PTL
-----------------------------------------------------------------------------
(* The editor of the properties *)

\* f gives every variable that counts one of the values it may have
Good(f) ==
  \A v \in Eligible : /\ propertyName(v) \in DOMAIN f
                      /\ f[propertyName(v)] \in {env[w] : w \in Sources(propertyName(v))}

\* In f, what no variable names is as in the image, or was cut
Rest(f) ==
  \A p \in DOMAIN f \cup DOMAIN Base : Sources(p) = {} =>
    Value(f, p) = Value(Base, p) \/ (torn /\ Value(f, p) \in {"none", "cut"})

\* What has been found so far: the variables looked at, and nothing else
Collected ==
  /\ entries \subseteq DOMAIN env
  /\ \A v \in Eligible \ entries : propertyName(v) \in DOMAIN results
  /\ \A p \in DOMAIN results : results[p] \in {env[w] : w \in Sources(p)}

\* The inductive invariant
EditorInv ==
  /\ status \in {"down", "find", "open", "store", "edited", "serving"}
  /\ status = "find" => Collected
  /\ status \in {"open", "store"} => Good(properties)
  /\ status \in {"edited", "serving"} /\ ~ threw => Good(file)
  /\ status \in {"find", "open", "store"} => Rest(properties)
  /\ status # "store" => Rest(file)
-----------------------------------------------------------------------------
\* The command line and the environment say which variables count.
LEMMA Unchanged ==
  ASSUME UNCHANGED <<container, env>>
  PROVE  /\ Eligible' = Eligible
         /\ \A v : propertyName(v)' = propertyName(v)
         /\ \A p : Sources(p)' = Sources(p)
<1>1. includePatterns' = includePatterns /\ excludePatterns' = excludePatterns
      /\ preserveCase' = preserveCase
  BY Zenon DEF includePatterns, excludePatterns, preserveCase
<1>2. \A v : Found(v)' = Found(v)
  BY <1>1, Zenon DEF Found
<1>3. \A v : Matcher(v)' = Matcher(v)
  BY <1>1, <1>2, Zenon DEF Matcher
<1>4. \A v : propertyName(v)' = propertyName(v)
  <2>1. \A v : Group1(v)' = Group1(v)
    BY <1>1, <1>3, Zenon DEF Group1
  <2>. QED
    BY <1>1, <2>1, Zenon DEF propertyName
<1>5. Eligible' = Eligible
  BY <1>1, <1>2, Zenon DEF Eligible
<1>. QED
  BY <1>4, <1>5, Zenon DEF Sources

\* Good and Rest only depend on what they are about; a cut may only weaken Rest.
LEMMA UnchangedInv ==
  ASSUME UNCHANGED <<container, env>>
  PROVE  /\ properties' = properties => (Good(properties) => Good(properties)')
         /\ file' = file => (Good(file) => Good(file)')
         /\ file' = properties => (Good(properties) => Good(file)')
         /\ (torn => torn') =>
              /\ properties' = properties => (Rest(properties) => Rest(properties)')
              /\ file' = file => (Rest(file) => Rest(file)')
              /\ file' = properties => (Rest(properties) => Rest(file)')
              /\ properties' = file => (Rest(file) => Rest(properties)')
<1>1. /\ properties' = properties => (Good(properties) => Good(properties)')
      /\ file' = file => (Good(file) => Good(file)')
      /\ file' = properties => (Good(properties) => Good(file)')
  BY Unchanged DEF Good
<1>2. ASSUME torn => torn'
      PROVE  /\ properties' = properties => (Rest(properties) => Rest(properties)')
             /\ file' = file => (Rest(file) => Rest(file)')
             /\ file' = properties => (Rest(properties) => Rest(file)')
             /\ properties' = file => (Rest(file) => Rest(properties)')
  BY <1>2, Unchanged DEF Rest, Value
<1>. QED
  BY <1>1, <1>2, Zenon

\* A piece of a file has of it what it has, or something cut.
LEMMA PiecesOf ==
  ASSUME NEW f, NEW g \in Pieces(f), NEW p
  PROVE  Value(g, p) \in {Value(f, p), "none", "cut"}
<1>. PICK S \in SUBSET DOMAIN f :
       g \in {Lines(f, S)} \cup {Put(Lines(f, S), [q \in {r} |-> "cut"]) : r \in DOMAIN f \cup {CutName}}
  BY Zenon DEF Pieces
<1>1. DOMAIN Lines(f, S) = S /\ \A q \in S : Lines(f, S)[q] = f[q]
  BY Zenon DEF Lines
<1>2. CASE g = Lines(f, S)
  BY <1>1, <1>2, Zenon DEF Value
<1>3. ASSUME NEW r, g = Put(Lines(f, S), [q \in {r} |-> "cut"])
      PROVE  Value(g, p) \in {Value(f, p), "none", "cut"}
  <2>1. /\ DOMAIN g = S \cup {r} /\ g[r] = "cut"
        /\ \A q \in S : q # r => g[q] = f[q]
    BY <1>1, <1>3, Zenon DEF Put
  <2>. QED
    BY <2>1, Zenon DEF Value
<1>. QED
  BY <1>2, <1>3, Zenon

\* Whoever writes, what is left of the properties is as it was, or was cut.
LEMMA CutStep ==
  ASSUME UNCHANGED <<container, env>>, torn', Rest(properties), file' \in Pieces(properties)
  PROVE  Rest(file)'
<1>. SUFFICES ASSUME NEW p, Sources(p) = {}
              PROVE  Value(file', p) = Value(Base, p) \/ Value(file', p) \in {"none", "cut"}
  BY Unchanged, Zenon DEF Rest, Value
<1>1. Value(properties, p) = Value(Base, p) \/ Value(properties, p) \in {"none", "cut"}
  BY Zenon DEF Rest, Value
<1>2. Value(file', p) \in {Value(properties, p), "none", "cut"}
  BY PiecesOf, Zenon
<1>. QED
  BY <1>1, <1>2, Zenon

\* The file of the image is as in the image.
LEMMA InitEditorInv == InitEditor => EditorInv
  BY Zenon DEF InitEditor, EditorInv, Rest

\* One entry of the environment.
LEMMA FindStep == ASSUME EditorInv, findOverriddenValues PROVE EditorInv'
<1>. PICK name \in entries :
       /\ entries' = entries \ {name}
       /\ IF Found(name) = {} \/ excludedKey(name)
          THEN UNCHANGED <<status, results, threw>>
          ELSE IF includePatterns[Matcher(name)].groups # 1
               THEN status' = "edited" /\ threw' = TRUE /\ UNCHANGED results
               ELSE /\ results' = Put(results, [p \in {propertyName(name)} |-> env[name]])
                    /\ UNCHANGED <<status, threw>>
  BY Zenon DEF findOverriddenValues
<1>1. status = "find" /\ UNCHANGED <<container, env, file, properties, torn>>
  BY Zenon DEF findOverriddenValues
<1>2. Collected /\ Rest(properties) /\ Rest(file)
  BY <1>1, Zenon DEF EditorInv
<1>3. Rest(properties)' /\ Rest(file)'
  BY <1>1, <1>2, UnchangedInv, Zenon
<1>4. name \in Eligible <=> name \in DOMAIN env /\ ~ (Found(name) = {} \/ excludedKey(name))
  BY Zenon DEF Eligible, excludedKey
<1>5. name \in DOMAIN env
  BY <1>2, Zenon DEF Collected
<1>6. CASE Found(name) = {} \/ excludedKey(name)
  <2>1. Collected'
    BY <1>1, <1>2, <1>4, <1>6, Unchanged, Zenon DEF Collected
  <2>. QED
    BY <1>1, <1>3, <1>6, <2>1, Zenon DEF EditorInv
<1>7. CASE ~ (Found(name) = {} \/ excludedKey(name)) /\ includePatterns[Matcher(name)].groups # 1
  BY <1>3, <1>7, Zenon DEF EditorInv
<1>8. CASE ~ (Found(name) = {} \/ excludedKey(name)) /\ includePatterns[Matcher(name)].groups = 1
  <2>1. name \in Sources(propertyName(name))
    BY <1>4, <1>5, <1>8, Zenon DEF Sources
  <2>2. Collected'
    BY <1>1, <1>2, <1>8, <2>1, Unchanged DEF Collected, Put
  <2>. QED
    BY <1>1, <1>3, <1>8, <2>2, Zenon DEF EditorInv
<1>. QED
  BY <1>6, <1>7, <1>8

\* All entries have been looked at: the properties found are put over those read.
LEMMA PutAllStep == ASSUME EditorInv, putAll PROVE EditorInv'
<1>1. /\ status = "find" /\ entries = {} /\ status' = IF results = NoProperties THEN "edited" ELSE "open"
      /\ properties' = Put(properties, results)
      /\ UNCHANGED <<container, env, file, results, torn>>
  BY Zenon DEF putAll
<1>2. Collected /\ Rest(properties) /\ Rest(file)
  BY <1>1, Zenon DEF EditorInv
<1>3. Good(properties)'
  BY <1>1, <1>2, Unchanged DEF Good, Collected, Put
<1>4. Rest(properties)'
  <2>. SUFFICES ASSUME NEW p \in DOMAIN properties' \cup DOMAIN Base, Sources(p) = {}
                PROVE  \/ Value(properties', p) = Value(Base, p)
                       \/ torn /\ Value(properties', p) \in {"none", "cut"}
    BY <1>1, Unchanged, Zenon DEF Rest, Value
  <2>1. p \notin DOMAIN results
    BY <1>2, Zenon DEF Collected
  <2>2. p \in DOMAIN properties \cup DOMAIN Base /\ Value(properties', p) = Value(properties, p)
    BY <1>1, <2>1, Zenon DEF Put, Value
  <2>. QED
    BY <1>2, <2>2, Zenon DEF Rest
<1>5. CASE results = NoProperties
  <2>1. Eligible = {}
    BY <1>1, <1>2, <1>5, Zenon DEF Collected, NoProperties
  <2>2. Good(file)'
    BY <1>1, <2>1, Unchanged, Zenon DEF Good
  <2>. QED
    BY <1>1, <1>2, <1>5, <2>2, UnchangedInv, Zenon DEF EditorInv
<1>6. CASE results # NoProperties
  BY <1>1, <1>2, <1>3, <1>4, <1>6, UnchangedInv, Zenon DEF EditorInv
<1>. QED
  BY <1>5, <1>6, Zenon

\* The file is read, emptied and written, or the editor throws an exception.
LEMMA FileSteps == ASSUME EditorInv, NEW err \in BOOLEAN, load(err) \/ open(err) \/ store(err) PROVE EditorInv'
<1>1. CASE load(err)
  <2>1. status = "down" /\ Rest(file) /\ UNCHANGED <<container, env, file, torn>> /\ results' = NoProperties
    BY <1>1, Zenon DEF load, EditorInv
  <2>2. Rest(file)'
    BY <2>1, UnchangedInv, Zenon
  <2>3. CASE err
    BY <1>1, <2>2, <2>3, Zenon DEF load, EditorInv
  <2>4. CASE ~ err
    <3>1. status' = "find" /\ properties' = file /\ entries' = DOMAIN env
      BY <1>1, <2>4, Zenon DEF load
    <3>2. Collected'
      BY <2>1, <3>1, Unchanged, Zenon DEF Collected, Eligible, NoProperties
    <3>3. Rest(properties)'
      BY <2>1, <3>1, UnchangedInv, Zenon
    <3>. QED
      BY <2>2, <3>1, <3>2, <3>3, Zenon DEF EditorInv
  <2>. QED
    BY <2>3, <2>4, Zenon
<1>2. CASE open(err)
  <2>1. status = "open" /\ Good(properties) /\ Rest(properties) /\ Rest(file)
        /\ UNCHANGED <<container, env, properties, torn>>
    BY <1>2, Zenon DEF open, EditorInv
  <2>2. Good(properties)' /\ Rest(properties)'
    BY <2>1, UnchangedInv, Zenon
  <2>3. CASE err
    <3>1. status' = "edited" /\ threw' /\ file' = file
      BY <1>2, <2>3, Zenon DEF open
    <3>2. Rest(file)'
      BY <2>1, <3>1, UnchangedInv, Zenon
    <3>. QED
      BY <3>1, <3>2, Zenon DEF EditorInv
  <2>4. CASE ~ err
    BY <1>2, <2>2, <2>4, Zenon DEF open, EditorInv
  <2>. QED
    BY <2>3, <2>4, Zenon
<1>3. CASE store(err)
  <2>1. status = "store" /\ Good(properties) /\ Rest(properties) /\ status' = "edited"
        /\ UNCHANGED <<container, env>> /\ threw' = err /\ torn' = (torn \/ err)
    BY <1>3, Zenon DEF store, EditorInv
  <2>2. CASE err
    <3>1. file' \in Pieces(properties)
      BY <1>3, <2>2, Zenon DEF store
    <3>2. Rest(file)'
      BY <2>1, <2>2, <3>1, CutStep, Zenon
    <3>. QED
      BY <2>1, <2>2, <3>2, Zenon DEF EditorInv
  <2>3. CASE ~ err
    <3>1. file' = properties
      BY <1>3, <2>3, Zenon DEF store
    <3>2. Good(file)' /\ Rest(file)'
      BY <2>1, <3>1, UnchangedInv, Zenon
    <3>. QED
      BY <2>1, <3>2, Zenon DEF EditorInv
  <2>. QED
    BY <2>2, <2>3, Zenon
<1>. QED
  BY <1>1, <1>2, <1>3

\* Every step keeps the invariant.
LEMMA NextEditorInv == EditorInv /\ [NextEditor]_editor => EditorInv'
<1>. SUFFICES ASSUME EditorInv, [NextEditor]_editor PROVE EditorInv'
  OBVIOUS
<1>1. ASSUME NEW err \in BOOLEAN, load(err) \/ open(err) \/ store(err) PROVE EditorInv'
  BY <1>1, FileSteps
<1>2. CASE findOverriddenValues
  BY <1>2, FindStep
<1>3. CASE putAll
  BY <1>3, PutAllStep
<1>4. CASE start_server
  <2>1. status = "edited" /\ status' = "serving" /\ UNCHANGED <<container, env, file, threw, torn>>
    BY <1>4, Zenon DEF start_server
  <2>. QED
    BY <2>1, UnchangedInv, Zenon DEF EditorInv
<1>5. CASE container_dies
  <2>1. status' = "down" /\ UNCHANGED <<container, env>> /\ torn' = (torn \/ status = "store")
    BY <1>5, Zenon DEF container_dies
  <2>2. Rest(file)'
    <3>1. CASE status = "store"
      <4>1. file' \in Pieces(properties) /\ Rest(properties)
        BY <1>5, <3>1, Zenon DEF container_dies, EditorInv
      <4>. QED
        BY <2>1, <3>1, <4>1, CutStep, Zenon
    <3>2. CASE status # "store"
      <4>1. file' = file /\ Rest(file)
        BY <1>5, <3>2, Zenon DEF container_dies, EditorInv
      <4>. QED
        BY <2>1, <4>1, UnchangedInv, Zenon
    <3>. QED
      BY <3>1, <3>2, Zenon
  <2>. QED
    BY <2>1, <2>2, Zenon DEF EditorInv
<1>6. CASE UNCHANGED editor
  <2>1. UNCHANGED <<container, env, file, status, properties, threw, torn>>
    BY <1>6, Zenon DEF editor
  <2>2. Collected' <=> Collected
    BY <1>6, <2>1, Unchanged, Zenon DEF editor, Collected
  <2>. QED
    BY <2>1, <2>2, UnchangedInv, Zenon DEF EditorInv
<1>. QED
  BY <1>1, <1>2, <1>3, <1>4, <1>5, <1>6, Zenon DEF NextEditor

\* What the step lemmas establish, put together.
LEMMA EditorInvariance == EditorSpec => []EditorInv
<1>. QED
  BY InitEditorInv, NextEditorInv, PTL DEF EditorSpec
-----------------------------------------------------------------------------
\* However often the container died or the editor threw, and whatever of the file
\* was left, a server whose own editor did not throw has the values of its
\* environment.
THEOREM AlwaysServesEnvironment == EditorSpec => []ServesEnvironment
<1>1. EditorInv => ServesEnvironment
  BY Zenon DEF EditorInv, Good, Value, ServesEnvironment
<1>. QED
  BY <1>1, EditorInvariance, PTL

\* What no variable names is as in the image in every server's file, or was lost or
\* cut when the writing was cut short: it never has another value.
THEOREM AlwaysKeepsTheRest == EditorSpec => []KeepsTheRest
<1>1. EditorInv => KeepsTheRest
  BY DEF EditorInv, Rest, KeepsTheRest
<1>. QED
  BY <1>1, EditorInvariance, PTL
=============================================================================
