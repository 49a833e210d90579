# TLA+ models of node-scalable

This directory holds a formal model of the data path of node-scalable: rows
committed in Postgres are turned into Kafka messages by Bottled Water, and a
Node.js application writes to and reads from both ends of it. The modules are
translated from the code under `src/`; `PROJECT.json` says, definition by
definition, which lines each one stands for.

## 1. The system and its parts

| Part | Source | Module | State |
|---|---|---|---|
| Kafka producer, checkpoints, exits | `kafka/bottledwater.c` | `BottledWater`, `AtLeastOnce` | modelled, proved |
| Postgres connection, snapshot (client side) | `client/connect.c` | `BottledWater`, `DebugClient` | modelled, proved |
| Replication stream (client side) | `client/replication.c` | `BottledWater` | modelled, proved |
| Schema cache of the extension | `ext/schema_cache.c` | `SchemaStream` | modelled, proved |
| Output plugin and frames | `ext/logdecoder.c`, `ext/protocol_server.c`, `ext/protocol.c` | `SchemaStream`, `FrameProtocol`, `Changelog` | modelled; `SchemaStream` and `Changelog` proved |
| Snapshot export | `ext/snapshot.c` | `SchemaStream` | partly, proved |
| Conversion of rows and keys to Avro | `ext/oid2avro.c`, `ext/io_util.c` | `RowEncoding`, `TryWriting` | partly, proved |
| Frame reader of the client | `client/protocol_client.c` | `SchemaStream`, `FrameProtocol` | modelled; `SchemaStream` proved |
| Table mapper | `kafka/table_mapper.c` | `SchemaStream` | modelled, proved |
| Schema registry client | `kafka/registry.c` | `SchemaStream` | partly, proved |
| JSON output | `kafka/json.c` | `SchemaStream` | partly |
| Debug client | `client/bwtest.c` | `DebugClient` | modelled, proved |
| Web service | `04-app/nodeapp/lib/web.js` | `WebUpload` | modelled, proved |
| Worker, choice of ports | `04-app/nodeapp/lib/worker.js`, `lib/db.js` | `Worker` | modelled, proved |
| Configuration editor, start scripts | `02-confluent/.../PropertyEditor.java`, `start_server.sh` | `PropertyEditor` | modelled, proved; scripts partly |
| Start, logging, configuration | `start.js`, `lib/logger.js`, `config/` | - | not modelled |
| Pooling, Logstash, set-up, tests | `01-pooling`, `05-logstash`, `pg-config`, `06-test` | - | not modelled |

(C sources are below `src/00-bottledwater-pg/`.)

How the parts interact. The client (`bottledwater`) has an SQL connection and a
replication connection. If its replication slot does not exist it creates one,
which exports a snapshot of the database, and runs `bottledwater_export` in that
snapshot; each row of the result is a frame. When the snapshot is exhausted it
issues `START_REPLICATION`, and the output plugin sends one frame per begin, row
change and commit. `protocol_client.c` decodes frames and calls the callbacks of
`bottledwater.c`, which hand every row to librdkafka. librdkafka reports the fate
of each message through `on_deliver_msg`. Once every row of the oldest
transactions is acknowledged, `maybe_checkpoint` advances `fsync_lsn`, which the
next status update carries to Postgres; after a restart Postgres resends what
follows the last position it was told. At the near end the web service copies
uploaded files into the table, at the far end the workers read its topic through
the REST proxy and query the database. The Confluent servers in between run in
containers whose configuration is edited at every start.

No single instance of all this could be explored, so each module takes one
question and abstracts the rest: `BottledWater` has transactions and positions but
no schemas and no values, `SchemaStream` schemas but no positions, `Changelog` keys
and values but a client reduced to its queue, `FrameProtocol` the fields of single
frames, `RowEncoding` the fields of single rows and the buffer they are written to.

## 2. `BottledWater`: the client

State. The server's variables are the log of committed transactions (`wal[t]` is
the number of messages transaction `t` gives rise to, for `t` up to `wal_end`), the slot (`slot_exists`,
`consistent_point`, `confirmed_flush`) and the walsender's position (`cur`, `ev`,
`from`). Kafka and librdkafka are `kafka` (durable rows), `queued` and `acked`
(messages in the producer's queue, and those whose report waits to be polled).
The client's variables keep the names of the code: `taking_snapshot`, `start_lsn`,
`fsync_lsn`, `xact_list`, `xact_head`, `xact_tail`; `pc` says where the single
thread stands ("begin" and "produce" are the two loops around `backpressure`),
`sql_conn` whether the snapshot connection is open, `received` whether
`recvd_lsn` is valid, `envelopes` which `msg_envelope`s are allocated.

LSNs are counted in transactions: the n-th transaction commits at LSN n, and 0 is
`InvalidXLogRecPtr`. The code only compares LSNs, so their spacing is irrelevant.
A transaction's xid is its number; the code compares xids for equality and with 0.
The log is a function with an explicit end and not a sequence: the module is used
by proofs, and sequences are better kept out of them (section 3).

Actions, in the order of the code:

| Action | Code |
|---|---|
| `Start`, `replication_slot_exists`, `replication_slot_create`, `snapshot_start`, `replication_stream_start` | `db_client_start` and what it calls; also the switch to streaming in `db_client_poll` |
| `snapshot_tuple`, `on_insert_row` with `send_kafka_msg` and `rd_kafka_produce` | a row from the snapshot or the stream: counted in the slot at the head, then offered to librdkafka until it is accepted |
| `recv_begin`, `on_begin_txn` | a begin frame; the callback waits while the buffer is full |
| `recv_commit`, `snapshot_end` with `on_commit_txn` | a commit, or the end of the snapshot (xid 0), followed by `maybe_checkpoint` |
| `on_deliver_msg` | a report of success, followed by `maybe_checkpoint` |
| `replication_stream_keepalive`, `parse_keepalive_message` with `send_checkpoint` | status updates to the server |
| `delivery_failed`, `shutdown_signal`, `ensure_fails` with `exit_nicely`; `Crash` | the ways the process ends |
| `CommitTxn`, `BrokerAck` | Postgres and Kafka (external) |

`maybe_checkpoint` is one step, as in the single-threaded code: its loop over the
buffer is the choice of the unique `k`, the number of complete slots it passes.
Delivery reports are served wherever the code calls `rd_kafka_poll` (`Polling`):
the loop of `main`, and `backpressure` from inside `on_begin_txn` and
`send_kafka_msg`.

Abstractions. Updates and deletes are messages like inserts; a delete on an
unkeyed table gives rise to none, which is why `wal[t]` counts messages. Frames
are read one event at a time. A status update takes effect on the slot when it is
sent: the slot is next read when a later walsender starts. `errno` is taken to
reflect the latest `rd_kafka_produce`; a stale value costs only an additional
call of `backpressure`. The messages in the queue of a process that dies are
either already written (`BrokerAck` came before) or lost.

External behaviour assumed: Postgres resends after `confirmed_flush` or the
position asked for, whichever is later, ignores a flush position of 0, and
refuses a command on a connection in COPY BOTH mode (libpq's `PQexec`); Kafka
keeps what it acknowledged.

### Properties and runs

| Run | Bounds | Checks |
|---|---|---|
| `client` | 2 slots, queue of 2, up to 2 rows per transaction, 3 transactions, 1 fault of any kind, `FairSpec` | all properties but `NoDataLost` |
| `signal_snapshot` | faults limited to signals | `NoDataLost` is violated (finding 1) |
| `delivery_snapshot` | faults limited to delivery errors | `NoDataLost` is violated (finding 2) |

- `ConfirmedDelivered`: what the slot remembers as flushed is in Kafka; this is
  what makes a restart lossless for streamed transactions.
- `CheckpointDelivered`: the same for the position not yet reported, including the
  snapshot if this process took it.
- `SnapshotFlag`: `taking_snapshot` is cleared only once the snapshot is in Kafka.
- `SlotNotReused`, `PendingExact`: the pointers and counters of delivery reports.
- `NoProtocolError`: the two checks that make callbacks exit never fire.
- `FullWaitsForKafka`: a full buffer waits for Kafka, not for a checkpoint that
  nobody is going to make.
- `ConfirmedMonotone`: the slot's position never moves back.
- `BackpressureEnds`, `EventuallyConfirmed`: progress.
- `KeepsPromise`: `BottledWater` implements `AtLeastOnce`.

`AtLeastOnce` says what the client promises without saying how. It knows a log of
transactions, the set of published rows and a slot with a position; a step commits
a transaction, publishes a row of a committed one, reserves the slot at the end of
the log, advances its position over rows that are all published, or releases the
slot. There is no buffer, no snapshot, no process and no fault in it. The
refinement mapping (`Promise`, at the end of `BottledWater`) is plain: `wal_end`,
`wal`, `kafka`, `slot_exists`, `consistent_point` and `confirmed_flush`. Everything
else the client does, crashes included, must be invisible there or be one of the
five steps. The snapshot is not part of the promise, since findings 1 and 2 show
that it is not kept for the snapshot.

Why the bounds are enough to see the interesting cases: with two slots the buffer
is full as soon as one transaction is in flight behind the head, so `backpressure`
is entered from both places; three transactions suffice to recycle a slot, and one
fault of any kind at any point brings a second incarnation. Larger buffers, which
wrap around with transactions strictly between tail and head, and further faults are
left to the theorems below, which have no bounds.

Fairness. `main` calls `db_client_poll`, `db_client_wait` (which returns after at
most a second) and `rd_kafka_poll` in every round of its loop, and
`replication_stream_poll` and `backpressure` call the keepalive in every round:
each of `Receive`, `Deliver` and `replication_stream_keepalive` is weakly fair.
The broker is assumed to answer and a supervisor to restart the process
(`docker`'s restart policy). Commits and faults are not assumed to happen.
Deadlock is checked in every run; there is none, as a keepalive can always come.

### Findings

1. A shutdown signal during the snapshot (`bottledwater.c:635`). `exit_nicely(0)`
   keeps the slot while the snapshot is incomplete. The next client finds the slot,
   takes no snapshot and streams from its position: the rest of the snapshot never
   reaches Kafka. The comment at `bottledwater.c:498-501` says "This should ensure
   that no data is lost (although messages may be duplicated)."
2. A delivery error for a snapshot row after streaming has begun
   (`replication.c:101`). `taking_snapshot` is still set and `exit_nicely(1)` tries
   to drop the slot, but the connection is in COPY BOTH mode and `PQexec` refuses.
   The comment at `bottledwater.c:633-634` says the slot is dropped "so that the
   snapshot is retried when the user tries again."

## 3. The proof modules: what is proved

Every safety property that a passing run checks is a theorem, apart from the one of
`FrameProtocol`. Each module below extends the modules
it is about; the three about `BottledWater` extend one another (tlapm slows down with
the number of obligations of a module, so they are kept near a thousand each; leaves of
plain first-order reasoning are given to Zenon for the same reason, as it takes them
faster than the translation for the SMT solver does).

| Module | Holds |
|---|---|
| `BottledWaterInv` | the inductive invariant, the arithmetic of the circular buffer, one call of `maybe_checkpoint`, counting of envelopes; the initial state, ends and starts of incarnations up to the snapshot, server and broker |
| `BottledWaterSteps` | the start of the stream, keepalives, rows of the snapshot and of the stream, begins |
| `BottledWaterProofs` | commits, the end of the snapshot, delivery reports; the theorems; the refinement of `AtLeastOnce` |
| `SchemaStreamProofs` | schemas and rows (section 4) |
| `ChangelogProofs` | the topic (section 5) |
| `RowEncodingProofs` | schemas, rows and keys, and the growing buffer they are written to (section 7) |
| `NodeAppProofs` | the Node application: the web service (section 9) and the workers (section 10) |
| `ToolProofs` | the debug client (section 8) and the configuration editor (section 11) |

| Theorem | States |
|---|---|
| `Invariance` (`BottledWaterProofs`) | `IInv` is an invariant |
| `TypeCorrect` | `TypeOK` |
| `ConfirmedIsDelivered`, `CheckpointIsDelivered`, `SnapshotFlagCorrect` | nothing is reported before it is durable |
| `SlotsNotReused`, `PendingIsExact`, `NoProtocolErrors`, `FullWaits` | the buffer and its counters |
| `ConfirmedIsMonotone` | the action property `ConfirmedMonotone` |
| `ImplementsAtLeastOnce` | `KeepsPromise`: the client implements the abstract specification |
| `CacheIsCoherent`, `RowsAreDecodable` | `CacheCoherent` and `RowsDecodable` of `SchemaStream` |
| `PublishedIsReadable`, `TopicIsRight`, `MapperAgreesWithReader` | `Published`, `RightTopic` and `MapperAgrees` |
| `ReUpdateIsIdempotent` | the action property `ReUpdateIdempotent` |
| `NeverBehind`, `CaughtUpIsEqual` | `NotBehind` and `Converged` of `Changelog` |
| `SchemasAreValid`, `RowsReadBack`, `KeysAreKeys` | `SchemaValid`, `RowReadsBack` and `KeyIsKey` of `RowEncoding` |
| `AlwaysTerminated`, `OnlyTooLargeRefused` | `Terminated` and `RefusedTooLarge` of `TryWriting` |
| `EncodingImplementsBuffer` | `RowEncoding` uses the buffer as `TryWriting` allows, so the two above hold of it too |
| `SkippedIsAlwaysPrinted` | `SkippedIsPrinted` of `DebugClient` |
| `AtMostOneAnswerPerFile`, `ClientEndedOnce` | `OneAnswerPerFile` and `EndedOnce` of `WebUpload` |
| `PortsAlwaysBalanced`, `CommittedIsAlwaysHandled`, `AgainOnlyAfterLosses` | `PortsBalanced`, `CommittedIsHandled` and `AgainOnlyAfterLoss` of `Worker` |
| `AlwaysServesEnvironment`, `AlwaysKeepsTheRest` | `ServesEnvironment` and `KeepsTheRest` of `PropertyEditor` |

All theorems hold for every value of the constants allowed by the named assumptions of
the modules, and none uses fairness. The assumptions are: at least two slots
(`RingAssumption`; the code has 1000), a queue that takes at least one message, at least
one connection and one port, natural numbers for the bounds, finitely many tables, columns
of the types the conversion knows (`EncodingAssumption`), a `Null`
that is no name, key, definition or schema (`SchemaAssumption`), no key called `NULL`
(`KeyAssumption`), a command line that gives include patterns (`EditorAssumption`), and
lists of faults, kinds and values taken from those the modules name. The bounds on
transactions, messages, requests, files and faults may be any numbers. `NeverBehind` and
`CaughtUpIsEqual` have a hypothesis of their own, `IndexThere`: an index named as replica
identity has not been dropped from a table with a primary key. Without it they are false
(section 5).

### The argument for `BottledWater`

`Invariance` proves `Spec => []IInv`. The properties of section 2 are not inductive: the
position reported is right only because of what the buffer holds, and the buffer
is right only because of where the walsender stands. `IInv` adds

- `RingInv`: the live slots, from tail to head, hold consecutive transactions; a
  slot's *age* is its distance from the head, and ages identify slots (`AgeValue`,
  `AgeInjective`, `FromTailAge` hide the modulo arithmetic);
- `EnvelopeInv`: every envelope points at a live slot and carries its transaction;
  reported and unreported messages are disjoint;
- `CoverInv`: every row sent so far is in Kafka or has an envelope in the slot of
  its transaction;
- `CheckpointInv`: `fsync_lsn` is the commit position of the transaction just below
  the tail, or below the first one;
- `PhaseInv`, `SlotInv`: what each value of `pc` says about connections, snapshot
  and slot. `PhaseInv` is in parts, one per stage of an incarnation
  (`PositionInv`, `StartPhase`, `SnapshotPhase`, `StreamPhase`, `FlagInv`), so that
  an action is shown to preserve the parts it can disturb and the others follow
  from what it leaves unchanged.

`PrefixDelivered` shows that if all slots from the tail up to `s` are
complete, the rows of all transactions up to the one in `s` are in Kafka (they are
covered, and a complete slot has no envelope). `CheckpointStep` lifts this to a
whole call of `maybe_checkpoint`. There is one lemma per action, and
`CheckpointIInv` is shared by the three callbacks that end in `maybe_checkpoint`.
`FullWaits` needs one more inductive fact, `TailInv`. That the counters are exact rests
on a few facts about cardinalities, taken from the library's `FiniteSetTheorems` through
an instance local to `BottledWaterInv` (`SameCount`, `AddCount`, `RemoveCount`).

`ImplementsAtLeastOnce` proves `Spec => KeepsPromise`. An initial state maps to an
initial state (`InitPromise`), and every step maps to a step of `AtLeastOnce` or to
none (`NextPromise`): `BrokerAck` publishes, `replication_slot_create` reserves,
`send_checkpoint` advances, `exit_nicely` releases. `CheckpointDelivered` is what
makes an advance a legal one. One more inductive fact is needed, `RowInv`: the
client makes no row up, so what a broker stores was committed.

### The arguments for the other modules

- `SchemaStream`. `WillHave(r, n, s)` says that `s` is the schema the client will have for
  table `r` when it has processed the next `n` messages; `CacheCoherent` and `ChannelInv`
  are stated with it. Three lemmas move it along: a frame sent behind the channel does not
  disturb it (`WillHaveStays`), messages that announce nothing for the table extend it
  (`WillHaveMore`), and processing a message, row or schema, brings it one message nearer
  (`WillHaveSooner`). `LookupIs` shows that an entry that `schema_cache_entry_changed` lets
  pass equals the definition asked for. On the client's side the mapper compares ids only,
  so `MapperInv` has to say that the ids it holds are those of the reader's schemas, and
  `IsRegistry` that no two schemas share one: then an id that did not change means a schema
  that did not (`UpdateSchemaIs`). `KafkaInv` keeps the ids of what was produced, through
  exits and failed requests, because the registry only grows (`RegisteredIs`).
  `OptionsInv`: nothing happens before the options are parsed, and Avro means a registry.
- `Changelog`. `Logged` ties every version of the table to the one before through the
  log. `Records` says that an outstanding record tells the truth about its position and
  that what has changed since is outstanding too (`Covered`); `Topic` says the same of
  the record the reader holds (`Told`), or that the record is awaited. The lemma
  `ChangeRecords` does the work: the records of a change hold the rows it made, and there
  is one for every key whose row it changed, which is where a changed key must become a
  delete and an insert. A delivery report then moves a key from one true record to the
  next, and a replay starts again from a position that `Topic` still covers.
- `RowEncoding`. The loops over columns and attributes skip different things, so each has
  an invariant that says where it stands in terms of the columns. `FieldsInv`: the fields
  are the columns passed that are not dropped, in order. `UnionsInv`: every field has the
  union of its type, and `predef` holds the names its predecessors define, which is what
  makes a link point backwards. `RowInv`: the fields set belong to attributes passed, the
  others to attributes still to come; so the next attribute that is not dropped belongs to
  the next field (`NextField`), whether or not the tuple lists the dropped columns.
  `KeyInv` says the same of the search for a key column: the attributes before `tup_i` are
  those of the columns before `rel_i`. The lemma behind `KeysAreKeys` is `NextAttribute`:
  the test of `tuple_to_avro_key` is true exactly when the tuple has an attribute for the
  column looked at, and the attribute it reads for that is one of the tuple's. It rests
  on the tuple's descriptor being one of two kinds, which is `TableInv`.
- `TryWriting`. `BufferInv`: the size tried before was too small, and a result fits the
  buffer it was written to.
- `DebugClient`. `Stream` says that the position noted is not behind a commit of which a
  frame is still to come, and that each row of a commit decoded is printed or on its way.
  It is kept by `print_frame` because frames come in the order of commits (`Before`) and
  because a transaction has no records behind its commit (`Closed`), although the
  positions of the frames go back and forth. `Started` says of the position where the
  stream began what the property says of the slot's: the slot may go back behind it and
  forward again.
- `WebUpload`. `Stage` relates, file by file, the state of the stream, the database
  client, the connection, the COPY and the answer. `LocalStep` reduces a callback to the
  file it belongs to. `Heads` counts: a request that uploads has been answered exactly
  once for each of its files that have been answered (`AnswerHeads`).
- `Worker`. `TakenInv`: what was handed out is called back for, in progress or cut short.
  `GivenInv` counts: beyond the position only what a death or a failed shutdown has given
  back has been handed out. `RoundInv` is exact where `PortsBalanced` is an inequality: the
  ports up to the current one have been used once more than the last.
- `PropertyEditor`. `Collected`: the properties found are those of the variables looked
  at; `Good` and `Rest` follow the values from there to the properties, the file and the
  server. `PiecesOf` and `CutStep` say what is left of `Rest` when the writing is cut
  short: a property keeps its value, or is gone, or is cut.

### Sequences, and what is left to TLC

The encoding of `Len` that tlapm 1.4.5
hands to its SMT solver contradicts functions such as `xact_list`: a leaf that
mentions both can be proved whatever it says. An earlier version of `BottledWater`
had the log as a sequence, and some of its leaves were proved that way. The models
that proofs are about therefore have functions with an explicit end, or sets with an
order, where a sequence would be the first choice, and pairs (`Row`) are their only
tuples. `RowEncoding` has short lists of names, which its proofs only compare. The exception is `PropertyEditor`, where the names of variables and properties
are sequences: its proofs treat `propertyName` as an operator nothing is known of, except
in one lemma (`Unchanged`: what a name stands for depends on the command line only), whose
leaves are left to Zenon. As a guard, the leaves that the
SMT solver proves were also given to it with `FALSE` for their goal. It proves
`FALSE` only where the hypotheses are meant to be contradictory: a proof by
contradiction, or an implication whose antecedent the step rules out. For the
others it finds a model or, mostly, runs out of a short time limit, so this is
evidence and not a proof that they are consistent. The leaves proved by Zenon and
the temporal ones were not tried.

Only model-checked: all liveness properties, since the prover does not reason about
fairness, and `FrameProtocol`. A frame is written and read there by recursion over its
schema, and that the client reads what the server wrote is a statement about two recursive
functions, whose proof needs an induction over data that is out of the provers' reach. The
inductive invariants were checked with TLC on small instances too.

## 4. `SchemaStream`: schemas and rows

State. `catalog` is the definition of every table, `snap` the one the exported
snapshot sees, `wal` the row changes with the definition each was made under (a
logical decoder sees the catalog of that time). `cache` is the schema cache of the
session at hand, `chan` the messages on their way, `reader` and `mapper` what the
client keeps per table, `registry` the ids of the schemas registered
and `kafka` the messages produced. Encoded bytes are represented by the schema they
were encoded with; a message in Kafka also records the definition of its row, which
only the properties look at. `opts` holds the options that decide on the format: the
mapper looks for a registry, `send_kafka_msg` at the output format.

| Action | Code |
|---|---|
| `parse_option`, `parse_options` | the options in any order and number, and the default registry at their end |
| `CreateSlot`, `get_table_list`, `format_snapshot_row`, `close_current_table`, `SnapshotDone` | the slot, and `bottledwater_export` call by call |
| `output_avro_change`, `ResumeStream` | the output plugin: a change, and the start of a session with an empty cache |
| `process_frame_table_schema`, `table_mapper_error` | a schema message, through `on_table_schema` to `table_mapper_update`, or its failure |
| `process_frame_row` | an insert, update or delete message, through its callback to `send_kafka_msg` |
| `Stop` | any end of the client or of its connections |
| `AlterTable`, `ChangeRow` | Postgres (external) |

The messages of a frame enter the channel together (`write_frame`) and are processed
in turn. `wal_end` and `chan_end` are the numbers of changes and messages. Deletes without a key are dropped, key-changing updates are a delete and an
insert. A definition has a part that Avro does not express (`attrs`), so that the
same schema may be announced twice in a session. External behaviour assumed: tables
being exported cannot be altered (the export holds locks until its transaction
ends), the registry gives equal schemas equal ids, a request to it may fail before or
after it took the schema (`registry_parse_response_error`), and the frames of a session arrive in order. A rename that hands a table's name to another
table between slot creation and export is left out; a plain rename in that window
makes the export fail, which is `Stop`.

| Run | Bounds | Checks |
|---|---|---|
| `schema` | every command line; 1 table, 2 alterations, 2 changes, 1 snapshot row, 1 exit | all properties but `KeyedByDefault` |
| `unkeyed` | the same, without `allow_unkeyed` | `KeyedByDefault` is violated (finding 3) |

- `CacheCoherent`: what the server believes announced is what the client has or is
  about to have.
- `RowsDecodable`: a row on its way meets the schema it was encoded with, and that
  is the schema of its own definition.
- `Published`, `RightTopic`: ids, JSON conversion, topic and key of every message
  produced, whatever the order of the options that set the format and the registry.
- `MapperAgrees`: the mapper, which compares ids, follows the reader.
- `ReUpdateIdempotent`: the claim of the comment at `table_mapper.c:68-69`.

Two alterations suffice to lose and regain a key or a name; one exit at any point
replays changes into a registry that already knows some schemas. Names, columns and
keys are interchangeable (symmetry in `MCSchemaStream`); no liveness is checked with
it. Deadlock is not checked: a walsender that has caught up rests until the
next change, and the model's changes are bounded.

Finding 3 (`snapshot.c:276`). Keys are checked once, against the catalog of the
snapshot; a key dropped after the slot was created goes unnoticed, by the export and
by the stream. The usage text (`bottledwater.c:134-136`) says that exporting tables
without a primary key "is disallowed by default".

All six properties are proved for any tables, definitions and bounds (section 3). Two
things about the registry are outside the model. No timeout is set on a request, so that a silent registry holds up the whole client;
and `schema_registry_set_url` looks for a trailing slash at the null byte
(`registry.c:52`), so that a slash is kept and requests go to `<url>//subjects/...`.

## 5. `Changelog`: keys, values and the topic

One table with its topic, seen by a reader who keeps the latest record of every key.
`versions[n]` is the table after `n` changes and `wal[n]` the `n`-th change, up to
`last`; `out` is the set of records handed to the producer and not yet acknowledged
(their positions order them), `latest` the reader's copy, `kind` the table's replica
identity and indexes.

| Definition | Code |
|---|---|
| `table_key_index`, `extract_tuple_key` | which index gives the key (`oid2avro.c`, `protocol_server.c`) |
| `update_frame_with_insert`, `_update`, `_delete`, `on_delete_row` | the records a change becomes, with the change of a key as a delete and an insert |
| `StartSnapshot`, `snapshot_tuple`, `snapshot_end`, `StartStream`, `ReceiveChange` | `db_client_start` and the frames |
| `on_deliver_msg`, `Durable`, `fsync_lsn`, `send_checkpoint` | acknowledgements in the order of a key (the consistent partitioner), and the position they allow |
| `Die` | the ends of the process, with or without dropping the slot |
| `Insert`, `Update`, `Delete`, `OldTuple` | Postgres (external): changes, and which of them log an old tuple |

The circular buffer is reduced to what section 2 shows of it: a position is confirmed
once no earlier record is outstanding. A snapshot that is given up leaves keys whose
record may be missing or left over; the history variable `loose` names them, and the
properties leave them out until their next record (findings 1 and 2 are about them).

| Run | Bounds | Checks |
|---|---|---|
| `changelog` | 2 keys, 2 values, 2 changes, 2 deaths, all kinds of table whose identity is intact, `FairSpec` | `NotBehind`, `Converged`, `EventuallyConverged` |

- `NotBehind`: the copy is never older than the position the slot remembers, and a
  replay after a restart does not take it further back.
- `Converged`: a client that has caught up has made the copy equal to the table, so
  deleted rows and abandoned keys leave nothing behind.
- `EventuallyConverged`: a table that is left alone is copied in the end.

Two changes are enough for a row to be inserted and moved to another key or deleted,
before, in or after a snapshot, and two deaths for a snapshot to be given up and its
successor to be interrupted as well.

Fairness: the client's loop runs and the brokers answer, as in section 2. Deadlock is
not checked here or in the following modules: they all come to rest when their
bounds are used up.

A restriction (`oid2avro.c:67`). When the index named as replica identity has been
dropped, `table_key_index` falls through to the primary key, but Postgres logs no old
tuple for such a table: a change of the primary key is sent as a plain update and the
record under the old key stays, where the comment at `protocol_server.c:127` says "If
the primary key changed, turn the update into a delete and an insert." The run is
restricted to tables whose identity index is there (`Sound`), and the theorems have the
hypothesis `IndexThere`. The comment at
`protocol_server.c:111-112` has it the wrong way round: with the default identity the
old tuple is there when the key *was* modified.

## 6. `FrameProtocol`: frames, field by field

The schema of a frame is built in `protocol.c`, filled in `protocol_server.c` and
taken apart in `protocol_client.c`, two programs that share only the numbers of
`protocol.h`. The module has the schema as data (`schema_for_frame`: a union of
records with their fields in order), the server's `update_frame_with_*` as values of
it, Avro's encoding as a sequence of branch numbers and plain values (external), and
the client's `process_frame_*` with the values that a schema list entry keeps from
message to message. `output` sends any of the frames the plugin can build, for two
tables with and without keys; `parse_frame` and `process_frame` read it message by
message.

Run `wire`: `CallbacksGetWhatWasSent` (every frame can be encoded under the protocol's
schema, and the callbacks are handed what the plugin was given, an absent key or old
row as absent and not as the value of an earlier message). One xid, LSN and schema text, two keys and two rows per table:
the entries' reuse needs two messages for one table that differ in each field.

## 7. `RowEncoding` and `TryWriting`: from tuples to bytes

`RowEncoding` takes the loops of `schema_for_table_row`, `tuple_to_avro_row` and
`tuple_to_avro_key` one column per step, and the inner loop of `tuple_to_avro_key`, which
looks for an attribute of the tuple, one column per step as well (`search_attribute`). A table's columns have a type and may be
dropped; the tuple's descriptor may hold the dropped columns or leave them out. Types
are the classes that the two `switch` statements tell apart, and a value is null,
infinite or finite with the column it belongs to. Schemas are unions with named
records, defined at their first use and referred to after that (`predef`).

`TryWriting` is the loop of `try_writing`, called time and again: a buffer that grows
by a factor of four until the value and a null byte fit. `RowEncoding` extends it:
once a row and its key are encoded, what was encoded is written (`write_avro_binary`),
with any of the lengths around the sizes of the buffer, and the tuple is dropped from
the state.

Run `rows`, over two families of tables (`MCRowEncoding`): up to 3 columns of 6 types
with a key of one column, and up to 4 columns of 2 types with keys of up to 2 columns
in any order; any column may be dropped, and the tuple may or may not know of it.

- `SchemaValid`: the fields are the columns that are not dropped, in order, null comes
  first in every union, and every name is defined where it first occurs and nowhere else.
- `RowReadsBack`: every field reads back as the value of its own column, and none is left
  unset. A numeric column is excepted: its value is not written (`oid2avro.c`, "TODO").
- `KeyIsKey`: the key's fields are the row's fields of the index's columns, and the search
  for a column neither fails nor leaves the tuple.
- `Terminated`: what is returned is the whole value, with room for the null byte that
  `update_frame_with_table_schema` counts on.
- `RefusedTooLarge`: only what cannot fit is refused.

The 6 types are those that define named records, and one plain type; the remaining
plain types differ by the name of their Avro type only. Three columns allow a name to
be defined by one, used by another and by a third after a dropped one. All five are
theorems (section 3): the first three for tables of any width, with any types and keys,
the last two for every length, about `BufferSpec`, in which calls of any length follow each
other and which the conversion implements.

## 8. `DebugClient`

`bwtest.c`, on the same client library: it looks for its slot, creates it and prints
the snapshot if there is none, then prints the stream. It moves its checkpoint at every
frame, in the middle of transactions, so here the log holds the single records of
transactions that run at the same time, and frames come with the positions the
decoder gives them. The frames on their way are a set, and `Before` says in which order
they are sent. Errors may come at any call (`fail`, then `exit_nicely`), the
process may be killed (`Crash`), and a slot may have been created although its
creation is reported as failed. The slot takes any position the client reports, also one
behind its own, which a client reports that is sent a transaction with early records.

Run `debug`: two transactions of up to two rows, interleaved in every way, before, in
and after the snapshot, and two faults.

- `SkippedIsPrinted`: the position the slot remembers skips only transactions printed
  in full, or in the snapshot that is being printed. A client that is killed during
  its snapshot leaves a slot behind that the next one streams from; the history
  variable `orphan` excepts it, as finding 1 is about this.
- `EventuallyPrinted`: under weak fairness of server and client, and a user who starts
  it again, every committed transaction is printed.

One client uses the slot at a time. Both programs default to the same slot name, and
`db_client_start` (`connect.c:74`) only asks whether there is a slot: a client started
while another one takes its snapshot would stream from a slot whose snapshot is not
complete. Nothing in the repository says that this is supported.

## 9. `WebUpload`: uploads

Requests with their form, and for every file of a form its stream, database client,
connection and COPY; one action per callback of `web.js` (`create_server`, `on_file`,
`form_ends`, `connect_error`, `connected`, `on_finish`, `on_error`, `on_drain`,
`web_start`, `web_shutdown`), with `file_arrives` for the parser and `copy_complete` for
the server's side of a COPY. `on_file` runs for every file part of a form, so a request
has any number of files, none included; they share its response. The parser reads one
file to its end before it comes upon the next, but the callbacks of a file go on after
its end, so those of all files and all requests interleave. Assumed of the
libraries: `finish` is emitted when the last of the file is written and does not wait
for the server, `drain` when the client has no query left, an error stops the pipe. A
connection that is lost after the whole file was sent may or may not have stored it.

An exception that nobody catches ends the process (`server = "ended"`), as do an exit and
a signal; one life of the process is modelled, since a restart finds no state of the one
before. Besides `on_drain` without a client, the exceptions are `new busboy` with headers
it does not take (`web.js:67`), and the head of a second answer: in the release the
repository installs it is dropped, in later ones it throws (`write_head` has both).

Run `upload`: 2 requests, 2 files, which are parts of one form or of two, 1 connection,
all faults, `FairWebSpec`.

- `OneAnswerPerFile`: a request is answered at most once per file of its form. The page
  `display_form` serves has one file field; for a form with two files the code does
  answer twice, as every file part calls `display_msg` on the same response.
- `EndedOnce`: no callback ends a database client that is gone.
- `ProcessedIsStored`: a file reported as being processed is stored later, unless its
  COPY fails after the report (nothing takes it back then) or the process ends.
- `AnsweredUnlessFailed`: every file is answered, unless its COPY fails before the
  file has been sent (`web.js:120` only logs such an error, although `display_msg` has
  an answer for "There was a problem with the database", `web.js:40-46`) or the request
  breaks off in it. It is about files: a form that has none only reaches the `finish` of
  the parser (`web.js:163`), and its request is never answered.
- `ConnectionEnds`: every connection is closed, unless the request breaks off in its
  file: nothing ends its COPY then, and the connection is kept, where `web.js:84-86` wants
  connections closed "as fast as possible".

Fairness: every callback that node or the database owes comes sooner or later, and a file
that is being read from arrives; faults, shutdown, new requests and further parts of a
form need not. The callbacks of two files meet only in the response and in the number of
connections, so two files and one connection have every way in which they can: two
answers in either order, and a file that is refused or waits while the other one has the
connection, for good if its request has broken off.

## 10. `Worker`: consuming the topic

Workers join the group through the REST proxy (external: it owns position, committed
offset and assignment), take batches and make one query per message, each call with a
client of its own on the next port. One action per callback, except that the handler of
`data` takes one step per turn of its loop (`on_data`, then `process_message` for each
message, while no other callback of the process may run: `Idle`); the calls of all batches
of a process interleave, and an uncaught exception ends it. One partition is enough:
partitions share nothing but the process.

A worker that is told to stop, or whose consumer or stream fails, shuts its consumer
instance down (`shutdown`, whose outcome `log_shutdown` logs). If that fails the worker
ends all the same; the proxy notices that the instance is gone and gives the partition to
another worker, from the position committed by then (`Forget`).

Run `worker`: 2 workers, 2 ports, 2 messages, all faults, `FairSpec`; after more than one
death or failed shutdown (`MaxLosses`) no process is started again and no shutdown fails.
A message is a row, a row without an email or a deletion; a row without a name throws at
the same place as a deletion and is left to the theorems.

- `CommittedIsHandled`: offsets are committed whatever the callbacks do; still a
  committed message is lost only with a process that ended with an error. Batches, a
  clean stop and changes of the group lose none.
- `PortsBalanced`: over all batches of a process no port is used more than once more
  than another.
- `AgainOnlyAfterLoss`: a message is given out again at most once per process that ended
  with an error and per shutdown that failed; joining and shutting down cleanly hand the
  partition over where it is.
- `EveryMessageTaken`: every message is taken and called back for, or cut short by the
  end of its process, unless all workers are gone for good.

Two messages make a batch of two, or two batches of one whose callbacks interleave, in
one process or in two. The index of the port goes through both ports in the run; that it
starts again from the first one, and for any number of ports, is part of the theorem
`PortsAlwaysBalanced`.

Fairness: supervisor starts the processes, node runs the callbacks, the proxy hands
out what there is. A worker that stops cleanly stays down, as supervisor restarts
only unexpected exits; nothing in the repository promises otherwise.

`msg['name']['string']` (`worker.js:108`) throws for a line with an empty name; the
process exits and takes the rest of its batch along, which has been committed.
`CommittedIsHandled` allows this loss; `src/readme.md:30` and `:34` say that each line is
processed and queried for.

## 11. `PropertyEditor`: starting a container

`PropertyEditor.java` and the order of `start_server.sh`: load the file, look at the
variables of the environment in any order, override, truncate, store, start the
server whatever the editor's exit status was. Reading, opening and writing the file may
fail, and so may a pattern; the editor then throws (`threw`), and the server is started on
the file as it is. Containers are restarted on the file that the previous start left, and
may die at any point. A writing that is cut short, by a death or by an I/O error (`torn`),
leaves some lines of the file and perhaps a part of one more (`Pieces`), with the value
cut or with the name. Names of variables are sequences of pieces, so that prefixes,
underscores and capitals can be told apart.

Run `editor`: the command lines of `04-rest` and `01-zookeeper`, and one with an include
pattern without its group, on which the editor throws; every environment over their
four or five variables, 2 values, I/O errors at every access, 2 deaths.

- `ServesEnvironment`: unless the editor of this start threw, a server runs with the
  values of the environment, even after a writing that was cut short.
- `KeepsTheRest`: in the file of every server, what no variable names is as in the image.
  If the writing was ever cut short it may be missing or cut instead, for good, since
  every later start works from what is left; another value it never gets.

## 12. What is not modelled, and why

- Values and their text: the arithmetic of dates, Avro's bytes, the text of JSON
  messages, what is printed or logged. They carry no state, and the properties are
  about which value goes where.
- Two clients running on one slot at the same time (section 8).
- The URL of the registry, the pieces and the JSON of its answers (section 4).
- In `snapshot.c`, the SQL functions that return single schemas, and a table that
  takes over the name of another between the creation of the slot and the export.
- Options that are handed on to librdkafka, memory management, the lifetime of C
  buffers. 64-bit LSNs and 32-bit xids are not counted up to their limits: the code
  compares them and does no arithmetic on them.
- The download of a configuration file in `start_server.sh`, `start.js`, `logger.js`
  and `config/`: set-up and I/O.
- Postgres, Kafka, librdkafka, the registry, the REST proxy, pgpool, PgBouncer,
  HAProxy, Zookeeper, Logstash: third-party software, present as external actions
  where the code depends on it. Their configuration files hold no algorithm of this
  repository.
- Things the models take for granted or leave out: librdkafka's order under retries
  (it depends on settings handed on with `-C`), rows left over from a snapshot that
  was given up (`loose` in `Changelog`), a topic shared by tables of one name in two
  namespaces, a worker that stays down after an error of its consumer instance, a stale
  `errno` after `rd_kafka_produce`, a dangling buffer in `table_mapper.c`.
