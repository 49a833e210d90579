------------------------------ MODULE Worker -------------------------------
(***************************************************************************)
(* The workers (04-app/nodeapp/lib/worker.js): each one joins the consumer *)
(* group through the Confluent REST proxy, takes batches of messages of    *)
(* the table's topic and, for each message, opens a database client of its *)
(* own, on the next of the available ports, and makes one query.  All the  *)
(* callbacks of a process interleave, between the batches; offsets are     *)
(* committed by the proxy whatever the callbacks do, and an uncaught       *)
(* exception ends the process.                                             *)
(*                                                                         *)
(* One partition of the topic is modelled; the proxy gives it to one       *)
(* worker of the group at a time.                                          *)
(***************************************************************************)
EXTENDS Integers, FiniteSets

CONSTANTS
  Workers,
  PortsAmount, \* db.ports_amount
  Values,      \* the messages produced: a subset of ValueKinds
  Faults,      \* what may go wrong: a subset of FaultKinds
  MaxMsgs,     \* bound: messages in the topic
  MaxLosses    \* bound: with more deaths and failed shutdowns than this, no
               \* process is started and no shutdown fails

\* A row of the table, a row whose name or email is NULL (an empty field of the
\* file), and the null value a deleted row leaves
ValueKinds == {"row", "no_name", "no_email", "deleted"}

\* "db": a connection or a query fails; "proxy": the proxy or its stream
\* fails; "stop": the operator stops a worker; "kill": a process is killed
FaultKinds == {"db", "proxy", "stop", "kill"}

ASSUME WorkerAssumption ==
  /\ PortsAmount \in Nat \ {0} /\ MaxMsgs \in Nat /\ MaxLosses \in Nat
  /\ Values \subseteq ValueKinds /\ Faults \subseteq FaultKinds

VARIABLES
  topic,     \* topic[o]: the value produced at offset o, or "none"
  log_end,   \* the last offset produced
  position,  \* the last offset the proxy has handed out
  committed, \* the last offset committed for the group
  owner,     \* the worker the partition is assigned to, or "none"
  status,    \* status[w]: "down", "joining", "running", "stopping" or "stopped"
  current_port_index,
  batch,     \* batch[w]: the offsets the loop of the data handler has before it
  jobs,      \* jobs[w]: the calls of process_message still to call back
  uses,      \* uses[w][p]: clients the process has created on port p
  given,     \* given[o]: how often message o was handed to a worker
  handled,   \* the offsets whose callback has run
  abandoned, \* the offsets whose call was cut short by the end of a process
  deaths,
  close_errors \* shutdowns that ended with an error

vars == <<topic, log_end, position, committed, owner, status, current_port_index, batch,
          jobs, uses, given, handled, abandoned, deaths, close_errors>>

Offsets == 1..MaxMsgs
Ports == 0..(PortsAmount - 1)

Init ==
  /\ topic = [o \in Offsets |-> "none"] /\ log_end = 0
  /\ position = 0 /\ committed = 0 /\ owner = "none"
  /\ status = [w \in Workers |-> "down"]
  /\ current_port_index = [w \in Workers |-> -1]
  /\ batch = [w \in Workers |-> {}] /\ jobs = [w \in Workers |-> {}]
  /\ uses = [w \in Workers |-> [p \in Ports |-> 0]]
  /\ given = [o \in Offsets |-> 0]
  /\ handled = {} /\ abandoned = {} /\ deaths = 0 /\ close_errors = 0

group == <<position, committed, owner>>
process == <<status, current_port_index, batch, jobs, uses, deaths>>
history == <<given, handled, abandoned, close_errors>>
-----------------------------------------------------------------------------
(* Kafka and the REST proxy *)

produce(v) ==
  /\ log_end < MaxMsgs
  /\ log_end' = log_end + 1
  /\ topic' = [topic EXCEPT ![log_end + 1] = v]
  /\ UNCHANGED <<group, process, history>>

\* "auto.commit.enable": the proxy commits what it has handed out
auto_commit ==
  /\ owner # "none" /\ committed # position
  /\ committed' = position
  /\ UNCHANGED <<topic, log_end, position, owner, process, history>>

\* The group without w, or with w as well: its partition is committed and
\* assigned again
Rebalance(heirs) ==
  /\ committed' = position
  /\ IF heirs = {} THEN owner' = "none" ELSE owner' \in heirs
  /\ UNCHANGED position

\* An instance that was not closed by its process is closed by the proxy after a
\* while, or is lost with the proxy
Forget(heirs) ==
  /\ committed' \in {committed, position}
  /\ position' = committed'
  /\ IF heirs = {} THEN owner' = "none" ELSE owner' \in heirs

Running == {w \in Workers : status[w] = "running"}

\* No handler is at work: node may run another callback
Idle(w) == batch[w] = {}
-----------------------------------------------------------------------------
(* One worker process *)

\* The database is tested; on an error the process exits with an error code
\* and is started again
start(w) ==
  /\ status[w] = "down" /\ deaths + close_errors <= MaxLosses
  /\ status' = [status EXCEPT ![w] = "joining"]
  /\ UNCHANGED <<topic, log_end, group, current_port_index, batch, jobs, uses, deaths, history>>

\* Variant: the instance does not subscribe to the topic
worker_start_unsubscribed(w, err) ==
  /\ status[w] = "joining"
  /\ err => "proxy" \in Faults
  /\ status' = [status EXCEPT ![w] = IF err THEN "stopped" ELSE "running"]
  /\ UNCHANGED <<topic, log_end, group, current_port_index, batch, jobs, uses, deaths, history>>

\* kafka.consumer(...).join: an error is logged, and nothing is left to do
worker_start(w, err) ==
  /\ status[w] = "joining"
  /\ err => "proxy" \in Faults
  /\ status' = [status EXCEPT ![w] = IF err THEN "stopped" ELSE "running"]
  /\ IF err THEN UNCHANGED group ELSE Rebalance(Running \cup {w})
  /\ UNCHANGED <<topic, log_end, current_port_index, batch, jobs, uses, deaths, history>>

\* Variant: the last port is never used
round_robin_port_short(i) == IF i < PortsAmount - 2 THEN i + 1 ELSE 0

round_robin_port(i) == IF i < PortsAmount - 1 THEN i + 1 ELSE 0

\* db.client_with_index falls back to the first port
client_with_index(i) == IF i \in Ports THEN i ELSE 0

\* Variant: the loop leaves out the first message
on_data_short(w, n) ==
  /\ owner = w /\ status[w] = "running" /\ Idle(w) /\ position + n <= log_end
  /\ batch' = [batch EXCEPT ![w] = position+2..position+n]
  /\ given' = [o \in Offsets |-> given[o] + IF o \in position+1..position+n THEN 1 ELSE 0]
  /\ position' = position + n
  /\ UNCHANGED <<topic, log_end, committed, owner, status, current_port_index, jobs, uses,
                 deaths, handled, abandoned, close_errors>>

\* rp_stream.on('data'): n messages were handed out; the loop over them follows
on_data(w, n) ==
  /\ owner = w /\ status[w] = "running" /\ Idle(w) /\ position + n <= log_end
  /\ batch' = [batch EXCEPT ![w] = position+1..position+n]
  /\ given' = [o \in Offsets |-> given[o] + IF o \in position+1..position+n THEN 1 ELSE 0]
  /\ position' = position + n
  /\ UNCHANGED <<topic, log_end, committed, owner, status, current_port_index, jobs, uses,
                 deaths, handled, abandoned, close_errors>>

\* A turn of the loop: a database client for the next message, on the next port
process_message(w, o) ==
  LET i == round_robin_port(current_port_index[w])
      port == client_with_index(i)
  IN  /\ o \in batch[w] /\ \A x \in batch[w] : o <= x
      /\ batch' = [batch EXCEPT ![w] = @ \ {o}]
      /\ current_port_index' = [current_port_index EXCEPT ![w] = i]
      /\ jobs' = [jobs EXCEPT ![w] = @ \cup {[off |-> o, port |-> port, stage |-> "connecting"]}]
      /\ uses' = [uses EXCEPT ![w][port] = @ + 1]
      /\ UNCHANGED <<topic, log_end, group, status, deaths, history>>

\* What a process keeps in memory
Forgotten(w) ==
  /\ current_port_index' = [current_port_index EXCEPT ![w] = -1]
  /\ uses' = [uses EXCEPT ![w] = [p \in Ports |-> 0]]

\* The process ends with an error, and with it every pending callback
Die(w) ==
  /\ deaths' = deaths + 1
  /\ status' = [status EXCEPT ![w] = "down"]
  /\ abandoned' = abandoned \cup batch[w] \cup {j.off : j \in jobs[w]}
  /\ batch' = [batch EXCEPT ![w] = {}] /\ jobs' = [jobs EXCEPT ![w] = {}]
  /\ IF owner = w THEN Forget(Running \ {w}) ELSE UNCHANGED group
  /\ Forgotten(w)

\* The callback of the caller: an error is logged, or the message with the count
Settle(w, j) ==
  /\ jobs' = [jobs EXCEPT ![w] = @ \ {j}]
  /\ handled' = handled \cup {j.off}
  /\ UNCHANGED <<group, status, current_port_index, batch, uses, deaths, abandoned>>

\* The callback of db_client.connect: msg['name']['string'] throws if the
\* message, or its name, is null
connect_callback(w, j, err) ==
  /\ Idle(w) /\ j \in jobs[w] /\ j.stage = "connecting"
  /\ err => "db" \in Faults
  /\ \/ err /\ Settle(w, j)
     \/ /\ ~err /\ topic[j.off] \in {"no_name", "deleted"}
        /\ Die(w) /\ UNCHANGED handled
     \/ /\ ~err /\ topic[j.off] \notin {"no_name", "deleted"}
        /\ jobs' = [jobs EXCEPT ![w] = (@ \ {j}) \cup {[j EXCEPT !.stage = "querying"]}]
        /\ UNCHANGED <<group, status, current_port_index, batch, uses, deaths, handled, abandoned>>
  /\ UNCHANGED <<topic, log_end, given, close_errors>>

\* The callback of the query: the message is logged, which throws if its email
\* is null
query_callback(w, j, err) ==
  /\ Idle(w) /\ j \in jobs[w] /\ j.stage = "querying"
  /\ err => "db" \in Faults
  /\ \/ ~err /\ topic[j.off] = "no_email" /\ Die(w) /\ UNCHANGED handled
     \/ (err \/ topic[j.off] # "no_email") /\ Settle(w, j)
  /\ UNCHANGED <<topic, log_end, given, close_errors>>

\* The callback of the shutdown: its outcome is logged
log_shutdown(err) == close_errors' = close_errors + IF err THEN 1 ELSE 0

\* Variant: the consumer instance is not closed
shutdown_unclosed(w, err) ==
  /\ status[w] = "running" /\ Idle(w) /\ {"stop", "proxy"} \cap Faults # {}
  /\ err => "proxy" \in Faults /\ deaths + close_errors <= MaxLosses
  /\ status' = [status EXCEPT ![w] = "stopping"]
  /\ IF owner = w THEN Forget(Running \ {w}) ELSE UNCHANGED group
  /\ log_shutdown(err)
  /\ UNCHANGED <<topic, log_end, current_port_index, batch, jobs, uses, deaths, given, handled,
                 abandoned>>

\* consumer_instance.shutdown, on SIGINT, on an error of the consumer or of
\* the stream and at the end of the stream; pending calls go on.  The proxy
\* closes the instance, or fails to: then it has still to find out.
shutdown(w, err) ==
  /\ status[w] = "running" /\ Idle(w) /\ {"stop", "proxy"} \cap Faults # {}
  /\ err => "proxy" \in Faults /\ deaths + close_errors <= MaxLosses
  /\ status' = [status EXCEPT ![w] = "stopping"]
  /\ IF owner # w THEN UNCHANGED group
     ELSE IF err THEN Forget(Running \ {w}) ELSE Rebalance(Running \ {w})
  /\ log_shutdown(err)
  /\ UNCHANGED <<topic, log_end, current_port_index, batch, jobs, uses, deaths, given, handled,
                 abandoned>>

\* node ends, without an error code, when no callback is pending; supervisor
\* then does not start the worker again
exit(w) ==
  /\ status[w] = "stopping" /\ Idle(w) /\ jobs[w] = {}
  /\ status' = [status EXCEPT ![w] = "stopped"]
  /\ Forgotten(w)
  /\ UNCHANGED <<topic, log_end, group, batch, jobs, deaths, history>>

kill(w) ==
  /\ "kill" \in Faults /\ status[w] \in {"joining", "running", "stopping"}
  /\ Die(w)
  /\ UNCHANGED <<topic, log_end, given, handled, close_errors>>

Step(w) ==
  \/ start(w) \/ exit(w)
  \/ \E err \in BOOLEAN : worker_start(w, err)
  \/ \E o \in batch[w] : process_message(w, o)
  \/ \E j \in jobs[w], err \in BOOLEAN : connect_callback(w, j, err) \/ query_callback(w, j, err)

Take(w) == \E n \in Offsets : on_data(w, n)

Next ==
  \/ \E v \in Values : produce(v)
  \/ auto_commit
  \/ \E w \in Workers : Step(w) \/ Take(w) \/ kill(w) \/ \E err \in BOOLEAN : shutdown(w, err)

Spec == Init /\ [][Next]_vars

\* supervisor starts the processes, node runs the callbacks of every call, and
\* the proxy's stream hands out what there is
FairSpec == Spec /\ \A w \in Workers : WF_vars(Step(w)) /\ WF_vars(Take(w))
-----------------------------------------------------------------------------
(* Properties *)

\* The offsets a worker has still to call back for
InProgress == UNION {batch[w] \cup {j.off : j \in jobs[w]} : w \in Workers}

\* Across all the batches of a process no port has been used more than once
\* more than another one (round_robin_port, "in order to avoid the port
\* exahustion problem").
PortsBalanced ==
  \A w \in Workers : \A p, q \in Ports : uses[w][p] <= uses[w][q] + 1

\* A committed message has been called back, or will be, or was cut short when
\* its process ended with an error: neither batches, nor a clean stop, nor a
\* change of the group's members skips one (the loop of the data handler,
\* consumer_instance.shutdown).
CommittedIsHandled ==
  \A o \in 1..committed : o \in handled \cup abandoned \cup InProgress

\* A message is processed again at most once for every process that ended with an
\* error and for every shutdown that failed: a worker that joins, or that shuts
\* down cleanly, hands the partition over where it is (log_shutdown's "shutdown
\* cleanly").
AgainOnlyAfterLoss == \A o \in Offsets : given[o] <= 1 + deaths + close_errors

\* Every message of the topic is given to a worker, which calls back or is cut
\* short by its end, unless all workers are gone for good (the data handler,
\* supervisor).
EveryMessageTaken ==
  \A o \in Offsets : log_end >= o ~>
    (o \in handled \cup abandoned \/ [](\A w \in Workers : status[w] \in {"down", "stopped"}))
=============================================================================
