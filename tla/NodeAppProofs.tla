--------------------------- MODULE NodeAppProofs ---------------------------
(***************************************************************************)
(* Proofs about the two services of the Node application: module Worker,   *)
(* for any number of workers, ports, messages, deaths and failed           *)
(* shutdowns, and module WebUpload, for any number of requests, files and  *)
(* connections and whatever faults may happen.                             *)
(***************************************************************************)
EXTENDS Worker, WebUpload, FiniteSetTheorems, TLAPS

Job == [off : Int, port : Ports, stage : {"connecting", "querying"}]

Types ==
  /\ position \in Nat /\ committed \in Nat /\ deaths \in Nat /\ close_errors \in Nat
  /\ current_port_index \in [Workers -> -1..(PortsAmount - 1)]
  /\ batch \in [Workers -> SUBSET Int] /\ jobs \in [Workers -> SUBSET Job]
  /\ uses \in [Workers -> [Ports -> Nat]] /\ given \in [Offsets -> Nat]

\* Worker w has still to call back for offset o
Has(w, o) == o \in batch[w] \/ \E j \in jobs[w] : j.off = o

\* Whatever was handed out, and is not handed out again, is accounted for
TakenInv ==
  \A o \in 1..position : o \in handled \/ o \in abandoned \/ \E w \in Workers : Has(w, o)

\* Beyond the position only what a death or a failed shutdown has given back has
\* been handed out
GivenInv ==
  \A o \in Offsets : given[o] <= deaths + close_errors + IF o <= position THEN 1 ELSE 0

\* The ports up to the current one have been used once more than the others,
\* unless the round is complete
Ahead(i, p) == IF p <= i /\ i < PortsAmount - 1 THEN 1 ELSE 0
RoundInv ==
  \A w \in Workers : \A p \in Ports :
    uses[w][p] = uses[w][PortsAmount - 1] + Ahead(current_port_index[w], p)

\* The inductive invariant
IInv == Types /\ committed <= position /\ TakenInv /\ GivenInv /\ RoundInv
-----------------------------------------------------------------------------
\* There is a last port, and round_robin_port names a port db.client_with_index
\* takes as it is.
LEMMA PortFacts ==
  /\ PortsAmount \in Nat /\ PortsAmount >= 1 /\ PortsAmount - 1 \in Ports
  /\ \A i \in -1..(PortsAmount - 1) :
       round_robin_port(i) \in Ports /\ client_with_index(round_robin_port(i)) = round_robin_port(i)
<1>1. PortsAmount \in Nat /\ PortsAmount >= 1
  BY WorkerAssumption
<1>. QED
  BY <1>1 DEF Ports, round_robin_port, client_with_index

\* Nothing has happened yet
LEMMA InitIInv == Init => IInv
<1>. SUFFICES ASSUME Init PROVE IInv
  OBVIOUS
<1>1. Types
  BY PortFacts DEF Init, Types
<1>2. committed <= position /\ TakenInv
  BY DEF Init, TakenInv
<1>3. GivenInv
  BY DEF Init, GivenInv
<1>4. RoundInv
  BY PortFacts DEF Init, RoundInv, Ahead, Ports
<1>. QED
  BY <1>1, <1>2, <1>3, <1>4 DEF IInv

\* Steps of Kafka and of the proxy, and steps of a process that leave its batch,
\* its calls and its ports alone
LEMMA QuietStep ==
  ASSUME IInv, UNCHANGED <<current_port_index, batch, jobs, uses, deaths, history>>,
         position' = position, committed' \in {committed, position}
  PROVE  IInv'
<1>1. Types'
  BY DEF IInv, Types, history
<1>2. committed' <= position'
  BY DEF IInv, Types
<1>3. TakenInv'
  BY DEF IInv, TakenInv, Has, history
<1>4. GivenInv'
  BY DEF IInv, GivenInv, history
<1>5. RoundInv'
  BY DEF IInv, RoundInv, Ahead
<1>. QED
  BY <1>1, <1>2, <1>3, <1>4, <1>5 DEF IInv

\* The proxy hands out a batch: it was not handed out before, or given back.
LEMMA OnDataStep ==
  ASSUME IInv, NEW w \in Workers, NEW n \in Offsets, on_data(w, n)
  PROVE  IInv'
<1>1. /\ batch[w] = {} /\ batch' = [batch EXCEPT ![w] = position+1..position+n]
      /\ given' = [o \in Offsets |-> given[o] + IF o \in position+1..position+n THEN 1 ELSE 0]
      /\ position' = position + n
      /\ UNCHANGED <<committed, current_port_index, jobs, uses, deaths, close_errors, handled,
                     abandoned>>
  BY DEF on_data, Idle
<1>2. n \in Nat /\ n >= 1 /\ Types
  BY WorkerAssumption DEF Offsets, IInv
<1>3. Types'
  BY <1>1, <1>2 DEF Types, Offsets
<1>4. committed' <= position'
  BY <1>1, <1>2 DEF IInv, Types
<1>5. TakenInv'
  <2>. SUFFICES ASSUME NEW o \in 1..position'
                PROVE  o \in handled \/ o \in abandoned \/ \E v \in Workers : Has(v, o)'
    BY <1>1 DEF TakenInv
  <2>1. CASE o \in position+1..position+n
    <3>1. o \in batch'[w]
      BY <1>1, <1>2, <2>1 DEF Types
    <3>. QED
      BY <3>1 DEF Has
  <2>2. CASE o \in 1..position
    <3>1. ASSUME NEW v \in Workers, Has(v, o) PROVE Has(v, o)'
      BY <1>1, <1>2, <3>1, Zenon DEF Has, Types
    <3>. QED
      BY <2>2, <3>1 DEF IInv, TakenInv
  <2>. QED
    BY <1>1, <1>2, <2>1, <2>2 DEF Types
<1>6. GivenInv'
  <2>. SUFFICES ASSUME NEW o \in Offsets
                PROVE  given'[o] <= deaths + close_errors + IF o <= position' THEN 1 ELSE 0
    BY <1>1 DEF GivenInv
  <2>1. /\ o \in Int /\ given[o] \in Nat
        /\ given[o] <= deaths + close_errors + IF o <= position THEN 1 ELSE 0
    <3>1. o \in Int
      BY WorkerAssumption DEF Offsets
    <3>2. given[o] \in Nat
      BY <1>2 DEF Types
    <3>. QED
      BY <3>1, <3>2 DEF IInv, GivenInv
  <2>2. given'[o] = given[o] + IF o \in position+1..position+n THEN 1 ELSE 0
    BY <1>1, Zenon
  <2>. QED
    BY <1>1, <1>2, <2>1, <2>2 DEF Types
<1>7. RoundInv'
  BY <1>1 DEF IInv, RoundInv, Ahead
<1>. QED
  BY <1>3, <1>4, <1>5, <1>6, <1>7, Zenon DEF IInv

\* A turn of the loop: the message leaves the batch and is a call from now on, and
\* the next port is the one that has been used least.
LEMMA ProcessMessageStep ==
  ASSUME IInv, NEW w \in Workers, NEW o \in batch[w], process_message(w, o)
  PROVE  IInv'
<1>. DEFINE i == round_robin_port(current_port_index[w])
            job == [off |-> o, port |-> i, stage |-> "connecting"]
<1>1. /\ Types /\ o \in Int /\ current_port_index[w] \in -1..(PortsAmount - 1)
      /\ i \in Ports /\ client_with_index(i) = i
  BY PortFacts, Zenon DEF IInv, Types
<1>2. /\ batch' = [batch EXCEPT ![w] = @ \ {o}]
      /\ current_port_index' = [current_port_index EXCEPT ![w] = i]
      /\ jobs' = [jobs EXCEPT ![w] = @ \cup {job}]
      /\ uses' = [uses EXCEPT ![w] = [uses[w] EXCEPT ![i] = uses[w][i] + 1]]
      /\ UNCHANGED <<position, committed, deaths, close_errors, given, handled, abandoned>>
  BY <1>1, Zenon DEF process_message, group, history
<1>. HIDE DEF i
<1>3. Types'
  <2>1. job \in Job
    BY <1>1 DEF Job
  <2>2. i \in -1..(PortsAmount - 1)
    BY <1>1, PortFacts DEF Ports
  <2>3. uses[w] \in [Ports -> Nat]
    BY <1>1, Zenon DEF Types
  <2>4. [uses[w] EXCEPT ![i] = uses[w][i] + 1] \in [Ports -> Nat]
    BY <1>1, <2>3
  <2>5. uses' \in [Workers -> [Ports -> Nat]]
    BY <1>1, <1>2, <2>4, Zenon DEF Types
  <2>. QED
    BY <1>1, <1>2, <2>1, <2>2, <2>5 DEF Types
<1>4. TakenInv'
  <2>. SUFFICES ASSUME NEW x \in 1..position, NEW v \in Workers, Has(v, x) PROVE Has(v, x)'
    BY <1>2, Zenon DEF IInv, TakenInv
  <2>1. CASE v = w /\ x = o
    <3>1. job \in jobs'[w] /\ job.off = o
      BY <1>1, <1>2, Zenon DEF Types
    <3>. QED
      BY <2>1, <3>1, Zenon DEF Has
  <2>2. CASE ~ (v = w /\ x = o)
    BY <1>1, <1>2, <2>2, Zenon DEF Has, Types
  <2>. QED
    BY <2>1, <2>2, Zenon
<1>5. GivenInv'
  BY <1>2, Zenon DEF IInv, GivenInv
<1>6. RoundInv'
  <2>. SUFFICES ASSUME NEW v \in Workers, NEW p \in Ports
                PROVE  uses'[v][p] = uses'[v][PortsAmount - 1] + Ahead(current_port_index'[v], p)
    BY Zenon DEF RoundInv, Ahead
  <2>1. CASE v # w
    <3>1. uses'[v] = uses[v] /\ current_port_index'[v] = current_port_index[v]
      BY <1>1, <1>2, <2>1, Zenon DEF Types
    <3>. QED
      BY <3>1, Zenon DEF IInv, RoundInv
  <2>2. CASE v = w
    <3>. DEFINE c == current_port_index[w]
                u == uses[w]
    <3>1. c \in -1..(PortsAmount - 1) /\ i = IF c < PortsAmount - 1 THEN c + 1 ELSE 0
      BY <1>1, Zenon DEF i, round_robin_port
    <3>2. /\ \A q \in Ports : u[q] \in Nat /\ u[q] = u[PortsAmount - 1] + Ahead(c, q)
          /\ \A q \in Ports : uses'[w][q] = IF q = i THEN u[q] + 1 ELSE u[q]
          /\ current_port_index'[w] = i
      <4>1. u \in [Ports -> Nat]
        BY <1>1, Zenon DEF Types
      <4>2. uses'[w] = [u EXCEPT ![i] = u[i] + 1] /\ current_port_index'[w] = i
        BY <1>1, <1>2, Zenon DEF Types
      <4>3. \A q \in Ports : u[q] = u[PortsAmount - 1] + Ahead(c, q)
        BY DEF IInv, RoundInv
      <4>. QED
        BY <1>1, <4>1, <4>2, <4>3
    <3>. HIDE DEF c, u
    <3>. QED
      BY <2>2, <3>1, <3>2, PortFacts DEF Ahead, Ports
  <2>. QED
    BY <2>1, <2>2, Zenon
<1>. QED
  BY <1>2, <1>3, <1>4, <1>5, <1>6, Zenon DEF IInv

\* A call ends with its callback, or goes on to its query.
LEMMA CallStep ==
  ASSUME IInv, NEW w \in Workers, NEW j \in jobs[w],
         UNCHANGED <<position, committed, current_port_index, batch, uses, deaths, close_errors, given,
                     abandoned>>,
         \/ /\ jobs' = [jobs EXCEPT ![w] = @ \ {j}]
            /\ handled' = handled \cup {j.off}
         \/ /\ jobs' = [jobs EXCEPT ![w] = (@ \ {j}) \cup {[j EXCEPT !.stage = "querying"]}]
            /\ handled' = handled
  PROVE  IInv'
<1>. DEFINE q == [j EXCEPT !.stage = "querying"]
<1>1. Types /\ j \in Job /\ q \in Job /\ q.off = j.off
  BY DEF IInv, Types, Job
<1>. HIDE DEF q
<1>2. Types'
  BY <1>1, Zenon DEF q, Types
<1>3. TakenInv'
  <2>. SUFFICES ASSUME NEW o \in 1..position, NEW v \in Workers, Has(v, o)
                PROVE  o \in handled' \/ Has(v, o)'
    BY DEF IInv, TakenInv
  <2>1. CASE o = j.off /\ v = w
    BY <1>1, <2>1, Zenon DEF q, Has, Types
  <2>2. CASE ~ (o = j.off /\ v = w)
    BY <1>1, <2>2 DEF q, Has, Types
  <2>. QED
    BY <2>1, <2>2
<1>4. GivenInv' /\ RoundInv'
  BY DEF IInv, GivenInv, RoundInv, Ahead
<1>. QED
  BY <1>2, <1>3, <1>4 DEF IInv

\* A process ends with an error: its calls are abandoned, and the position may
\* go back to what was committed.
LEMMA DieStep ==
  ASSUME IInv, NEW w \in Workers, Die(w), UNCHANGED <<given, handled, close_errors>>
  PROVE  IInv'
<1>1. /\ deaths' = deaths + 1 /\ abandoned' = abandoned \cup batch[w] \cup {j.off : j \in jobs[w]}
      /\ batch' = [batch EXCEPT ![w] = {}] /\ jobs' = [jobs EXCEPT ![w] = {}]
      /\ current_port_index' = [current_port_index EXCEPT ![w] = -1]
      /\ uses' = [uses EXCEPT ![w] = [p \in Ports |-> 0]]
  BY Zenon DEF Die, Forgotten
<1>2. /\ position' \in Nat /\ committed' \in Nat
      /\ committed' <= position' /\ position' <= position
  BY DEF Die, Forget, group, IInv, Types
<1>3. Types'
  BY <1>1, <1>2, PortFacts DEF IInv, Types
<1>4. TakenInv'
  <2>. SUFFICES ASSUME NEW o \in 1..position, NEW v \in Workers, Has(v, o)
                PROVE  o \in abandoned' \/ Has(v, o)'
    <3>1. 1..position' \subseteq 1..position
      BY <1>2 DEF IInv, Types
    <3>. QED
      BY <1>1, <3>1, Zenon DEF IInv, TakenInv
  <2>1. CASE v = w
    BY <1>1, <2>1, Zenon DEF Has
  <2>2. CASE v # w
    BY <1>1, <2>2, Zenon DEF Has, IInv, Types
  <2>. QED
    BY <2>1, <2>2, Zenon
<1>5. GivenInv'
  <2>. SUFFICES ASSUME NEW o \in Offsets
                PROVE  given[o] <= deaths + 1 + close_errors
    BY <1>1, <1>2 DEF GivenInv, IInv, Types
  <2>1. given[o] \in Nat /\ deaths \in Nat /\ close_errors \in Nat
    BY Zenon DEF IInv, Types
  <2>. QED
    BY <2>1 DEF IInv, GivenInv
<1>6. RoundInv'
  <2>. SUFFICES ASSUME NEW v \in Workers, NEW p \in Ports
                PROVE  uses'[v][p] = uses'[v][PortsAmount - 1] + Ahead(current_port_index'[v], p)
    BY Zenon DEF RoundInv, Ahead
  <2>1. CASE v # w
    <3>1. uses'[v] = uses[v] /\ current_port_index'[v] = current_port_index[v]
      BY <1>1, <2>1, Zenon DEF IInv, Types
    <3>. QED
      BY <3>1, Zenon DEF IInv, RoundInv
  <2>2. CASE v = w
    <3>1. uses'[w] = [q \in Ports |-> 0] /\ current_port_index'[w] = -1
      BY <1>1, Zenon DEF IInv, Types
    <3>. QED
      BY <2>2, <3>1, PortFacts DEF Ahead, Ports
  <2>. QED
    BY <2>1, <2>2, Zenon
<1>. QED
  BY <1>2, <1>3, <1>4, <1>5, <1>6, Zenon DEF IInv

\* A worker shuts down: if that succeeds nothing moves back, and if it fails the
\* failure is counted.
LEMMA ShutdownStep ==
  ASSUME IInv, NEW w \in Workers, NEW err \in BOOLEAN, shutdown(w, err)
  PROVE  IInv'
<1>1. /\ UNCHANGED <<current_port_index, batch, jobs, uses, deaths, given, handled, abandoned>>
      /\ close_errors' = close_errors + IF err THEN 1 ELSE 0
      /\ close_errors \in Nat
  BY Zenon DEF shutdown, log_shutdown, IInv, Types
<1>2. CASE ~ err
  <2>1. position' = position /\ committed' \in {committed, position}
    BY <1>2, Zenon DEF shutdown, Rebalance, group
  <2>2. close_errors' = close_errors
    BY <1>1, <1>2
  <2>. QED
    BY <1>1, <2>1, <2>2, QuietStep, Zenon DEF history
<1>3. CASE err
  <2>1. /\ position' \in Nat /\ committed' \in Nat
        /\ committed' <= position' /\ position' <= position
    BY <1>3 DEF shutdown, Forget, group, IInv, Types
  <2>2. close_errors' = close_errors + 1 /\ close_errors' \in Nat
    BY <1>1, <1>3
  <2>3. Types'
    BY <1>1, <2>1, <2>2, Zenon DEF IInv, Types
  <2>4. TakenInv'
    <3>1. 1..position' \subseteq 1..position
      BY <2>1 DEF IInv, Types
    <3>. QED
      BY <1>1, <3>1, Zenon DEF IInv, TakenInv, Has
  <2>5. GivenInv'
    <3>. SUFFICES ASSUME NEW o \in Offsets
                  PROVE  given[o] <= deaths + (close_errors + 1)
      BY <1>1, <2>1, <2>2 DEF GivenInv, IInv, Types
    <3>1. given[o] \in Nat /\ deaths \in Nat /\ close_errors \in Nat
      BY Zenon DEF IInv, Types
    <3>. QED
      BY <3>1 DEF IInv, GivenInv
  <2>6. RoundInv'
    BY <1>1, Zenon DEF IInv, RoundInv, Ahead
  <2>. QED
    BY <2>1, <2>3, <2>4, <2>5, <2>6, Zenon DEF IInv
<1>. QED
  BY <1>2, <1>3, Zenon

\* node ends: the process had nothing left to do, and its ports are forgotten.
LEMMA ExitStep == ASSUME IInv, NEW w \in Workers, exit(w) PROVE IInv'
<1>1. /\ current_port_index' = [current_port_index EXCEPT ![w] = -1]
      /\ uses' = [uses EXCEPT ![w] = [p \in Ports |-> 0]]
      /\ UNCHANGED <<position, committed, batch, jobs, deaths, close_errors, given, handled, abandoned>>
  BY Zenon DEF exit, Forgotten, group, history
<1>2. Types'
  BY <1>1, PortFacts DEF IInv, Types
<1>3. TakenInv' /\ GivenInv'
  BY <1>1, Zenon DEF IInv, TakenInv, Has, GivenInv
<1>4. RoundInv'
  <2>. SUFFICES ASSUME NEW v \in Workers, NEW p \in Ports
                PROVE  uses'[v][p] = uses'[v][PortsAmount - 1] + Ahead(current_port_index'[v], p)
    BY Zenon DEF RoundInv, Ahead
  <2>1. CASE v # w
    <3>1. uses'[v] = uses[v] /\ current_port_index'[v] = current_port_index[v]
      BY <1>1, <2>1, Zenon DEF IInv, Types
    <3>. QED
      BY <3>1, Zenon DEF IInv, RoundInv
  <2>2. CASE v = w
    <3>1. uses'[w] = [q \in Ports |-> 0] /\ current_port_index'[w] = -1
      BY <1>1, Zenon DEF IInv, Types
    <3>. QED
      BY <2>2, <3>1, PortFacts DEF Ahead, Ports
  <2>. QED
    BY <2>1, <2>2, Zenon
<1>. QED
  BY <1>1, <1>2, <1>3, <1>4, Zenon DEF IInv

\* Every step keeps the invariant.
LEMMA NextIInv == IInv /\ [Next]_vars => IInv'
<1>. SUFFICES ASSUME IInv, [Next]_vars PROVE IInv'
  BY Zenon
<1>1. ASSUME NEW v \in Values, produce(v) PROVE IInv'
  BY <1>1, QuietStep, Zenon DEF produce, group, process
<1>2. CASE auto_commit
  BY <1>2, QuietStep, Zenon DEF auto_commit, process
<1>3. ASSUME NEW w \in Workers, Step(w) PROVE IInv'
  <2>1. CASE start(w)
    BY <2>1, QuietStep DEF start, group
  <2>2. CASE exit(w)
    BY <2>2, ExitStep, Zenon
  <2>3. ASSUME NEW err \in BOOLEAN, worker_start(w, err) PROVE IInv'
    BY <2>3, QuietStep, Zenon DEF worker_start, Rebalance, group
  <2>4. ASSUME NEW o \in batch[w], process_message(w, o) PROVE IInv'
    BY <2>4, ProcessMessageStep
  <2>5. ASSUME NEW j \in jobs[w], NEW err \in BOOLEAN, connect_callback(w, j, err) PROVE IInv'
    <3>1. CASE Settle(w, j)
      BY <2>5, <3>1, CallStep, Zenon DEF connect_callback, Settle, group
    <3>2. CASE Die(w) /\ UNCHANGED handled
      BY <2>5, <3>2, DieStep DEF connect_callback
    <3>3. CASE /\ jobs' = [jobs EXCEPT ![w] = (@ \ {j}) \cup {[j EXCEPT !.stage = "querying"]}]
               /\ UNCHANGED <<group, status, current_port_index, batch, uses, deaths, handled, abandoned>>
      BY <2>5, <3>3, CallStep, Zenon DEF connect_callback, group
    <3>. QED
      BY <2>5, <3>1, <3>2, <3>3, Zenon DEF connect_callback
  <2>6. ASSUME NEW j \in jobs[w], NEW err \in BOOLEAN, query_callback(w, j, err) PROVE IInv'
    <3>1. CASE Settle(w, j)
      BY <2>6, <3>1, CallStep, Zenon DEF query_callback, Settle, group
    <3>2. CASE Die(w) /\ UNCHANGED handled
      BY <2>6, <3>2, DieStep DEF query_callback
    <3>. QED
      BY <2>6, <3>1, <3>2 DEF query_callback
  <2>. QED
    BY <1>3, <2>1, <2>2, <2>3, <2>4, <2>5, <2>6, Zenon DEF Step
<1>4. ASSUME NEW w \in Workers, Take(w) PROVE IInv'
  BY <1>4, OnDataStep DEF Take
<1>5. ASSUME NEW w \in Workers, NEW err \in BOOLEAN, shutdown(w, err) PROVE IInv'
  BY <1>5, ShutdownStep
<1>6. ASSUME NEW w \in Workers, kill(w) PROVE IInv'
  BY <1>6, DieStep DEF kill
<1>7. CASE UNCHANGED vars
  BY <1>7, QuietStep DEF vars, history
<1>. QED
  BY <1>1, <1>2, <1>3, <1>4, <1>5, <1>6, <1>7, Zenon DEF Next

\* What the step lemmas establish, put together.
LEMMA Invariance == Spec => []IInv
<1>. QED
  BY InitIInv, NextIInv, PTL DEF Spec
-----------------------------------------------------------------------------
\* However many messages come in batches of whatever size, no port of a process
\* is used more than once more than another one.
THEOREM PortsAlwaysBalanced == Spec => []PortsBalanced
<1>1. IInv => PortsBalanced
  <2>. SUFFICES ASSUME IInv, NEW w \in Workers, NEW p \in Ports, NEW q \in Ports
                PROVE  uses[w][p] <= uses[w][q] + 1
    BY DEF PortsBalanced
  <2>1. uses[w][PortsAmount - 1] \in Nat
    BY PortFacts DEF IInv, Types
  <2>. QED
    BY <2>1 DEF IInv, RoundInv, Ahead
<1>. QED
  BY <1>1, Invariance, PTL

\* A committed message was called back for, will be, or was cut short by the end
\* of its process with an error.
THEOREM CommittedIsAlwaysHandled == Spec => []CommittedIsHandled
<1>1. IInv => CommittedIsHandled
  <2>. SUFFICES ASSUME IInv, NEW o \in 1..committed
                PROVE  o \in handled \cup abandoned \cup InProgress
    BY DEF CommittedIsHandled
  <2>1. o \in 1..position
    BY DEF IInv, Types
  <2>2. ASSUME NEW w \in Workers, Has(w, o) PROVE o \in InProgress
    BY <2>2 DEF Has, InProgress
  <2>. QED
    BY <2>1, <2>2 DEF IInv, TakenInv
<1>. QED
  BY <1>1, Invariance, PTL

\* A message is handed out once, and once more for every process that ended with
\* an error and for every shutdown that failed; joining and shutting down cleanly
\* hand out nothing again.
THEOREM AgainOnlyAfterLosses == Spec => []AgainOnlyAfterLoss
<1>1. IInv => AgainOnlyAfterLoss
  <2>. SUFFICES ASSUME IInv, NEW o \in Offsets PROVE given[o] <= 1 + deaths + close_errors
    BY DEF AgainOnlyAfterLoss
  <2>1. given[o] \in Nat /\ deaths \in Nat /\ close_errors \in Nat
    BY Zenon DEF IInv, Types
  <2>. QED
    BY <2>1 DEF IInv, GivenInv
<1>. QED
  BY <1>1, Invariance, PTL
-----------------------------------------------------------------------------
(* The web service *)

Uploads == {"uploading", "parsed", "broken"}

WebTypes ==
  /\ request \in [Requests -> {"new", "routed"} \cup Uploads]
  /\ file \in [Files -> {"none", "waiting", "piped", "ended", "discarded"}]
  /\ db_client \in [Files -> {"null", "client"}]
  /\ conn \in [Files -> {"none", "connecting", "open", "closed"}]
  /\ copy \in [Files -> {"none", "active", "ready", "dead"}]
  /\ DOMAIN part = Files
  /\ heads \in [Requests -> Nat] /\ told \in [Files -> Int]

\* How far a file has got: what its stream has come to says whether it has been
\* answered, and which of its callbacks can still run
Stage(f) ==
  /\ file[f] # "none" => part[f] \in Requests /\ request[part[f]] \in Uploads
  /\ file[f] \in {"none", "waiting", "piped"} => told[f] = -1
  /\ conn[f] = "connecting" => file[f] = "waiting" /\ db_client[f] = "client"
  /\ copy[f] \in {"active", "ready"} => file[f] \in {"piped", "ended"} /\ db_client[f] = "client"

\* The answers to a request are those of its files, if it uploads any
Answered(r) == {f \in FilesOf(r) : told[f] # -1}
Heads(r) ==
  /\ request[r] = "new" => heads[r] = 0
  /\ request[r] = "routed" => heads[r] <= 1
  /\ request[r] \in Uploads => heads[r] = Cardinality(Answered(r))

\* The inductive invariant
WebInv == WebTypes /\ (\A f \in Files : Stage(f)) /\ \A r \in Requests : Heads(r)
-----------------------------------------------------------------------------
\* There are finitely many files, and so of each request.
LEMMA FilesFinite ==
  \A r : /\ IsFiniteSet(FilesOf(r)) /\ IsFiniteSet(Answered(r))
         /\ Cardinality(FilesOf(r)) \in Nat /\ Cardinality(Answered(r)) \in Nat
         /\ Cardinality(Answered(r)) <= Cardinality(FilesOf(r))
<1>. SUFFICES ASSUME NEW r
              PROVE  /\ IsFiniteSet(FilesOf(r)) /\ IsFiniteSet(Answered(r))
                     /\ Cardinality(FilesOf(r)) \in Nat /\ Cardinality(Answered(r)) \in Nat
                     /\ Cardinality(Answered(r)) <= Cardinality(FilesOf(r))
  OBVIOUS
<1>1. IsFiniteSet(Files)
  BY ConnAssumption, FS_Interval DEF Files
<1>2. FilesOf(r) \in SUBSET Files /\ Answered(r) \in SUBSET FilesOf(r)
  BY Zenon DEF FilesOf, Answered
<1>3. IsFiniteSet(FilesOf(r))
  BY <1>1, <1>2, FS_Subset, Zenon
<1>. QED
  BY <1>2, <1>3, FS_Subset, FS_CardinalityType, Zenon

\* No request has come in yet.
LEMMA InitWebInv == InitWeb => WebInv
  BY DEF InitWeb, WebInv, WebTypes, Stage, Heads, Uploads

\* A callback of a file keeps the stages of the files if it does so for its own.
LEMMA LocalStep ==
  ASSUME WebInv, NEW f \in Files, Stage(f)',
         \A g \in Files \ {f} :
           /\ file'[g] = file[g] /\ part'[g] = part[g] /\ db_client'[g] = db_client[g]
           /\ conn'[g] = conn[g] /\ copy'[g] = copy[g] /\ told'[g] = told[g],
         \A r \in Requests : request[r] \in Uploads => request'[r] \in Uploads
  PROVE  \A g \in Files : Stage(g)'
<1>1. ASSUME NEW g \in Files \ {f} PROVE Stage(g)'
  BY <1>1, Zenon DEF WebInv, Stage
<1>. QED
  BY <1>1, Zenon

\* A step that neither answers nor comes upon a file.
LEMMA QuietHeads ==
  ASSUME WebInv, UNCHANGED <<part, answers>>,
         \A f \in Files : file'[f] = "none" <=> file[f] = "none",
         \A r \in Requests : request'[r] = request[r] \/ {request[r], request'[r]} \subseteq Uploads
  PROVE  \A r \in Requests : Heads(r)'
<1>. SUFFICES ASSUME NEW r \in Requests PROVE Heads(r)'
  OBVIOUS
<1>1. Answered(r)' = Answered(r)
  BY Zenon DEF Answered, FilesOf, answers
<1>. QED
  BY <1>1, Zenon DEF WebInv, Heads, Uploads, answers

\* A file of request r is answered, if it is named or not: it has not been before.
LEMMA AnswerHeads ==
  ASSUME WebInv, NEW r \in Requests, NEW f \in Files, NEW msg \in Int \ {-1},
         display_msg(f, r, msg), request' = request, request[r] \in Uploads, told[f] = -1,
         FilesOf(r)' = FilesOf(r) \cup {f},
         \A q \in Requests \ {r} : FilesOf(q)' = FilesOf(q) /\ f \notin FilesOf(q)
  PROVE  /\ heads' \in [Requests -> Nat] /\ told' \in [Files -> Int]
         /\ \A q \in Requests : Heads(q)'
<1>1. /\ heads' = [heads EXCEPT ![r] = heads[r] + 1] /\ told' = [told EXCEPT ![f] = msg]
      /\ heads \in [Requests -> Nat] /\ told \in [Files -> Int]
  BY Zenon DEF display_msg, write_head, WebInv, WebTypes
<1>2. heads' \in [Requests -> Nat] /\ told' \in [Files -> Int]
  BY <1>1
<1>3. ASSUME NEW q \in Requests \ {r} PROVE Heads(q)'
  <2>1. Answered(q)' = Answered(q)
    BY <1>1, <1>3, Zenon DEF Answered, FilesOf
  <2>2. heads'[q] = heads[q]
    BY <1>1, <1>3, Zenon
  <2>. QED
    BY <1>3, <2>1, <2>2, Zenon DEF WebInv, Heads
<1>4. Heads(r)'
  <2>1. Answered(r)' = Answered(r) \cup {f} /\ f \notin Answered(r)
    <3>1. told'[f] = msg /\ msg # -1
      BY <1>1, Zenon
    <3>2. \A g \in FilesOf(r) \ {f} : told'[g] = told[g]
      BY <1>1, Zenon DEF FilesOf
    <3>. QED
      BY <3>1, <3>2, Zenon DEF Answered
  <2>2. Cardinality(Answered(r)') = Cardinality(Answered(r)) + 1
    BY <2>1, FilesFinite, FS_AddElement, Zenon
  <2>3. heads'[r] = heads[r] + 1 /\ heads[r] = Cardinality(Answered(r))
    BY <1>1, Zenon DEF WebInv, Heads
  <2>4. heads'[r] = Cardinality(Answered(r)')
    BY <2>2, <2>3, Zenon
  <2>. QED
    BY <2>4, Zenon DEF Heads, Uploads
<1>. QED
  BY <1>2, <1>3, <1>4, Zenon

\* A request is routed.
LEMMA RouteStep == ASSUME WebInv, NEW r \in Requests, create_server(r) PROVE WebInv'
<1>1. /\ request[r] = "new" /\ heads[r] = 0 /\ WebTypes
      /\ UNCHANGED <<part, file, db_client, conn, copy, told>>
  BY Zenon DEF create_server, upload_file, display_form, answers, WebInv, Heads
<1>2. \/ request' = [request EXCEPT ![r] = "uploading"] /\ heads' = heads
      \/ /\ request' = [request EXCEPT ![r] = "routed"]
         /\ heads' \in {heads, [heads EXCEPT ![r] = heads[r] + 1]}
  BY Zenon DEF create_server, upload_file, display_form, write_head, answers
<1>3. WebTypes'
  BY <1>1, <1>2 DEF WebTypes, Uploads
<1>4. ASSUME NEW f \in Files PROVE Stage(f)'
  <2>1. file[f] # "none" => part[f] \in Requests /\ part[f] # r /\ request'[part[f]] \in Uploads
    BY <1>1, <1>2 DEF WebTypes, WebInv, Stage, Uploads
  <2>. QED
    BY <1>1, <2>1, Zenon DEF WebInv, Stage
<1>5. ASSUME NEW q \in Requests PROVE Heads(q)'
  <2>1. Answered(q)' = Answered(q)
    BY <1>1, Zenon DEF Answered, FilesOf
  <2>2. CASE q # r
    <3>1. request'[q] = request[q] /\ heads'[q] = heads[q]
      BY <1>1, <1>2, <2>2, SMTT(20) DEF WebTypes
    <3>. QED
      BY <2>1, <3>1, Zenon DEF WebInv, Heads
  <2>3. CASE q = r
    <3>1. FilesOf(r) = {}
      BY <1>1 DEF FilesOf, WebInv, Stage, Uploads
    <3>2. Answered(q)' = {}
      BY <2>1, <2>3, <3>1, Zenon DEF Answered
    <3>3. Cardinality(Answered(q)') = 0
      BY <3>2, FS_EmptySet
    <3>. QED
      BY <1>1, <1>2, <2>3, <3>3 DEF Heads, WebTypes, Uploads
  <2>. QED
    BY <2>2, <2>3, Zenon
<1>. QED
  BY <1>3, <1>4, <1>5, Zenon DEF WebInv

\* The parser comes upon a file.
LEMMA FileStep ==
  ASSUME WebInv, NEW r \in Requests, NEW f \in Files, NEW named \in BOOLEAN, on_file(r, f, named)
  PROVE  WebInv'
<1>1. /\ request[r] = "uploading" /\ file[f] = "none" /\ part' = [part EXCEPT ![f] = r]
      /\ request' = request /\ copy' = copy /\ WebTypes /\ Stage(f)
      /\ IF named
           THEN /\ file' = [file EXCEPT ![f] = "waiting"]
                /\ db_client' = [db_client EXCEPT ![f] = "client"]
                /\ conn' = [conn EXCEPT ![f] = "connecting"]
                /\ UNCHANGED answers
           ELSE /\ file' = [file EXCEPT ![f] = "discarded"]
                /\ display_msg(f, r, 5)
                /\ UNCHANGED <<db_client, conn>>
  BY Zenon DEF on_file, WebInv
<1>2. told[f] = -1 /\ copy[f] \notin {"active", "ready"} /\ conn[f] # "connecting"
  BY <1>1 DEF Stage
<1>3. FilesOf(r)' = FilesOf(r) \cup {f} /\ f \notin FilesOf(r)
      /\ \A q \in Requests \ {r} : FilesOf(q)' = FilesOf(q) /\ f \notin FilesOf(q)
  BY <1>1 DEF FilesOf, WebTypes
<1>4. CASE named
  <2>1. WebTypes'
    BY <1>1, <1>4 DEF answers, WebTypes
  <2>2. Stage(f)'
    BY <1>1, <1>2, <1>4 DEF answers, WebTypes, Stage, Uploads
  <2>3. \A g \in Files : Stage(g)'
    <3>1. \A g \in Files \ {f} :
            /\ file'[g] = file[g] /\ part'[g] = part[g] /\ db_client'[g] = db_client[g]
            /\ conn'[g] = conn[g] /\ copy'[g] = copy[g] /\ told'[g] = told[g]
      BY <1>1, <1>4, SMTT(20) DEF answers, WebTypes
    <3>. QED
      BY <1>1, <2>2, <3>1, LocalStep, Zenon
  <2>4. ASSUME NEW q \in Requests PROVE Heads(q)'
    <3>1. Answered(q)' = Answered(q)
      BY <1>1, <1>2, <1>3, <1>4, Zenon DEF Answered, answers
    <3>. QED
      BY <1>1, <1>4, <3>1, Zenon DEF WebInv, Heads, answers
  <2>. QED
    BY <2>1, <2>3, <2>4, Zenon DEF WebInv
<1>5. CASE ~ named
  <2>1. /\ heads' \in [Requests -> Nat] /\ told' \in [Files -> Int]
        /\ \A q \in Requests : Heads(q)'
    <3>1. 5 \in Int \ {-1} /\ request[r] \in Uploads
      BY <1>1 DEF Uploads
    <3>. QED
      BY <1>1, <1>2, <1>3, <1>5, <3>1, AnswerHeads, Zenon
  <2>2. WebTypes'
    BY <1>1, <1>5, <2>1 DEF WebTypes
  <2>3. told' = [told EXCEPT ![f] = 5]
    BY <1>1, <1>5, Zenon DEF display_msg
  <2>4. Stage(f)'
    BY <1>1, <1>2, <1>5 DEF WebTypes, Stage, Uploads
  <2>5. \A g \in Files : Stage(g)'
    BY <1>1, <1>5, <2>3, <2>4, LocalStep, Zenon DEF WebTypes
  <2>. QED
    BY <2>1, <2>2, <2>5, Zenon DEF WebInv
<1>. QED
  BY <1>4, <1>5, Zenon

\* The two callbacks of a named file that answer.
LEMMA AnswerSteps ==
  ASSUME WebInv, NEW f \in Files, connect_error(f) \/ on_finish(f)
  PROVE  WebInv'
<1>1. WebTypes /\ Stage(f)
  BY Zenon DEF WebInv
<1>2. /\ file[f] \in {"waiting", "piped"} /\ told[f] = -1
      /\ part[f] \in Requests /\ request[part[f]] \in Uploads
  BY <1>1 DEF Stage, connect_error, on_finish
<1>3. PICK msg \in {3, 4} : display_msg(f, part[f], msg)
  BY Zenon DEF connect_error, on_finish
<1>4. UNCHANGED <<request, part>> /\ \A g \in Files : file'[g] = "none" <=> file[g] = "none"
  BY <1>1, <1>2 DEF connect_error, on_finish, form, WebTypes
<1>5. /\ heads' \in [Requests -> Nat] /\ told' \in [Files -> Int]
      /\ \A q \in Requests : Heads(q)'
  <2>1. FilesOf(part[f])' = FilesOf(part[f]) \cup {f}
        /\ \A q \in Requests \ {part[f]} : FilesOf(q)' = FilesOf(q) /\ f \notin FilesOf(q)
    BY <1>2, <1>4 DEF FilesOf
  <2>2. msg \in Int \ {-1}
    OBVIOUS
  <2>. QED
    BY <1>2, <1>3, <1>4, <2>1, <2>2, AnswerHeads, Zenon
<1>6. told' = [told EXCEPT ![f] = msg]
  BY <1>3, Zenon DEF display_msg
<1>7. CASE connect_error(f)
  <2>1. WebTypes'
    BY <1>1, <1>4, <1>5, <1>7, SMTT(20) DEF connect_error, End, WebTypes
  <2>2. Stage(f)'
    BY <1>1, <1>2, <1>4, <1>7 DEF connect_error, End, WebTypes, Stage
  <2>3. \A g \in Files : Stage(g)'
    BY <1>1, <1>4, <1>6, <1>7, <2>2, LocalStep, Zenon DEF connect_error, End, WebTypes
  <2>. QED
    BY <1>5, <2>1, <2>3, Zenon DEF WebInv
<1>8. CASE on_finish(f)
  <2>1. WebTypes'
    BY <1>1, <1>4, <1>5, <1>8, SMTT(20) DEF on_finish, WebTypes
  <2>2. Stage(f)'
    BY <1>1, <1>2, <1>4, <1>8 DEF on_finish, WebTypes, Stage
  <2>3. \A g \in Files : Stage(g)'
    BY <1>1, <1>4, <1>6, <1>8, <2>2, LocalStep, Zenon DEF on_finish, WebTypes
  <2>. QED
    BY <1>5, <2>1, <2>3, Zenon DEF WebInv
<1>. QED
  BY <1>7, <1>8, Zenon

\* The callbacks of the database client and of the COPY.
LEMMA OtherSteps ==
  ASSUME WebInv, NEW f \in Files,
         \/ connected(f) \/ copy_complete(f) \/ on_drain(f)
         \/ \E lost \in BOOLEAN : on_error(f, lost)
  PROVE  WebInv'
<1>1. WebTypes /\ Stage(f)
  BY Zenon DEF WebInv
<1>2. UNCHANGED <<request, part, answers>>
  BY Zenon DEF connected, copy_complete, on_drain, on_error, form
<1>3. ASSUME WebTypes', Stage(f)',
             \A g \in Files : file'[g] = "none" <=> file[g] = "none",
             \A g \in Files \ {f} :
               /\ file'[g] = file[g] /\ db_client'[g] = db_client[g]
               /\ conn'[g] = conn[g] /\ copy'[g] = copy[g]
      PROVE  WebInv'
  <2>1. \A r \in Requests : Heads(r)'
    BY <1>2, <1>3, QuietHeads, Zenon
  <2>2. \A g \in Files : Stage(g)'
    BY <1>2, <1>3, LocalStep, Zenon DEF answers
  <2>. QED
    BY <1>3, <2>1, <2>2, Zenon DEF WebInv
<1>4. CASE connected(f)
  <2>1. WebTypes' /\ Stage(f)'
    BY <1>1, <1>2, <1>4 DEF connected, answers, WebTypes, Stage
  <2>2. \A g \in Files : file'[g] = "none" <=> file[g] = "none"
    BY <1>1, <1>4 DEF connected, WebTypes, Stage
  <2>. QED
    BY <1>1, <1>3, <1>4, <2>1, <2>2, Zenon DEF connected, WebTypes
<1>5. CASE copy_complete(f)
  <2>1. WebTypes' /\ Stage(f)'
    BY <1>1, <1>2, <1>5 DEF copy_complete, answers, WebTypes, Stage
  <2>. QED
    BY <1>1, <1>3, <1>5, <2>1, Zenon DEF copy_complete, WebTypes
<1>6. CASE on_drain(f)
  <2>1. WebTypes' /\ Stage(f)'
    BY <1>1, <1>2, <1>6 DEF on_drain, End, answers, WebTypes, Stage
  <2>2. /\ file' = file
        /\ \A g \in Files \ {f} : /\ db_client'[g] = db_client[g]
                                  /\ conn'[g] = conn[g] /\ copy'[g] = copy[g]
    BY <1>1, <1>6 DEF on_drain, End, WebTypes
  <2>. QED
    BY <1>3, <2>1, <2>2, Zenon
<1>7. ASSUME NEW lost \in BOOLEAN, on_error(f, lost) PROVE WebInv'
  <2>1. /\ file' = file /\ db_client' = db_client /\ copy[f] = "active"
        /\ copy' = [copy EXCEPT ![f] = IF lost THEN "dead" ELSE "ready"]
        /\ conn' = [conn EXCEPT ![f] = IF lost THEN "closed" ELSE @]
    BY <1>7, Zenon DEF on_error, CopyFails
  <2>2. WebTypes' /\ Stage(f)'
    BY <1>1, <1>2, <2>1 DEF answers, WebTypes, Stage
  <2>. QED
    BY <1>1, <1>3, <2>1, <2>2, Zenon DEF WebTypes
<1>. QED
  BY <1>4, <1>5, <1>6, <1>7, Zenon

\* A step that leaves the files and the answers alone, and of the requests changes
\* at most how far an upload has got.
LEMMA FormSteps ==
  ASSUME WebInv, UNCHANGED <<part, file, db_client, conn, copy, answers>>,
         \/ request' = request
         \/ \E r \in Requests, x \in Uploads :
              request[r] \in Uploads /\ request' = [request EXCEPT ![r] = x]
  PROVE  WebInv'
<1>1. /\ request' \in [Requests -> {"new", "routed"} \cup Uploads]
      /\ \A r \in Requests : request'[r] = request[r] \/ {request[r], request'[r]} \subseteq Uploads
  BY DEF WebInv, WebTypes
<1>2. WebTypes'
  BY <1>1, Zenon DEF WebInv, WebTypes, answers
<1>3. \A f \in Files : Stage(f)'
  BY <1>1, Zenon DEF WebInv, Stage, answers
<1>4. \A r \in Requests : Heads(r)'
  BY <1>1, QuietHeads, Zenon
<1>. QED
  BY <1>2, <1>3, <1>4, Zenon DEF WebInv

\* Every step keeps the invariant.
LEMMA NextWebInv == WebInv /\ [NextWeb]_webvars => WebInv'
<1>. SUFFICES ASSUME WebInv, [NextWeb]_webvars PROVE WebInv'
  OBVIOUS
<1>1. ASSUME NEW ok \in BOOLEAN, web_start(ok) PROVE WebInv'
  BY <1>1, FormSteps, Zenon DEF web_start, form
<1>2. CASE web_shutdown
  BY <1>2, FormSteps, Zenon DEF web_shutdown, form
<1>3. ASSUME NEW r \in Requests, Serve(r) PROVE WebInv'
  <2>1. CASE form_ends(r)
    BY <2>1, FormSteps, Zenon DEF form_ends, Uploads
  <2>2. ASSUME NEW fault \in WebFaults, request_broken(r, fault) PROVE WebInv'
    BY <2>2, FormSteps, Zenon DEF request_broken, Uploads
  <2>. QED
    BY <1>3, <2>1, <2>2, RouteStep, FileStep, Zenon DEF Serve
<1>4. ASSUME NEW f \in Files, Handle(f) PROVE WebInv'
  BY <1>4, AnswerSteps, OtherSteps, Zenon DEF Handle
<1>5. ASSUME NEW f \in Files, file_arrives(f) PROVE WebInv'
  BY <1>5, FormSteps, Zenon DEF file_arrives
<1>6. ASSUME NEW f \in Files, NEW lost \in BOOLEAN, on_error(f, lost) PROVE WebInv'
  BY <1>6, OtherSteps, Zenon
<1>7. CASE UNCHANGED webvars
  BY <1>7, FormSteps, Zenon DEF webvars, answers
<1>. QED
  BY <1>1, <1>2, <1>3, <1>4, <1>5, <1>6, <1>7, Zenon DEF NextWeb

\* What the step lemmas establish, put together.
LEMMA WebInvariance == WebSpec => []WebInv
<1>. QED
  BY InitWebInv, NextWebInv, PTL DEF WebSpec
-----------------------------------------------------------------------------
\* Whatever the order of the callbacks of any number of requests and files, at most
\* one of those of a file answers the request.
THEOREM AtMostOneAnswerPerFile == WebSpec => []OneAnswerPerFile
<1>1. WebInv => OneAnswerPerFile
  <2>. SUFFICES ASSUME WebInv, NEW r \in Requests, heads[r] > 1
                PROVE  heads[r] <= Cardinality(FilesOf(r))
    BY Zenon DEF OneAnswerPerFile
  <2>1. heads[r] \in Nat /\ Heads(r) /\ request[r] \in {"new", "routed"} \cup Uploads
    BY Zenon DEF WebInv, WebTypes
  <2>2. heads[r] = Cardinality(Answered(r))
    BY <2>1 DEF Heads
  <2>. QED
    BY <2>2, FilesFinite, Zenon
<1>. QED
  BY <1>1, WebInvariance, PTL

\* The drain handler never dereferences a client another callback has ended.
THEOREM ClientEndedOnce == WebSpec => []EndedOnce
<1>1. WebInv => EndedOnce
  BY Zenon DEF WebInv, Stage, EndedOnce
<1>. QED
  BY <1>1, WebInvariance, PTL
=============================================================================
