---------------------------- MODULE AtLeastOnce ----------------------------
(***************************************************************************)
(* What Bottled Water promises, without saying how: rows of committed      *)
(* transactions, and nothing else, are published; a replication slot       *)
(* remembers a position in the log, and the position only moves past a     *)
(* transaction when all its rows are published.  Rows below the position   *)
(* at which the slot was reserved are the business of a snapshot, about    *)
(* which nothing is promised here.                                         *)
(*                                                                         *)
(* BottledWater implements this specification.                             *)
(***************************************************************************)
EXTENDS Integers

CONSTANT MaxRows \* bound: rows of one transaction

VARIABLES
  log_end,   \* the number of transactions committed
  log,       \* log[t]: the number of rows of transaction t
  published, \* the rows a consumer can read
  reserved,  \* there is a slot,
  floor,     \*   reserved at this position,
  position   \*   which has moved here

vars == <<log_end, log, published, reserved, floor, position>>

\* The rows of the transactions after lo and no later than hi
Between(lo, hi) ==
  {r \in (1 .. log_end) \X (1 .. MaxRows) : lo < r[1] /\ r[1] <= hi /\ r[2] <= log[r[1]]}

Init ==
  /\ log_end = 1 /\ log[1] \in 0 .. MaxRows
  /\ published = {}
  /\ reserved = FALSE /\ floor = 0 /\ position = 0

Commit ==
  /\ log_end' = log_end + 1
  /\ \E n \in 0 .. MaxRows : log' = [log EXCEPT ![log_end + 1] = n]
  /\ UNCHANGED <<published, reserved, floor, position>>

\* A row may be published again and again, in any order
Publish ==
  /\ \E r \in Between(0, log_end) : published' = published \cup {r}
  /\ UNCHANGED <<log_end, log, reserved, floor, position>>

Reserve ==
  /\ ~ reserved
  /\ reserved' = TRUE /\ floor' = log_end /\ position' = log_end
  /\ UNCHANGED <<log_end, log, published>>

Advance ==
  /\ reserved
  /\ position' \in position .. log_end
  /\ Between(floor, position') \subseteq published
  /\ UNCHANGED <<log_end, log, published, reserved, floor>>

\* The slot is given up; one last row may still get through
Release ==
  /\ reserved
  /\ reserved' = FALSE /\ floor' = 0 /\ position' = 0
  /\ published' \in {published} \cup {published \cup {r} : r \in Between(0, log_end)}
  /\ UNCHANGED <<log_end, log>>

Next == Commit \/ Publish \/ Reserve \/ Advance \/ Release

Spec == Init /\ [][Next]_vars
=============================================================================
