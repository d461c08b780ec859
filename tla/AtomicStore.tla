---------------------------- MODULE AtomicStore ----------------------------
(***************************************************************************)
(* What the database layer promises to the game code that hands it an      *)
(* operation (a transaction, or one statement outside any transaction):    *)
(* its statements become durable all together and at most once, nothing    *)
(* becomes durable after the operation has been given up, and the result   *)
(* reported for it is the truth.  DatabaseConnection implements it as long *)
(* as the link to the server is not lost in the middle of an operation.    *)
(***************************************************************************)
CONSTANT Operations

VARIABLES
  store,     \* store[o]: "none" or "all" of o's statements are durable
  reported   \* reported[o]: "none", "ok" or "failed"

vars == <<store, reported>>

Init ==
  /\ store = [o \in Operations |-> "none"]
  /\ reported = [o \in Operations |-> "none"]

\* Every statement of o becomes durable, and success is reported.
Commit(o) ==
  /\ reported[o] = "none"
  /\ store' = [store EXCEPT ![o] = "all"]
  /\ reported' = [reported EXCEPT ![o] = "ok"]

\* o is given up: failure is reported and it has left no trace.
Reject(o) ==
  /\ reported[o] = "none"
  /\ store[o] = "none"
  /\ reported' = [reported EXCEPT ![o] = "failed"]
  /\ UNCHANGED store

Next == \E o \in Operations : Commit(o) \/ Reject(o)

Spec == Init /\ [][Next]_vars
=============================================================================
