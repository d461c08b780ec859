---------------------------- MODULE DatabasePool ----------------------------
(***************************************************************************)
(* DatabaseWorkerPool: client threads enqueue operations for worker        *)
(* threads, each with a connection of its own, or execute them directly on *)
(* one of the synchronous connections, which they share under a lock.      *)
(* Close stops the pool when the clients have ended.                       *)
(*                                                                         *)
(* What an operation does on its connection is the matter of               *)
(* DatabaseConnection; here it starts and ends.  Operations are numbered   *)
(* in the order in which they are enqueued; pings are operations too.      *)
(***************************************************************************)
EXTENDS Integers, Sequences, FiniteSets, SequencesExt

CONSTANTS
  Clients,     \* threads that use the pool
  Workers,     \* number of asynchronous connections, each with a worker
  Synch,       \* number of synchronous connections
  Calls,       \* bound: calls a client makes
  HighWater,   \* operations the ACE queue holds before enqueue blocks
  Wrap,        \* 256, the range of the uint8 index of GetFreeConnection
  None

ASSUME PoolAssumption ==
  /\ Workers \in Nat \ {0} /\ Synch \in Nat \ {0} /\ Synch <= Wrap
  /\ Calls \in Nat /\ HighWater \in Nat \ {0} /\ Wrap \in Nat \ {0}
  /\ None \notin Clients /\ None \notin Nat

W == 1..Workers
S == 0..(Synch - 1)

VARIABLES
  queue,      \* _queue: the operations that wait
  enqueued,   \* how many operations have been enqueued
  active,     \* the queue has not been closed
  worker,     \* per worker: the operation it executes or None
  exited,     \* workers whose thread has ended
  client,     \* per client: [pc, i, conn]
  calls,      \* per client: calls made
  lock,       \* per synchronous connection: the client that holds m_Mutex
  effects,    \* operations in the order in which they took effect
  dropped,    \* operations thrown away with the queue
  closePc,    \* Close: "no", "workers", "sync" or "done"
  closed      \* connections that are closed: <<"async", w>>, <<"sync", k>>

vars == <<queue, enqueued, active, worker, exited, client, calls, lock, effects,
          dropped, closePc, closed>>

Idle == [pc |-> "idle", i |-> 0, conn |-> None]

\* Open.
Init ==
  /\ queue = <<>> /\ enqueued = 0 /\ active = TRUE
  /\ worker = [w \in W |-> None] /\ exited = {}
  /\ client = [c \in Clients |-> Idle]
  /\ calls = [c \in Clients |-> 0]
  /\ lock = [k \in S |-> None]
  /\ effects = <<>> /\ dropped = {}
  /\ closePc = "no" /\ closed = {}

-----------------------------------------------------------------------------
(* The clients.                                                            *)

\* Seeded fault: an operation goes to the front.
PushFront == queue' = <<enqueued + 1>> \o queue /\ enqueued' = enqueued + 1

\* ACE_Activation_Queue::enqueue: blocks while the queue is full.
Push ==
  /\ active /\ Len(queue) < HighWater
  /\ queue' = Append(queue, enqueued + 1)
  /\ enqueued' = enqueued + 1

\* The next call of an idle client.
Call(c) ==
  /\ closePc = "no" /\ client[c].pc = "idle" /\ calls[c] < Calls
  /\ calls' = [calls EXCEPT ![c] = @ + 1]

\* Execute, AsyncQuery, DelayQueryHolder, CommitTransaction.
Enqueue(c) ==
  /\ Call(c) /\ Push
  /\ UNCHANGED <<active, worker, client, lock, effects, dropped, closePc,
                 closed, exited>>

\* DirectExecute, Query, DirectCommitTransaction: GetFreeConnection begins.
Direct(c) ==
  /\ Call(c)
  /\ client' = [client EXCEPT ![c] = [pc |-> "spin", i |-> 0, conn |-> None]]
  /\ UNCHANGED <<queue, enqueued, active, worker, lock, effects, dropped,
                 closePc, closed, exited>>

\* Seeded fault: the lock is tested and not taken.
SpinWithoutLock(c) ==
  /\ client[c].pc = "spin"
  /\ LET i == (client[c].i + 1) % Wrap
         k == i % Synch
     IN  client' = [client EXCEPT ![c] =
           IF lock[k] = None THEN [pc |-> "use", i |-> i, conn |-> k]
           ELSE [@ EXCEPT !.i = i]]
  /\ UNCHANGED <<queue, enqueued, active, worker, lock, calls, effects, dropped,
                 closePc, closed, exited>>

\* A turn of the loop of GetFreeConnection: LockIfReady of the next one.
GetFreeConnection(c) ==
  /\ client[c].pc = "spin"
  /\ LET i == (client[c].i + 1) % Wrap
         k == i % Synch
     IN  IF lock[k] = None
         THEN /\ lock' = [lock EXCEPT ![k] = c]
              /\ client' = [client EXCEPT ![c] = [pc |-> "use", i |-> i, conn |-> k]]
         ELSE /\ UNCHANGED lock
              /\ client' = [client EXCEPT ![c].i = i]
  /\ UNCHANGED <<queue, enqueued, active, worker, calls, effects, dropped,
                 closePc, closed, exited>>

\* The statement has been executed; Unlock.
Unlock(c) ==
  /\ client[c].pc = "use"
  /\ lock' = [lock EXCEPT ![client[c].conn] = None]
  /\ client' = [client EXCEPT ![c] = Idle]
  /\ UNCHANGED <<queue, enqueued, active, worker, calls, effects, dropped,
                 closePc, closed, exited>>

\* KeepAlive begins, with the first synchronous connection.
KeepAlive(c) ==
  /\ Call(c)
  /\ client' = [client EXCEPT ![c] = [pc |-> "try", i |-> 0, conn |-> None]]
  /\ UNCHANGED <<queue, enqueued, active, worker, lock, effects, dropped,
                 closePc, closed, exited>>

\* After connection i: the next one, or the pings for the workers.
AfterPing(i) == [pc |-> IF i + 1 < Synch THEN "try" ELSE "pings",
                 i |-> IF i + 1 < Synch THEN i + 1 ELSE 1, conn |-> None]

\* KeepAlive: LockIfReady, or skip a connection that is in use.
PingTry(c) ==
  /\ client[c].pc = "try"
  /\ LET k == client[c].i
     IN  IF lock[k] = None
         THEN /\ lock' = [lock EXCEPT ![k] = c]
              /\ client' = [client EXCEPT ![c] = [pc |-> "ping", i |-> k, conn |-> k]]
         ELSE /\ UNCHANGED lock
              /\ client' = [client EXCEPT ![c] = AfterPing(k)]
  /\ UNCHANGED <<queue, enqueued, active, worker, calls, effects, dropped,
                 closePc, closed, exited>>

\* KeepAlive: Ping has returned; Unlock.
PingDone(c) ==
  /\ client[c].pc = "ping"
  /\ lock' = [lock EXCEPT ![client[c].conn] = None]
  /\ client' = [client EXCEPT ![c] = AfterPing(client[c].i)]
  /\ UNCHANGED <<queue, enqueued, active, worker, calls, effects, dropped,
                 closePc, closed, exited>>

\* After a ping for a worker: the next one, or KeepAlive ends.
NextPing(r) == IF r.i = Workers THEN Idle ELSE [r EXCEPT !.i = @ + 1]

\* KeepAlive: a PingOperation for each of the workers.
EnqueuePing(c) ==
  /\ client[c].pc = "pings"
  /\ Push
  /\ client' = [client EXCEPT ![c] = NextPing(client[c])]
  /\ UNCHANGED <<active, worker, calls, lock, effects, dropped, closePc, closed,
                 exited>>

-----------------------------------------------------------------------------
(* DatabaseWorker::svc.                                                    *)

\* Seeded fault: the operation is not removed from the queue.
DequeuePeek(w) ==
  /\ worker[w] = None /\ queue # <<>>
  /\ worker' = [worker EXCEPT ![w] = Head(queue)]
  /\ UNCHANGED <<queue, enqueued, active, client, calls, lock, effects, dropped,
                 closePc, closed, exited>>

\* dequeue returns an operation: SetConnection, call.
Dequeue(w) ==
  /\ worker[w] = None /\ queue # <<>>
  /\ worker' = [worker EXCEPT ![w] = Head(queue)]
  /\ queue' = Tail(queue)
  /\ UNCHANGED <<enqueued, active, client, calls, lock, effects, dropped,
                 closePc, closed, exited>>

\* call has returned; delete.
Executed(w) ==
  /\ worker[w] # None
  /\ effects' = Append(effects, worker[w])
  /\ worker' = [worker EXCEPT ![w] = None]
  /\ UNCHANGED <<queue, enqueued, active, client, calls, lock, dropped, closePc,
                 closed, exited>>

\* dequeue fails because the queue is closed: the thread ends.
Exit(w) ==
  /\ worker[w] = None /\ ~active /\ w \notin exited
  /\ exited' = exited \cup {w}
  /\ UNCHANGED <<queue, enqueued, active, worker, client, calls, lock, effects,
                 dropped, closePc, closed>>

-----------------------------------------------------------------------------
(* Close, called by Master once the other threads have ended.              *)

ClientsDone == \A c \in Clients : client[c].pc = "idle" /\ calls[c] = Calls

\* Seeded fault: the queue is emptied and stays open.
CloseQueueFlushOnly ==
  /\ closePc = "no" /\ ClientsDone
  /\ dropped' = dropped \cup ToSet(queue)
  /\ queue' = <<>>
  /\ closePc' = "workers"
  /\ UNCHANGED <<enqueued, active, worker, client, calls, lock, effects, closed,
                 exited>>

\* ACE_Message_Queue::close: deactivate, and throw away what is queued.
CloseQueue ==
  /\ closePc = "no" /\ ClientsDone
  /\ active' = FALSE
  /\ dropped' = dropped \cup ToSet(queue)
  /\ queue' = <<>>
  /\ closePc' = "workers"
  /\ UNCHANGED <<enqueued, worker, client, calls, lock, effects, closed,
                 exited>>

NextWorker == Cardinality(closed) + 1

\* Seeded fault: the connection is closed without waiting for its worker.
CloseWorkerNoWait ==
  /\ closePc = "workers"
  /\ closed' = closed \cup {<<"async", NextWorker>>}
  /\ closePc' = IF NextWorker = Workers THEN "sync" ELSE "workers"
  /\ UNCHANGED <<queue, enqueued, active, worker, client, calls, lock, effects,
                 dropped, exited>>

\* Wait for the worker, then close its connection.
CloseWorker ==
  /\ closePc = "workers" /\ NextWorker \in exited
  /\ closed' = closed \cup {<<"async", NextWorker>>}
  /\ closePc' = IF NextWorker = Workers THEN "sync" ELSE "workers"
  /\ UNCHANGED <<queue, enqueued, active, worker, client, calls, lock, effects,
                 dropped, exited>>

\* The synchronous connections, without their locks; delete _queue.
CloseSynch ==
  /\ closePc = "sync"
  /\ closed' = closed \cup {<<"sync", k>> : k \in S}
  /\ closePc' = "done"
  /\ UNCHANGED <<queue, enqueued, active, worker, client, calls, lock, effects,
                 dropped, exited>>

-----------------------------------------------------------------------------
ClientStep(c) ==
  \/ Enqueue(c) \/ Direct(c) \/ GetFreeConnection(c) \/ Unlock(c)
  \/ KeepAlive(c) \/ PingTry(c) \/ PingDone(c) \/ EnqueuePing(c)

WorkerStep(w) == Dequeue(w) \/ Executed(w) \/ Exit(w)

CloseStep == CloseQueue \/ CloseWorker \/ CloseSynch

Finished == closePc = "done" /\ UNCHANGED vars

Next ==
  \/ \E c \in Clients : ClientStep(c)
  \/ \E w \in W : WorkerStep(w)
  \/ CloseStep
  \/ Finished

Spec == Init /\ [][Next]_vars

\* Every thread runs, and MySQL answers every statement.
FairSpec ==
  /\ Spec
  /\ \A c \in Clients : WF_vars(ClientStep(c))
  /\ \A w \in W : WF_vars(WorkerStep(w))
  /\ WF_vars(CloseStep)

-----------------------------------------------------------------------------
(* Properties.                                                             *)

Running == {worker[w] : w \in W} \ {None}

\* Every operation is in exactly one place: it waits, runs on one worker, has
\* taken effect once, or was thrown away by Close.
OnePlace ==
  /\ IsInjective(queue \o effects)
  /\ \A v, w \in W : worker[v] # None /\ worker[v] = worker[w] => v = w
  /\ ToSet(queue) \cup ToSet(effects) \cup Running \cup dropped = 1..enqueued
  /\ Running \cap (ToSet(queue) \cup ToSet(effects) \cup dropped) = {}
  /\ dropped \cap ToSet(effects) = {}

\* No two threads are between LockIfReady and Unlock of one connection, and
\* a locked connection has its user.
ConnectionExclusive ==
  \A k \in S : {c \in Clients : client[c].conn = k} = {lock[k]} \ {None}

\* Close closes no connection that a worker or a client may still use.
NoUseAfterClose ==
  /\ \A w \in W : <<"async", w>> \in closed => w \in exited /\ worker[w] = None
  /\ \A k \in S : <<"sync", k>> \in closed => lock[k] = None

\* An operation that has taken effect may have overtaken only operations that
\* are being executed at the moment.  With one worker there are none: a load
\* that is enqueued after a save then reads what was saved.
OvertakesRunningOnly ==
  \A o \in ToSet(effects) : \A p \in 1..(o - 1) :
    p \in ToSet(effects) \cup Running

\* Every client gets a connection in the end and Close ends, however the
\* clients compete for the connections and whatever the queue holds.
Shutdown == <>(closePc = "done")
=============================================================================
