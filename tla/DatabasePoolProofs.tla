------------------------- MODULE DatabasePoolProofs -------------------------
(***************************************************************************)
(* Proofs about DatabasePool for any clients, workers, connections and     *)
(* sizes of the queue.                                                     *)
(***************************************************************************)
EXTENDS DatabasePool, TLAPS

Pcs == {"idle", "spin", "use", "try", "ping", "pings"}

PoolTypes ==
  /\ queue \in Seq(Nat) /\ enqueued \in Nat /\ active \in BOOLEAN
  /\ worker \in [W -> Nat \cup {None}]
  /\ exited \subseteq W
  /\ client \in [Clients -> [pc : Pcs, i : Nat, conn : S \cup {None}]]
  /\ calls \in [Clients -> Nat]
  /\ lock \in [S -> Clients \cup {None}]
  /\ effects \in Seq(Nat)
  /\ closePc \in {"no", "workers", "sync", "done"}

\* A lock and its holder know each other, and a client holds a connection
\* exactly between LockIfReady and Unlock.
LockInv ==
  /\ \A c \in Clients : client[c].pc \in {"use", "ping"} <=> client[c].conn # None
  /\ \A c \in Clients : client[c].pc \in {"try", "ping"} => client[c].i \in S
  /\ \A c \in Clients, k \in S : client[c].conn = k <=> lock[k] = c

\* Close waits for the clients, then for the workers, who leave only when the
\* queue is closed and therefore empty.
CloseInv ==
  /\ closePc = "no" <=> active
  /\ ~active => queue = <<>>
  /\ ~active => \A c \in Clients : client[c].pc = "idle"
  /\ \A w \in exited : ~active /\ worker[w] = None
  /\ \A w \in W : <<"async", w>> \in closed => w \in exited
  /\ \A k \in S : <<"sync", k>> \in closed => ~active

\* What has left the queue are the first n operations; the queue holds the
\* others in the order of their numbers until Close drops them.
Taken(n) ==
  /\ n \in 0..enqueued
  /\ ToSet(effects) \cup Running = 1..n
  /\ active => Len(queue) = enqueued - n /\ \A j \in 1..Len(queue) : queue[j] = n + j

OrderInv == \E n \in Nat : Taken(n)

IInv == PoolTypes /\ LockInv /\ CloseInv /\ OrderInv

USE PoolAssumption

-----------------------------------------------------------------------------

LEMMA InitIInv == Init => IInv
<1> SUFFICES ASSUME Init PROVE IInv
  OBVIOUS
<1>1. PoolTypes
  BY DEF Init, PoolTypes, Pcs, Idle
<1>2. LockInv
  BY DEF Init, LockInv, Idle, S
<1>3. CloseInv
  BY DEF Init, CloseInv, Idle
<1>4. Taken(0)
  BY DEF Init, Taken, ToSet, Running
<1> QED BY <1>1, <1>2, <1>3, <1>4 DEF IInv, OrderInv

\* The order is kept by every step that leaves queue and workers alone.
LEMMA OrderKept ==
  ASSUME OrderInv, UNCHANGED <<queue, enqueued, active, worker, effects>>
  PROVE  OrderInv'
<1>1. PICK n \in Nat : Taken(n)
  BY DEF OrderInv
<1>2. Taken(n)'
  BY <1>1 DEF Taken, Running
<1> QED BY <1>2 DEF OrderInv

LEMMA OrderPush ==
  ASSUME PoolTypes, OrderInv, Push, UNCHANGED <<active, worker, effects>>
  PROVE  OrderInv' /\ queue' \in Seq(Nat) /\ enqueued' \in Nat
<1>1. PICK n \in Nat : Taken(n)
  BY DEF OrderInv
<1>2. /\ Len(queue') = Len(queue) + 1 /\ enqueued' = enqueued + 1
      /\ \A j \in 1..Len(queue) : queue'[j] = queue[j]
      /\ queue'[Len(queue) + 1] = enqueued + 1
      /\ Len(queue) \in Nat
  BY DEF Push, PoolTypes
<1>3. ToSet(effects') \cup Running' = 1..n
  BY <1>1 DEF Taken, Running
<1>4. Len(queue) = enqueued - n /\ \A j \in 1..Len(queue) : queue[j] = n + j
  BY <1>1 DEF Taken, Push
<1>5. Len(queue') = enqueued' - n /\ \A j \in 1..Len(queue') : queue'[j] = n + j
  <2>1. Len(queue') = enqueued' - n
    BY <1>2, <1>4 DEF PoolTypes
  <2>2. ASSUME NEW j \in 1..Len(queue') PROVE queue'[j] = n + j
    <3>1. CASE j \in 1..Len(queue)
      BY <1>2, <1>4, <3>1
    <3>2. CASE j = Len(queue) + 1
      BY <1>2, <1>4, <3>2 DEF PoolTypes
    <3> QED BY <1>2, <2>2, <3>1, <3>2
  <2> QED BY <2>1, <2>2
<1>6. n \in 0..enqueued'
  BY <1>1, <1>2 DEF Taken, PoolTypes
<1>7. Taken(n)'
  BY <1>3, <1>5, <1>6 DEF Taken
<1> QED BY <1>7 DEF OrderInv, Push, PoolTypes

-----------------------------------------------------------------------------
(* The clients.                                                            *)

LEMMA EnqueueStep ==
  ASSUME IInv, NEW c \in Clients, Enqueue(c)
  PROVE  IInv'
<1>1. OrderInv' /\ queue' \in Seq(Nat) /\ enqueued' \in Nat
  BY OrderPush DEF IInv, Enqueue
<1>2. PoolTypes'
  BY <1>1 DEF IInv, PoolTypes, Enqueue, Call
<1>3. LockInv'
  BY DEF IInv, LockInv, Enqueue
<1>4. CloseInv'
  BY DEF IInv, CloseInv, Enqueue, Push
<1> QED BY <1>1, <1>2, <1>3, <1>4 DEF IInv

LEMMA BeginCallStep ==
  ASSUME IInv, NEW c \in Clients, Direct(c) \/ KeepAlive(c)
  PROVE  IInv'
<1> DEFINE at(p) == [pc |-> p, i |-> 0, conn |-> None]
<1>1. /\ closePc = "no" /\ client[c].pc = "idle"
      /\ \E p \in {"spin", "try"} : client' = [client EXCEPT ![c] = at(p)]
      /\ calls' = [calls EXCEPT ![c] = @ + 1]
      /\ UNCHANGED <<queue, enqueued, active, worker, lock, effects, dropped,
                     closePc, closed, exited>>
  BY DEF Direct, KeepAlive, Call
<1>2. PICK p \in {"spin", "try"} : client' = [client EXCEPT ![c] = at(p)]
  BY <1>1
<1>3. PoolTypes'
  BY <1>1, <1>2 DEF IInv, PoolTypes, Pcs
<1>4. LockInv'
  <2>1. client[c].conn = None
    BY <1>1 DEF IInv, PoolTypes, LockInv
  <2>2. ASSUME NEW d \in Clients
        PROVE  /\ client'[d].pc \in {"use", "ping"} <=> client'[d].conn # None
               /\ client'[d].pc \in {"try", "ping"} => client'[d].i \in S
               /\ client'[d].conn = client[d].conn
    <3>1. CASE d = c
      BY <1>2, <2>1, <3>1 DEF IInv, PoolTypes, S
    <3>2. CASE d # c
      BY <1>2, <3>2 DEF IInv, PoolTypes, LockInv
    <3> QED BY <3>1, <3>2
  <2> QED BY <1>1, <2>2 DEF IInv, LockInv
<1>5. CloseInv'
  BY <1>1, <1>2 DEF IInv, CloseInv
<1>6. OrderInv'
  BY <1>1, OrderKept DEF IInv
<1> QED BY <1>3, <1>4, <1>5, <1>6 DEF IInv

\* A client takes connection k, which is free, in GetFreeConnection ("use") or
\* in KeepAlive ("ping").
LEMMA TakeConnection ==
  ASSUME IInv, NEW c \in Clients, NEW k \in S, NEW p \in {"use", "ping"},
         NEW i \in Nat, p = "ping" => i \in S,
         client[c].pc \in {"spin", "try"}, lock[k] = None,
         lock' = [lock EXCEPT ![k] = c],
         client' = [client EXCEPT ![c] = [pc |-> p, i |-> i, conn |-> k]],
         UNCHANGED <<queue, enqueued, active, worker, calls, effects, dropped,
                     closePc, closed, exited>>
  PROVE  IInv'
<1>1. PoolTypes'
  BY DEF IInv, PoolTypes, Pcs
<1>2. LockInv'
  <2>1. k # None
    BY DEF S
  <2>2. client[c].conn = None
    BY DEF IInv, LockInv, PoolTypes
  <2>3. ASSUME NEW d \in Clients
        PROVE  /\ client'[d].pc \in {"use", "ping"} <=> client'[d].conn # None
               /\ client'[d].pc \in {"try", "ping"} => client'[d].i \in S
    BY <2>1, <2>3 DEF IInv, LockInv, PoolTypes
  <2>4. ASSUME NEW d \in Clients, NEW j \in S
        PROVE  client'[d].conn = j <=> lock'[j] = d
    <3>1. j # None
      BY DEF S
    <3>2. CASE d = c
      <4>1. client'[d].conn = k
        BY <3>2 DEF IInv, PoolTypes
      <4>2. j # k => lock'[j] # c
        BY <2>2, <3>1 DEF IInv, LockInv, PoolTypes
      <4>3. lock'[k] = c
        BY DEF IInv, PoolTypes
      <4> QED BY <3>2, <4>1, <4>2, <4>3
    <3>3. CASE d # c
      <4>1. client'[d].conn = client[d].conn
        BY <3>3 DEF IInv, PoolTypes
      <4>2. CASE j = k
        BY <3>3, <4>1, <4>2 DEF IInv, LockInv, PoolTypes
      <4>3. CASE j # k
        BY <4>1, <4>3 DEF IInv, LockInv, PoolTypes
      <4> QED BY <4>2, <4>3
    <3> QED BY <3>2, <3>3
  <2> QED BY <2>3, <2>4 DEF LockInv
<1>3. CloseInv'
  BY DEF IInv, CloseInv, PoolTypes
<1>4. OrderInv'
  BY OrderKept DEF IInv
<1> QED BY <1>1, <1>2, <1>3, <1>4 DEF IInv

\* A client that holds no connection goes on without one.
LEMMA GoOn ==
  ASSUME IInv, NEW c \in Clients, client[c].pc \in {"spin", "try"},
         NEW r \in [pc : {"idle", "spin", "try", "pings"}, i : Nat, conn : {None}],
         r.pc = "try" => r.i \in S,
         client' = [client EXCEPT ![c] = r],
         UNCHANGED <<queue, enqueued, active, worker, calls, lock, effects,
                     dropped, closePc, closed, exited>>
  PROVE  IInv'
<1>1. PoolTypes'
  BY DEF IInv, PoolTypes, Pcs
<1>2. LockInv'
  <2>1. ASSUME NEW d \in Clients
        PROVE  /\ client'[d].pc \in {"use", "ping"} <=> client'[d].conn # None
               /\ client'[d].pc \in {"try", "ping"} => client'[d].i \in S
    BY <2>1 DEF IInv, LockInv, PoolTypes
  <2>2. ASSUME NEW d \in Clients, NEW j \in S
        PROVE  client'[d].conn = j <=> lock'[j] = d
    <3>1. j # None
      BY DEF S
    <3>2. client'[d].conn = client[d].conn
      <4>1. client[c].conn = None
        BY DEF IInv, LockInv, PoolTypes
      <4>2. CASE d = c
        BY <4>1, <4>2 DEF IInv, PoolTypes
      <4>3. CASE d # c
        BY <4>3 DEF IInv, PoolTypes
      <4> QED BY <4>2, <4>3
    <3> QED BY <3>1, <3>2 DEF IInv, LockInv, PoolTypes
  <2> QED BY <2>1, <2>2 DEF LockInv
<1>3. CloseInv'
  BY DEF IInv, CloseInv, PoolTypes
<1>4. OrderInv'
  BY OrderKept DEF IInv
<1> QED BY <1>1, <1>2, <1>3, <1>4 DEF IInv

\* A client gives its connection back.
LEMMA GiveBack ==
  ASSUME IInv, NEW c \in Clients, client[c].pc \in {"use", "ping"},
         NEW r \in [pc : {"idle", "spin", "try", "pings"}, i : Nat, conn : {None}],
         r.pc = "try" => r.i \in S,
         lock' = [lock EXCEPT ![client[c].conn] = None],
         client' = [client EXCEPT ![c] = r],
         UNCHANGED <<queue, enqueued, active, worker, calls, effects,
                     dropped, closePc, closed, exited>>
  PROVE  IInv'
<1>0. client[c].conn \in S
  BY DEF IInv, LockInv, PoolTypes
<1>1. PoolTypes'
  BY <1>0 DEF IInv, PoolTypes, Pcs
<1>2. LockInv'
  <2>1. ASSUME NEW d \in Clients
        PROVE  /\ client'[d].pc \in {"use", "ping"} <=> client'[d].conn # None
               /\ client'[d].pc \in {"try", "ping"} => client'[d].i \in S
    BY <2>1 DEF IInv, LockInv, PoolTypes
  <2>2. ASSUME NEW d \in Clients, NEW j \in S
        PROVE  client'[d].conn = j <=> lock'[j] = d
    <3>1. j # None
      BY DEF S
    <3>2. CASE d = c
      BY <1>0, <3>1, <3>2 DEF IInv, LockInv, PoolTypes
    <3>3. CASE d # c
      BY <1>0, <3>1, <3>3 DEF IInv, LockInv, PoolTypes
    <3> QED BY <3>2, <3>3
  <2> QED BY <2>1, <2>2 DEF LockInv
<1>3. CloseInv'
  BY DEF IInv, CloseInv, PoolTypes
<1>4. OrderInv'
  BY OrderKept DEF IInv
<1> QED BY <1>1, <1>2, <1>3, <1>4 DEF IInv

\* The index of GetFreeConnection names a connection.
LEMMA IndexInRange ==
  ASSUME NEW n \in Nat
  PROVE  (n + 1) % Wrap \in Nat /\ ((n + 1) % Wrap) % Synch \in S
<1>1. (n + 1) % Wrap \in Nat
  OBVIOUS
<1>2. \A m \in Nat : m % Synch \in 0..(Synch - 1)
  OBVIOUS
<1> QED BY <1>1, <1>2 DEF S

LEMMA GetFreeConnectionStep ==
  ASSUME IInv, NEW c \in Clients, GetFreeConnection(c)
  PROVE  IInv'
<1> DEFINE i == (client[c].i + 1) % Wrap
           k == i % Synch
<1>1. i \in Nat /\ k \in S
  BY IndexInRange DEF IInv, PoolTypes
<1>2. CASE lock[k] = None
  <2>1. /\ lock' = [lock EXCEPT ![k] = c]
        /\ client' = [client EXCEPT ![c] = [pc |-> "use", i |-> i, conn |-> k]]
    BY <1>2 DEF GetFreeConnection
  <2> HIDE DEF i, k
  <2> QED BY <1>1, <1>2, <2>1, TakeConnection DEF GetFreeConnection
<1>3. CASE lock[k] # None
  <2>1. client' = [client EXCEPT ![c].i = i] /\ UNCHANGED lock
    BY <1>3 DEF GetFreeConnection
  <2> HIDE DEF i, k
  <2> DEFINE r == [pc |-> "spin", i |-> i, conn |-> None]
  <2>2. client[c].pc = "spin" /\ client[c].conn = None
    BY DEF IInv, LockInv, PoolTypes, GetFreeConnection
  <2>3. client' = [client EXCEPT ![c] = r]
    <3>1. client[c] = [pc |-> "spin", i |-> client[c].i, conn |-> None]
      BY <2>2 DEF IInv, PoolTypes
    <3>2. [client[c] EXCEPT !.i = i] = r
      BY <3>1
    <3> QED BY <2>1, <3>2
  <2>4. r \in [pc : {"idle", "spin", "try", "pings"}, i : Nat, conn : {None}]
    BY <1>1
  <2> QED BY <2>1, <2>2, <2>3, <2>4, GoOn DEF GetFreeConnection
<1> QED BY <1>2, <1>3

LEMMA AfterPingType ==
  ASSUME NEW i \in S
  PROVE  /\ AfterPing(i) \in [pc : {"idle", "spin", "try", "pings"}, i : Nat, conn : {None}]
         /\ AfterPing(i).pc = "try" => AfterPing(i).i \in S
BY DEF AfterPing, S

LEMMA PingTryStep ==
  ASSUME IInv, NEW c \in Clients, PingTry(c)
  PROVE  IInv'
<1> DEFINE k == client[c].i
<1>1. k \in S /\ k \in Nat /\ client[c].pc = "try"
  BY DEF IInv, LockInv, PingTry, S
<1>2. CASE lock[k] = None
  BY <1>1, <1>2, TakeConnection DEF PingTry
<1>3. CASE lock[k] # None
  BY <1>1, <1>3, GoOn, AfterPingType DEF PingTry
<1> QED BY <1>2, <1>3

LEMMA PingDoneStep ==
  ASSUME IInv, NEW c \in Clients, PingDone(c)
  PROVE  IInv'
<1>1. client[c].i \in S /\ client[c].pc = "ping"
  BY DEF IInv, LockInv, PingDone
<1> QED BY <1>1, GiveBack, AfterPingType DEF PingDone

LEMMA UnlockStep ==
  ASSUME IInv, NEW c \in Clients, Unlock(c)
  PROVE  IInv'
<1>1. Idle \in [pc : {"idle", "spin", "try", "pings"}, i : Nat, conn : {None}]
      /\ Idle.pc # "try"
  BY DEF Idle
<1> QED BY <1>1, GiveBack DEF Unlock

LEMMA EnqueuePingStep ==
  ASSUME IInv, NEW c \in Clients, EnqueuePing(c)
  PROVE  IInv'
<1>1. OrderInv' /\ queue' \in Seq(Nat) /\ enqueued' \in Nat
  BY OrderPush DEF IInv, EnqueuePing
<1>2. client[c].pc = "pings" /\ client[c].conn = None
  BY DEF IInv, LockInv, PoolTypes, EnqueuePing
<1>3. /\ client' \in [Clients -> [pc : Pcs, i : Nat, conn : S \cup {None}]]
      /\ client'[c].pc \in {"idle", "pings"} /\ client'[c].conn = None
      /\ \A d \in Clients : d # c => client'[d] = client[d]
  <2> DEFINE r == NextPing(client[c])
  <2>1. client' = [client EXCEPT ![c] = r]
    BY DEF EnqueuePing
  <2>2. client[c] \in [pc : Pcs, i : Nat, conn : S \cup {None}]
    BY DEF IInv, PoolTypes
  <2>3. /\ r \in [pc : Pcs, i : Nat, conn : S \cup {None}]
        /\ r.pc \in {"idle", "pings"} /\ r.conn = None
    <3>1. CASE client[c].i = Workers
      BY <3>1 DEF NextPing, Idle, Pcs
    <3>2. CASE client[c].i # Workers
      BY <1>2, <2>2, <3>2 DEF NextPing
    <3> QED BY <3>1, <3>2
  <2> HIDE DEF r
  <2> QED BY <2>1, <2>3 DEF IInv, PoolTypes
<1>4. PoolTypes'
  BY <1>1, <1>3 DEF IInv, PoolTypes, EnqueuePing
<1>5. LockInv'
  <2>1. ASSUME NEW d \in Clients
        PROVE  /\ client'[d].pc \in {"use", "ping"} <=> client'[d].conn # None
               /\ client'[d].pc \in {"try", "ping"} => client'[d].i \in S
               /\ client'[d].conn = client[d].conn
    BY <1>2, <1>3, <2>1 DEF IInv, LockInv
  <2> QED BY <2>1 DEF IInv, LockInv, EnqueuePing
<1>6. CloseInv'
  BY DEF IInv, CloseInv, EnqueuePing, Push
<1> QED BY <1>1, <1>4, <1>5, <1>6 DEF IInv

-----------------------------------------------------------------------------
(* The workers and Close.                                                  *)

LEMMA DequeueStep ==
  ASSUME IInv, NEW w \in W, Dequeue(w)
  PROVE  IInv'
<1>1. PICK n \in Nat : Taken(n)
  BY DEF IInv, OrderInv
<1>2. active /\ Len(queue) > 0 /\ Len(queue) \in Nat
  BY DEF IInv, CloseInv, Dequeue, PoolTypes
<1>3. Head(queue) = n + 1 /\ n + 1 \in 0..enqueued
  BY <1>1, <1>2 DEF Taken, IInv, PoolTypes
<1>4. /\ queue' \in Seq(Nat) /\ Len(queue') = Len(queue) - 1
      /\ \A j \in 1..Len(queue') : queue'[j] = queue[j + 1]
  BY <1>2 DEF IInv, PoolTypes, Dequeue
<1>5. PoolTypes'
  BY <1>3, <1>4 DEF IInv, PoolTypes, Dequeue
<1>6. LockInv'
  BY DEF IInv, LockInv, Dequeue
<1>7. CloseInv'
  BY <1>2 DEF IInv, CloseInv, Dequeue
<1>8. Taken(n + 1)'
  <2>1. Running' = Running \cup {n + 1}
    BY <1>3 DEF Running, Dequeue, IInv, PoolTypes
  <2>2. ToSet(effects') \cup Running' = 1..(n + 1)
    BY <1>1, <2>1 DEF Taken, Dequeue
  <2>3. Len(queue') = enqueued' - (n + 1)
    BY <1>1, <1>2, <1>4 DEF Taken, Dequeue, IInv, PoolTypes
  <2>4. \A j \in 1..Len(queue') : queue'[j] = n + 1 + j
    BY <1>1, <1>2, <1>4 DEF Taken
  <2>5. n + 1 \in 0..enqueued'
    BY <1>3 DEF Dequeue
  <2> QED BY <2>2, <2>3, <2>4, <2>5 DEF Taken
<1> QED BY <1>5, <1>6, <1>7, <1>8 DEF IInv, OrderInv

LEMMA ExecutedStep ==
  ASSUME IInv, NEW w \in W, Executed(w)
  PROVE  IInv'
<1>1. PICK n \in Nat : Taken(n)
  BY DEF IInv, OrderInv
<1>2. worker[w] \in Nat
  BY DEF IInv, PoolTypes, Executed
<1>3. PoolTypes'
  BY <1>2 DEF IInv, PoolTypes, Executed
<1>4. LockInv'
  BY DEF IInv, LockInv, Executed
<1>5. CloseInv'
  BY DEF IInv, CloseInv, Executed, PoolTypes
<1>6. ToSet(effects') \cup Running' = ToSet(effects) \cup Running
  <2>1. ToSet(effects') = ToSet(effects) \cup {worker[w]}
    <3>1. effects \in Seq(Nat) /\ effects' = Append(effects, worker[w])
      BY DEF Executed, IInv, PoolTypes
    <3>2. /\ Len(effects) \in Nat
          /\ DOMAIN effects = 1..Len(effects)
          /\ DOMAIN effects' = 1..(Len(effects) + 1)
          /\ \A j \in 1..Len(effects) : effects'[j] = effects[j]
          /\ effects'[Len(effects) + 1] = worker[w]
      BY <1>2, <3>1
    <3>3. ToSet(effects') \subseteq ToSet(effects) \cup {worker[w]}
      BY <3>2 DEF ToSet
    <3>4. ToSet(effects) \subseteq ToSet(effects')
      BY <3>2 DEF ToSet
    <3>5. worker[w] \in ToSet(effects')
      BY <3>2 DEF ToSet
    <3> QED BY <3>3, <3>4, <3>5
  <2>2. Running' \subseteq Running /\ Running \subseteq Running' \cup {worker[w]}
    BY DEF Running, Executed, IInv, PoolTypes
  <2>3. worker[w] \in Running
    BY <1>2 DEF Running
  <2> QED BY <2>1, <2>2, <2>3
<1>7. Taken(n)'
  BY <1>1, <1>6 DEF Taken, Executed
<1> QED BY <1>3, <1>4, <1>5, <1>7 DEF IInv, OrderInv

LEMMA ExitStep ==
  ASSUME IInv, NEW w \in W, Exit(w)
  PROVE  IInv'
<1>1. PoolTypes' /\ LockInv' /\ CloseInv'
  BY DEF IInv, PoolTypes, LockInv, CloseInv, Exit
<1> QED BY <1>1, OrderKept DEF IInv, Exit

LEMMA CloseQueueStep ==
  ASSUME IInv, CloseQueue
  PROVE  IInv'
<1>1. PICK n \in Nat : Taken(n)
  BY DEF IInv, OrderInv
<1>2. PoolTypes'
  <2>1. queue' \in Seq(Nat)
    BY DEF CloseQueue
  <2>2. active' \in BOOLEAN /\ closePc' \in {"no", "workers", "sync", "done"}
    BY DEF CloseQueue
  <2> QED BY <2>1, <2>2 DEF IInv, PoolTypes, CloseQueue
<1>3. LockInv'
  BY DEF IInv, LockInv, CloseQueue
<1>4. CloseInv'
  BY DEF IInv, CloseInv, CloseQueue, ClientsDone
<1>5. Taken(n)'
  BY <1>1 DEF Taken, Running, CloseQueue
<1> QED BY <1>2, <1>3, <1>4, <1>5 DEF IInv, OrderInv

LEMMA CloseConnectionsStep ==
  ASSUME IInv, CloseWorker \/ CloseSynch
  PROVE  IInv'
<1>1. PoolTypes' /\ LockInv'
  BY DEF IInv, PoolTypes, LockInv, CloseWorker, CloseSynch
<1>2. CloseInv'
  <2>1. CASE CloseWorker
    BY <2>1 DEF IInv, CloseInv, PoolTypes, CloseWorker
  <2>2. CASE CloseSynch
    BY <2>2 DEF IInv, CloseInv, PoolTypes, CloseSynch
  <2> QED BY <2>1, <2>2
<1> QED BY <1>1, <1>2, OrderKept DEF IInv, CloseWorker, CloseSynch

-----------------------------------------------------------------------------

LEMMA NextStep == IInv /\ [Next]_vars => IInv'
<1> SUFFICES ASSUME IInv, [Next]_vars PROVE IInv'
  OBVIOUS
<1>1. ASSUME NEW c \in Clients, ClientStep(c) PROVE IInv'
  BY <1>1, EnqueueStep, BeginCallStep, GetFreeConnectionStep, UnlockStep,
     PingTryStep, PingDoneStep, EnqueuePingStep DEF ClientStep
<1>2. ASSUME NEW w \in W, WorkerStep(w) PROVE IInv'
  BY <1>2, DequeueStep, ExecutedStep, ExitStep DEF WorkerStep
<1>3. CASE CloseStep
  BY <1>3, CloseQueueStep, CloseConnectionsStep DEF CloseStep
<1>4. CASE UNCHANGED vars
  <2>1. PoolTypes' /\ LockInv' /\ CloseInv'
    BY <1>4 DEF vars, IInv, PoolTypes, LockInv, CloseInv
  <2> QED BY <1>4, <2>1, OrderKept DEF vars, IInv
<1> QED BY <1>1, <1>2, <1>3, <1>4 DEF Next, Finished

LEMMA SpecIInv == Spec => []IInv
BY InitIInv, NextStep, PTL DEF Spec

\* Whatever number of threads compete in GetFreeConnection and KeepAlive, a
\* synchronous connection has at most one user, and a lock has its holder.
THEOREM ConnectionExclusiveTheorem == Spec => []ConnectionExclusive
<1>1. IInv => ConnectionExclusive
  <2> SUFFICES ASSUME IInv, NEW k \in S
               PROVE  {c \in Clients : client[c].conn = k} = {lock[k]} \ {None}
    BY DEF ConnectionExclusive
  <2> QED BY DEF IInv, PoolTypes, LockInv
<1> QED BY <1>1, SpecIInv, PTL

\* Close closes a connection only after its worker has left or, if it is a
\* synchronous one, when no client holds its lock.
THEOREM NoUseAfterCloseTheorem == Spec => []NoUseAfterClose
<1>1. IInv => NoUseAfterClose
  <2> SUFFICES ASSUME IInv PROVE NoUseAfterClose
    OBVIOUS
  <2>1. ASSUME NEW k \in S, <<"sync", k>> \in closed PROVE lock[k] = None
    <3>1. \A c \in Clients : client[c].conn = None
      BY <2>1 DEF IInv, CloseInv, LockInv
    <3>2. k # None
      BY DEF S
    <3> QED BY <3>1, <3>2 DEF IInv, PoolTypes, LockInv
  <2>2. ASSUME NEW w \in W, <<"async", w>> \in closed
        PROVE  w \in exited /\ worker[w] = None
    BY <2>2 DEF IInv, CloseInv
  <2> QED BY <2>1, <2>2 DEF NoUseAfterClose
<1> QED BY <1>1, SpecIInv, PTL

\* With any number of workers, an operation overtakes only operations that a
\* worker is executing: the queue is first in, first out and nothing in it is
\* skipped.
THEOREM OvertakesTheorem == Spec => []OvertakesRunningOnly
<1>1. IInv => OvertakesRunningOnly
  <2> SUFFICES ASSUME IInv, NEW o \in ToSet(effects), NEW p \in 1..(o - 1)
               PROVE  p \in ToSet(effects) \cup Running
    BY DEF OvertakesRunningOnly
  <2>1. PICK n \in Nat : Taken(n)
    BY DEF IInv, OrderInv
  <2>2. o \in 1..n
    BY <2>1 DEF Taken
  <2>3. p \in 1..n
    BY <2>2
  <2> QED BY <2>1, <2>3 DEF Taken
<1> QED BY <1>1, SpecIInv, PTL

-----------------------------------------------------------------------------
(* Where an operation is.                                                  *)

\* No operation has been taken twice, and what Close dropped is what no
\* worker had taken.
PlaceInv ==
  /\ \A i, j \in 1..Len(effects) : effects[i] = effects[j] => i = j
  /\ \A v, w \in W : worker[v] # None /\ worker[v] = worker[w] => v = w
  /\ Running \cap ToSet(effects) = {}
  /\ active => dropped = {}
  /\ ~active => /\ ToSet(effects) \cup Running \cup dropped = 1..enqueued
                /\ dropped \cap (ToSet(effects) \cup Running) = {}

LEMMA PlaceInit == ASSUME Init PROVE PlaceInv
  BY DEF Init, PlaceInv, Running, ToSet

LEMMA PlaceKept ==
  ASSUME PlaceInv, UNCHANGED <<active, worker, effects, dropped>>,
         active \/ UNCHANGED enqueued
  PROVE  PlaceInv'
  BY DEF PlaceInv, Running

LEMMA PlaceDequeue ==
  ASSUME IInv, PlaceInv, NEW w \in W, Dequeue(w)
  PROVE  PlaceInv'
<1>1. PICK n \in Nat : Taken(n)
  BY DEF IInv, OrderInv
<1>2. active /\ Len(queue) > 0 /\ Len(queue) \in Nat
  BY DEF IInv, CloseInv, Dequeue, PoolTypes
<1>3. Head(queue) = n + 1
  BY <1>1, <1>2 DEF Taken, IInv, PoolTypes
<1>4. /\ worker' = [worker EXCEPT ![w] = n + 1] /\ worker[w] = None
      /\ worker \in [W -> Nat \cup {None}]
      /\ UNCHANGED <<active, effects, dropped>>
  BY <1>3 DEF Dequeue, IInv, PoolTypes
<1>5. n + 1 \notin ToSet(effects) \cup Running
  BY <1>1 DEF Taken
<1>6. \A v \in W : worker[v] # n + 1
  BY <1>5 DEF Running
<1>7. Running' = Running \cup {n + 1}
  BY <1>4 DEF Running
<1>8. \A v, u \in W : worker'[v] # None /\ worker'[v] = worker'[u] => v = u
  BY <1>4, <1>6 DEF PlaceInv
<1> QED
  BY <1>2, <1>4, <1>5, <1>7, <1>8 DEF PlaceInv

LEMMA PlaceExecuted ==
  ASSUME IInv, PlaceInv, NEW w \in W, Executed(w)
  PROVE  PlaceInv'
<1>1. PICK o \in Nat : o = worker[w]
  BY DEF IInv, PoolTypes, Executed
<1>2. /\ worker' = [worker EXCEPT ![w] = None] /\ worker \in [W -> Nat \cup {None}]
      /\ effects' = Append(effects, o) /\ effects \in Seq(Nat)
      /\ UNCHANGED <<active, enqueued, dropped>>
  BY <1>1 DEF Executed, IInv, PoolTypes
<1>3. /\ Len(effects) \in Nat /\ Len(effects') = Len(effects) + 1
      /\ DOMAIN effects = 1..Len(effects) /\ DOMAIN effects' = 1..(Len(effects) + 1)
      /\ \A j \in 1..Len(effects) : effects'[j] = effects[j]
      /\ effects'[Len(effects) + 1] = o
  BY <1>2
<1>4. ToSet(effects') = ToSet(effects) \cup {o}
  <2>1. 1..(Len(effects) + 1) = 1..Len(effects) \cup {Len(effects) + 1}
    BY <1>3
  <2> QED
    BY <1>3, <2>1 DEF ToSet
<1>5. o \in Running /\ o # None /\ o \notin ToSet(effects)
  BY <1>1 DEF Running, PlaceInv
<1>6. Running' = Running \ {o}
  <2>1. \A v \in W : v # w => worker[v] # o
    BY <1>1, <1>5 DEF PlaceInv
  <2> QED
    BY <1>1, <1>2, <2>1 DEF Running
<1>7. \A i, j \in 1..Len(effects') : effects'[i] = effects'[j] => i = j
  <2>1. \A j \in 1..Len(effects) : effects[j] # o
    BY <1>3, <1>5 DEF ToSet
  <2>2. \A j \in 1..Len(effects') : j \in 1..Len(effects) \/ j = Len(effects) + 1
    BY <1>3
  <2> QED
    BY <1>3, <2>1, <2>2 DEF PlaceInv
<1>8. \A v, u \in W : worker'[v] # None /\ worker'[v] = worker'[u] => v = u
  BY <1>2 DEF PlaceInv
<1> QED
  BY <1>2, <1>4, <1>5, <1>6, <1>7, <1>8 DEF PlaceInv

LEMMA PlaceCloseQueue ==
  ASSUME IInv, PlaceInv, CloseQueue
  PROVE  PlaceInv'
<1>1. PICK n \in Nat : Taken(n)
  BY DEF IInv, OrderInv
<1>2. /\ active /\ ~active' /\ dropped' = dropped \cup ToSet(queue)
      /\ UNCHANGED <<enqueued, worker, effects>>
  BY DEF CloseQueue, IInv, CloseInv
<1>3. /\ queue \in Seq(Nat) /\ DOMAIN queue = 1..Len(queue) /\ Len(queue) = enqueued - n
      /\ \A j \in 1..Len(queue) : queue[j] = n + j
      /\ n \in 0..enqueued /\ enqueued \in Nat
  BY <1>1, <1>2 DEF Taken, IInv, PoolTypes
<1>4. ToSet(queue) = (n + 1)..enqueued
  <2>1. ToSet(queue) \subseteq (n + 1)..enqueued
    BY <1>3 DEF ToSet
  <2>2. ASSUME NEW o \in (n + 1)..enqueued PROVE o \in ToSet(queue)
    <3>1. o - n \in 1..Len(queue) /\ queue[o - n] = o
      BY <1>3
    <3> QED
      BY <1>3, <3>1 DEF ToSet
  <2> QED
    BY <2>1, <2>2
<1>5. ToSet(effects) \cup Running = 1..n /\ Running' = Running /\ dropped = {}
  BY <1>1, <1>2 DEF Taken, Running, PlaceInv
<1>6. ToSet(effects') \cup Running' \cup dropped' = 1..enqueued'
  BY <1>2, <1>3, <1>4, <1>5
<1>7. dropped' \cap (ToSet(effects') \cup Running') = {}
  BY <1>2, <1>3, <1>4, <1>5
<1> QED
  BY <1>2, <1>5, <1>6, <1>7 DEF PlaceInv

LEMMA PlaceStep ==
  ASSUME IInv, PlaceInv, [Next]_vars
  PROVE  PlaceInv'
<1>1. ASSUME NEW c \in Clients, ClientStep(c) PROVE PlaceInv'
  BY <1>1, PlaceKept DEF ClientStep, Enqueue, Push, Direct, GetFreeConnection, Unlock,
     KeepAlive, PingTry, PingDone, EnqueuePing
<1>2. ASSUME NEW w \in W, WorkerStep(w) PROVE PlaceInv'
  BY <1>2, PlaceDequeue, PlaceExecuted, PlaceKept DEF WorkerStep, Exit
<1>3. CASE CloseStep
  BY <1>3, PlaceCloseQueue, PlaceKept DEF CloseStep, CloseWorker, CloseSynch
<1>4. CASE UNCHANGED vars
  BY <1>4, PlaceKept DEF vars
<1> QED
  BY <1>1, <1>2, <1>3, <1>4 DEF Next, Finished

\* Every operation that was ever enqueued waits, runs on one worker, has
\* taken effect once, or was thrown away by Close: none is lost and none is
\* executed twice, for any number of workers.
THEOREM OnePlaceTheorem == Spec => []OnePlace
<1>1. IInv /\ PlaceInv => OnePlace
  <2> SUFFICES ASSUME IInv, PlaceInv PROVE OnePlace
    OBVIOUS
  <2>1. PICK n \in Nat : Taken(n)
    BY DEF IInv, OrderInv
  <2>2. /\ queue \in Seq(Nat) /\ effects \in Seq(Nat) /\ enqueued \in Nat
        /\ DOMAIN queue = 1..Len(queue) /\ DOMAIN effects = 1..Len(effects)
        /\ Len(queue) \in Nat /\ Len(effects) \in Nat
        /\ n \in 0..enqueued /\ ToSet(effects) \cup Running = 1..n
    BY <2>1 DEF Taken, IInv, PoolTypes
  <2>3. CASE active
    <3>1. Len(queue) = enqueued - n /\ \A j \in 1..Len(queue) : queue[j] = n + j
      BY <2>1, <2>3 DEF Taken
    <3>2. ToSet(queue) = (n + 1)..enqueued
      <4>1. ToSet(queue) \subseteq (n + 1)..enqueued
        BY <2>2, <3>1 DEF ToSet
      <4>2. ASSUME NEW o \in (n + 1)..enqueued PROVE o \in ToSet(queue)
        <5>1. o - n \in 1..Len(queue) /\ queue[o - n] = o
          BY <2>2, <3>1
        <5> QED
          BY <2>2, <5>1 DEF ToSet
      <4> QED
        BY <4>1, <4>2
    <3>3. \A j \in 1..Len(effects) : effects[j] \in 1..n
      BY <2>2 DEF ToSet
    <3>4. IsInjective(queue \o effects)
      <4>0. /\ DOMAIN (queue \o effects) = 1..(Len(queue) + Len(effects))
            /\ \A k \in 1..(Len(queue) + Len(effects)) : (queue \o effects)[k] =
                 IF k <= Len(queue) THEN queue[k] ELSE effects[k - Len(queue)]
        BY <2>2
      <4>1. PICK l \in Nat, m \in Nat : l = Len(queue) /\ m = Len(effects)
        BY <2>2
      <4> SUFFICES ASSUME NEW a \in 1..(l + m), NEW b \in 1..(l + m),
                          (queue \o effects)[a] = (queue \o effects)[b]
                   PROVE  a = b
        BY <4>0, <4>1 DEF IsInjective
      <4>2. ASSUME NEW k \in 1..(l + m)
            PROVE  \/ k \in 1..l /\ (queue \o effects)[k] = n + k
                   \/ /\ k - l \in 1..m /\ (queue \o effects)[k] = effects[k - l]
                      /\ effects[k - l] \in 1..n
        <5>1. CASE k <= l
          BY <3>1, <4>0, <4>1, <5>1
        <5>2. CASE ~(k <= l)
          BY <3>3, <4>0, <4>1, <5>2
        <5> QED
          BY <5>1, <5>2
      <4>3. CASE a \in 1..l /\ b \in 1..l /\ n + a = n + b
        BY <4>3
      <4>4. CASE a - l \in 1..m /\ b - l \in 1..m /\ effects[a - l] = effects[b - l]
        <5>1. a - l = b - l
          BY <4>1, <4>4 DEF PlaceInv
        <5> QED
          BY <5>1
      <4>5. \A x \in 1..l : \A y \in 1..n : n + x # y
        OBVIOUS
      <4> QED
        BY <4>2, <4>3, <4>4, <4>5
    <3>5. dropped = {}
      BY <2>3 DEF PlaceInv
    <3>6. ToSet(queue) \cup ToSet(effects) \cup Running \cup dropped = 1..enqueued
      BY <2>2, <3>2, <3>5
    <3>7. Running \cap ToSet(queue) = {}
      BY <2>2, <3>2
    <3> QED
      BY <3>4, <3>5, <3>6, <3>7 DEF OnePlace, PlaceInv
  <2>4. CASE ~active
    <3>1. queue = <<>> /\ ToSet(queue) = {}
      BY <2>4 DEF IInv, CloseInv, ToSet
    <3>2. queue \o effects = effects
      BY <2>2, <3>1
    <3>3. IsInjective(queue \o effects)
      BY <2>2, <3>2 DEF IsInjective, PlaceInv
    <3> QED
      BY <2>4, <3>1, <3>3 DEF OnePlace, PlaceInv
  <2> QED
    BY <2>3, <2>4
<1>2. Init => PlaceInv
  BY PlaceInit
<1>3. IInv /\ PlaceInv /\ [Next]_vars => PlaceInv'
  BY PlaceStep
<1> QED
  BY <1>1, <1>2, <1>3, SpecIInv, PTL DEF Spec
=============================================================================
