-------------------------- MODULE MapUpdaterProofs --------------------------
(***************************************************************************)
(* Proofs about MapUpdater for any maps, instances, criteria tasks and     *)
(* number of threads, none included.                                       *)
(***************************************************************************)
EXTENDS MapUpdater, FiniteSetTheorems, TLAPS

WorkerPcs == {"pop", "waiting", "check", "call", "instances", "finish", "exited"}
WorldPcs == {"idle", "schedule", "wait", "sleep", "delayed", "cancel", "join", "done"}

UpdaterTypes ==
  /\ queue \in Seq(Requests)
  /\ shutdown \in BOOLEAN /\ token \in BOOLEAN
  /\ pending_requests \in Int
  /\ Threads \in {{}, Workers}
  /\ wpc \in [Threads -> WorkerPcs]
  /\ request \in [Threads -> Requests \cup {Null}]
  /\ todo \in [Threads -> SUBSET Instances]
  /\ mpc \in WorldPcs /\ afterWait \in {"delayed", "cancel"}
  /\ maps \subseteq BaseMaps /\ live \subseteq Instances
  /\ unscheduled \subseteq Criteria \cup maps
  /\ due \subseteq Requests
  /\ updates \in [Requests -> Nat]

InQueue(r) == \E n \in 1..Len(queue) : queue[n] = r
Held(r) == \E w \in Threads : request[w] = r
HeldBeforeCall(r) == \E w \in Threads : request[w] = r /\ wpc[w] \in {"check", "call"}

\* What a worker holds where, and that a worker with nothing to call is one
\* that will see the token.
WorkerInv ==
  \A w \in Threads :
    /\ wpc[w] \in {"pop", "waiting", "exited"} => request[w] = Null
    /\ wpc[w] \in {"call", "instances", "finish"} => request[w] # Null
    /\ wpc[w] = "check" /\ request[w] = Null => token
    /\ todo[w] # {} => wpc[w] = "instances"
    /\ \A i \in todo[w] : i \in live /\ InstanceOf[i] = request[w] /\ i \notin due

\* A request is in one place, and names something that exists.
PlaceInv ==
  /\ \A m, n \in 1..Len(queue) : queue[m] = queue[n] => m = n
  /\ \A v, w \in Threads : request[v] = request[w] /\ request[v] # Null => v = w
  /\ \A n \in 1..Len(queue) :
       /\ queue[n] \in due \ unscheduled
       /\ queue[n] \in Criteria \cup maps \cup live
       /\ ~Held(queue[n])
  /\ \A w \in Threads : request[w] # Null =>
       /\ request[w] \in due \ unscheduled
       /\ request[w] \in Criteria \cup maps \cup live

\* A request of the tick is still to be scheduled, is queued, is held by a
\* worker that has not called it, or has been carried out once; an instance is
\* of the tick only after its MapInstanced has been carried out.
TickInv ==
  /\ unscheduled \subseteq due
  /\ \A r \in Requests :
       updates[r] = IF r \in due \ unscheduled /\ ~InQueue(r) /\ ~HeldBeforeCall(r)
                    THEN 1 ELSE 0
  /\ \A i \in Instances \cap due : updates[InstanceOf[i]] = 1

\* Where the world thread is, against what the workers may be doing.
PhaseInv ==
  /\ mpc # "schedule" => unscheduled = {}
  /\ mpc \in {"idle", "delayed", "cancel", "join", "done"} \/ token \/ Threads = {}
       => queue = <<>> /\ \A w \in Threads : request[w] = Null
  /\ token => mpc \notin {"idle", "schedule", "delayed"}
  /\ token => afterWait = "cancel"
  /\ mpc \in {"wait", "sleep"} /\ afterWait = "cancel" => token
  /\ mpc = "cancel" \/ shutdown => token

IInv == /\ UpdaterTypes /\ WorkerInv /\ PlaceInv /\ TickInv /\ PhaseInv
        /\ PendingExact

USE MapsAssumption

-----------------------------------------------------------------------------
(* The queue, the notification and the count of busy workers.              *)

LEMMA AppendFacts ==
  ASSUME queue \in Seq(Requests), NEW r \in Requests, queue' = Append(queue, r)
  PROVE  /\ queue' \in Seq(Requests)
         /\ Len(queue') = Len(queue) + 1
         /\ queue'[Len(queue) + 1] = r
         /\ \A n \in 1..Len(queue) : queue'[n] = queue[n]
         /\ \A q : InQueue(q)' <=> InQueue(q) \/ q = r
<1>1. /\ queue' \in Seq(Requests) /\ Len(queue') = Len(queue) + 1
      /\ queue'[Len(queue) + 1] = r
      /\ \A n \in 1..Len(queue) : queue'[n] = queue[n]
  OBVIOUS
<1>2. ASSUME NEW q PROVE InQueue(q)' <=> InQueue(q) \/ q = r
  <2>1. Len(queue) \in Nat
    OBVIOUS
  <2>2. InQueue(q)' => InQueue(q) \/ q = r
    BY <1>1, <2>1 DEF InQueue
  <2>3. InQueue(q) => InQueue(q)'
    BY <1>1, <2>1 DEF InQueue
  <2>4. q = r => InQueue(q)'
    BY <1>1, <2>1 DEF InQueue
  <2> QED
    BY <2>2, <2>3, <2>4
<1> QED
  BY <1>1, <1>2

LEMMA TailFacts ==
  ASSUME queue \in Seq(Requests), queue # <<>>, queue' = Tail(queue)
  PROVE  /\ queue' \in Seq(Requests)
         /\ Len(queue) \in Nat /\ Len(queue) > 0
         /\ Len(queue') = Len(queue) - 1
         /\ Head(queue) = queue[1] /\ Head(queue) \in Requests
         /\ \A n \in 1..Len(queue') : queue'[n] = queue[n + 1]
         /\ \A q : InQueue(q) <=> InQueue(q)' \/ q = queue[1]
<1>1. /\ queue' \in Seq(Requests)
      /\ Len(queue) \in Nat /\ Len(queue) > 0
      /\ Len(queue') = Len(queue) - 1
      /\ Head(queue) = queue[1] /\ Head(queue) \in Requests
      /\ \A n \in 1..Len(queue') : queue'[n] = queue[n + 1]
  OBVIOUS
<1>2. ASSUME NEW q PROVE InQueue(q) <=> InQueue(q)' \/ q = queue[1]
  <2>1. ASSUME InQueue(q), q # queue[1] PROVE InQueue(q)'
    <3>1. PICK n \in 1..Len(queue) : queue[n] = q
      BY <2>1 DEF InQueue
    <3>2. n - 1 \in 1..Len(queue') /\ queue'[n - 1] = q
      BY <1>1, <2>1, <3>1
    <3> QED
      BY <3>2 DEF InQueue
  <2>2. ASSUME InQueue(q)' PROVE InQueue(q)
    <3>1. PICK n \in 1..Len(queue') : queue'[n] = q
      BY <2>2 DEF InQueue
    <3>2. n + 1 \in 1..Len(queue) /\ queue[n + 1] = q
      BY <1>1, <3>1
    <3> QED
      BY <3>2 DEF InQueue
  <2>3. q = queue[1] => InQueue(q)
    BY <1>1 DEF InQueue
  <2> QED
    BY <2>1, <2>2, <2>3
<1> QED
  BY <1>1, <1>2

\* notify_one moves at most one thread, from the wait back to WaitAndPop.
LEMMA NotifyFacts ==
  ASSUME UpdaterTypes, wpc' \in NotifyOne(wpc)
  PROVE  /\ Threads' = Threads
         /\ wpc' \in [Threads -> WorkerPcs]
         /\ \A w \in Threads : \/ wpc'[w] = wpc[w]
                               \/ wpc[w] = "waiting" /\ wpc'[w] = "pop"
<1>1. CASE wpc' = wpc
  BY <1>1 DEF UpdaterTypes, Threads
<1>2. CASE \E v \in Threads : wpc[v] = "waiting" /\ wpc' = [wpc EXCEPT ![v] = "pop"]
  BY <1>2 DEF UpdaterTypes, Threads, WorkerPcs
<1> QED
  BY <1>1, <1>2 DEF NotifyOne

LEMMA BusyFinite ==
  ASSUME UpdaterTypes
  PROVE  IsFiniteSet(Busy) /\ Cardinality(Busy) \in Nat
<1>1. IsFiniteSet(Threads)
  BY FS_EmptySet DEF UpdaterTypes
<1> QED
  BY <1>1, FS_Subset, FS_CardinalityType DEF Busy

\* A count of zero is what wait() returns on: nothing is queued or held.
LEMMA ZeroIsQuiet ==
  ASSUME UpdaterTypes, PendingExact, ~(pending_requests > 0)
  PROVE  queue = <<>> /\ \A w \in Threads : request[w] = Null
<1>1. Len(queue) \in Nat /\ Cardinality(Busy) \in Nat
  BY BusyFinite DEF UpdaterTypes
<1>2. Len(queue) = 0 /\ Cardinality(Busy) = 0
  BY <1>1 DEF PendingExact, UpdaterTypes
<1>3. Busy = {}
  BY <1>2, BusyFinite, FS_EmptySet
<1> QED
  BY <1>2, <1>3 DEF Busy, UpdaterTypes

-----------------------------------------------------------------------------

LEMMA InitIInv == Init => IInv
<1> SUFFICES ASSUME Init PROVE IInv
  OBVIOUS
<1>0. /\ Threads \in {{}, Workers} /\ wpc = [w \in Threads |-> "pop"]
      /\ request = [w \in Threads |-> Null] /\ todo = [w \in Threads |-> {}]
  BY DEF Init, Threads
<1>1. UpdaterTypes
  <2>1. /\ wpc \in [Threads -> WorkerPcs]
        /\ request \in [Threads -> Requests \cup {Null}]
        /\ todo \in [Threads -> SUBSET Instances]
    BY <1>0 DEF WorkerPcs
  <2>2. updates \in [Requests -> Nat]
    BY DEF Init
  <2>3. queue \in Seq(Requests)
    BY DEF Init
  <2>4. mpc \in WorldPcs /\ afterWait \in {"delayed", "cancel"}
    BY DEF Init, WorldPcs
  <2>5. shutdown \in BOOLEAN /\ token \in BOOLEAN
    BY Zenon DEF Init
  <2>7. pending_requests \in Int
    BY DEF Init
  <2>6. /\ maps \subseteq BaseMaps /\ live \subseteq Instances
        /\ unscheduled \subseteq Criteria \cup maps /\ due \subseteq Requests
    BY DEF Init
  <2> QED
    BY <1>0, <2>1, <2>2, <2>3, <2>4, <2>5, <2>6, <2>7 DEF UpdaterTypes
<1>2. WorkerInv
  BY <1>0 DEF WorkerInv
<1>3. PlaceInv
  BY <1>0 DEF Init, PlaceInv
<1>4. TickInv
  BY DEF Init, TickInv
<1>5. PhaseInv
  BY <1>0 DEF Init, PhaseInv
<1>6. PendingExact
  <2>1. Busy = {}
    BY <1>0 DEF Busy
  <2> QED
    BY <2>1, FS_EmptySet DEF PendingExact, Init
<1> QED
  BY <1>1, <1>2, <1>3, <1>4, <1>5, <1>6 DEF IInv

-----------------------------------------------------------------------------
(* The workers.                                                            *)

\* Steps in which workers only go on, and change nothing else.
LEMMA MoveStep ==
  ASSUME IInv, Threads' = Threads, wpc' \in [Threads -> WorkerPcs],
         \A w \in Threads :
           \/ wpc'[w] = wpc[w]
           \/ /\ request[w] = Null
              /\ wpc[w] \in {"pop", "check"} /\ wpc'[w] \in {"waiting", "check", "exited"}
              /\ wpc'[w] = "check" => token
           \/ request[w] # Null /\ wpc[w] = "check" /\ wpc'[w] = "call"
           \/ wpc[w] = "instances" /\ todo[w] = {} /\ wpc'[w] = "finish",
         UNCHANGED <<queueVars, token, pending_requests, request, todo, worldVars,
                     maps, live, updates, due>>
  PROVE  IInv'
<1> USE DEF IInv, queueVars, worldVars
<1>1. UpdaterTypes'
  BY DEF UpdaterTypes
<1>2. WorkerInv'
  BY DEF WorkerInv, UpdaterTypes
<1>3. \A r \in Requests : /\ HeldBeforeCall(r)' <=> HeldBeforeCall(r)
                          /\ Held(r)' <=> Held(r)
                          /\ InQueue(r)' <=> InQueue(r)
  <2>1. \A r \in Requests : \A w \in Threads : request[w] = r =>
          (wpc'[w] \in {"check", "call"} <=> wpc[w] \in {"check", "call"})
    BY DEF UpdaterTypes, Requests
  <2> QED
    BY <2>1 DEF HeldBeforeCall, Held, InQueue
<1>4. PlaceInv'
  BY DEF PlaceInv, Held
<1>5. TickInv'
  BY <1>3 DEF TickInv, UpdaterTypes
<1>6. PhaseInv'
  BY DEF PhaseInv
<1>7. PendingExact'
  <2>1. Busy' = Busy
    BY DEF Busy
  <2> QED
    BY <2>1 DEF PendingExact
<1> QED
  BY <1>1, <1>2, <1>4, <1>5, <1>6, <1>7

LEMMA PopStep ==
  ASSUME IInv, NEW w \in Threads, wpc[w] = "pop", queue # <<>>, ~shutdown,
         queue' = Tail(queue), request' = [request EXCEPT ![w] = Head(queue)],
         wpc' = [wpc EXCEPT ![w] = "check"],
         UNCHANGED <<shutdown, token, pending_requests, todo, worldVars, maps, live,
                     updates, due>>
  PROVE  IInv'
<1> USE DEF IInv, worldVars
<1>h. PICK h : h = queue[1]
  OBVIOUS
<1>0. /\ Threads' = Threads /\ request[w] = Null
      /\ request' = [request EXCEPT ![w] = h]
      /\ h \in Requests /\ h # Null
  BY <1>h, TailFacts DEF UpdaterTypes, Threads, WorkerInv, Requests
<1>1. UpdaterTypes'
  BY <1>0, TailFacts DEF UpdaterTypes, WorkerPcs
<1>2. /\ h \in due \ unscheduled /\ h \in Criteria \cup maps \cup live
      /\ ~Held(h) /\ ~InQueue(h)'
  <2>1. 1 \in 1..Len(queue)
    BY TailFacts DEF UpdaterTypes
  <2>2. ~InQueue(h)'
    <3> SUFFICES ASSUME NEW n \in 1..Len(queue'), queue'[n] = queue[1]
                 PROVE  FALSE
      BY <1>h DEF InQueue
    <3>1. n + 1 \in 1..Len(queue) /\ queue[n + 1] = queue[1]
      BY TailFacts DEF UpdaterTypes
    <3>2. n + 1 = 1
      BY <2>1, <3>1 DEF PlaceInv
    <3> QED
      BY <3>2
  <2> QED
    BY <1>h, <2>1, <2>2 DEF PlaceInv
<1>3. WorkerInv'
  <2>1. todo[w] = {}
    BY DEF WorkerInv
  <2> QED
    BY <1>0, <2>1 DEF WorkerInv, UpdaterTypes
<1>4. \A r \in Requests : /\ Held(r)' <=> Held(r) \/ r = h
                          /\ HeldBeforeCall(r)' <=> HeldBeforeCall(r) \/ r = h
                          /\ InQueue(r) <=> InQueue(r)' \/ r = h
  <2>1. \A r \in Requests : Held(r)' <=> Held(r) \/ r = h
    BY <1>0 DEF Held, UpdaterTypes, Requests
  <2>2. \A r \in Requests : HeldBeforeCall(r)' <=> HeldBeforeCall(r) \/ r = h
    BY <1>0 DEF HeldBeforeCall, UpdaterTypes, Requests
  <2> QED
    BY <1>h, <2>1, <2>2, TailFacts DEF UpdaterTypes
<1>5. PlaceInv'
  <2>1. \A m, n \in 1..Len(queue)' : queue'[m] = queue'[n] => m = n
    BY TailFacts DEF PlaceInv, UpdaterTypes
  <2>2. \A u, v \in Threads : request'[u] = request'[v] /\ request'[u] # Null => u = v
    BY <1>0, <1>2 DEF PlaceInv, UpdaterTypes, Held
  <2>3. ASSUME NEW n \in 1..Len(queue)'
        PROVE  /\ queue'[n] \in due \ unscheduled
               /\ queue'[n] \in Criteria \cup maps \cup live
               /\ ~Held(queue[n])'
    <3>1. n + 1 \in 1..Len(queue) /\ queue'[n] = queue[n + 1]
      BY TailFacts DEF UpdaterTypes
    <3>2. queue'[n] # h
      BY <1>2 DEF InQueue
    <3>3. \A v \in Threads : request'[v] # queue'[n]
      <4>1. ~Held(queue[n + 1])
        BY <3>1 DEF PlaceInv
      <4> QED
        BY <1>0, <3>1, <3>2, <4>1 DEF Held, UpdaterTypes
    <3> QED
      BY <1>0, <3>1, <3>3 DEF PlaceInv, Held
  <2>4. \A v \in Threads : request'[v] # Null =>
          /\ request'[v] \in due \ unscheduled
          /\ request'[v] \in Criteria \cup maps \cup live
    BY <1>0, <1>2 DEF PlaceInv, UpdaterTypes
  <2> QED
    BY <1>0, <2>1, <2>2, <2>3, <2>4 DEF PlaceInv
<1>6. TickInv'
  BY <1>4 DEF TickInv, UpdaterTypes
<1>7. PhaseInv'
  BY <1>0 DEF PhaseInv, Threads
<1>8. PendingExact'
  <2>1. Busy' = Busy \cup {w} /\ w \notin Busy
    BY <1>0 DEF Busy, UpdaterTypes
  <2>2. Cardinality(Busy') = Cardinality(Busy) + 1
    BY <2>1, BusyFinite, FS_AddElement
  <2>3. Len(queue') = Len(queue) - 1 /\ Len(queue) \in Nat
    BY TailFacts DEF UpdaterTypes
  <2> QED
    BY <2>2, <2>3, BusyFinite DEF PendingExact
<1> QED
  BY <1>1, <1>3, <1>5, <1>6, <1>7, <1>8

LEMMA WaitAndPopStep ==
  ASSUME IInv, NEW w \in Threads, WaitAndPop(w)
  PROVE  IInv'
<1>0. wpc[w] = "pop" /\ request[w] = Null
  BY DEF IInv, WaitAndPop, WorkerInv
<1>1. CASE queue # <<>> /\ ~shutdown
  BY <1>1, PopStep DEF WaitAndPop
<1>2. CASE queue = <<>> \/ shutdown
  <2>0. shutdown => token
    BY DEF IInv, PhaseInv
  <2>1. PICK pc \in {"waiting", "check"} : wpc' = [wpc EXCEPT ![w] = pc]
    BY <1>2 DEF WaitAndPop
  <2>2. wpc \in [Threads -> WorkerPcs]
    BY DEF IInv, UpdaterTypes
  <2>3. Threads' = Threads /\ wpc' \in [Threads -> WorkerPcs]
    BY <2>1, <2>2 DEF Threads, WorkerPcs
  <2>4. UNCHANGED <<queueVars, token, pending_requests, request, todo, worldVars,
                    maps, live, updates, due>>
    BY <1>2 DEF WaitAndPop, queueVars
  <2>5. \A v \in Threads : wpc'[v] = wpc[v] \/ (v = w /\ wpc'[v] = pc)
    BY <2>1, <2>2
  <2>6. pc = "check" => token
    <3>1. pc = "check" => wpc'[w] = "check"
      BY <2>1, <2>2
    <3>2. wpc'[w] = "check" => shutdown
      BY <1>0, <1>2, <2>2 DEF WaitAndPop
    <3> QED
      BY <2>0, <3>1, <3>2
  <2> QED
    BY <1>0, <2>3, <2>4, <2>5, <2>6, MoveStep
<1> QED
  BY <1>1, <1>2

LEMMA CheckTokenStep ==
  ASSUME IInv, NEW w \in Threads, CheckToken(w)
  PROVE  IInv'
<1>1. PICK pc \in {"exited", "call"} : /\ wpc' = [wpc EXCEPT ![w] = pc]
                                      /\ IF pc = "exited" THEN token ELSE request[w] # Null
  BY DEF CheckToken, IInv, WorkerInv
<1>2. pc = "exited" => request[w] = Null
  BY <1>1 DEF IInv, PhaseInv
<1>3. Threads' = Threads /\ wpc' \in [Threads -> WorkerPcs]
  BY <1>1 DEF Threads, IInv, UpdaterTypes, WorkerPcs
<1>4. \A v \in Threads : \/ wpc'[v] = wpc[v]
                         \/ v = w /\ wpc'[v] = pc
  BY <1>1 DEF IInv, UpdaterTypes, Threads
<1> QED
  BY <1>1, <1>2, <1>3, <1>4, MoveStep DEF CheckToken

LEMMA InstancesDoneStep ==
  ASSUME IInv, NEW w \in Threads, InstancesDone(w)
  PROVE  IInv'
<1>1. Threads' = Threads /\ wpc' \in [Threads -> WorkerPcs]
  BY DEF InstancesDone, Threads, IInv, UpdaterTypes, WorkerPcs
<1>2. \A v \in Threads : wpc'[v] = wpc[v] \/ (v = w /\ wpc'[v] = "finish")
  <2>1. wpc \in [Threads -> WorkerPcs]
    BY DEF IInv, UpdaterTypes
  <2> QED
    BY <2>1 DEF InstancesDone
<1> QED
  BY <1>1, <1>2, MoveStep DEF InstancesDone

LEMMA CallStep ==
  ASSUME IInv, NEW w \in Threads, Call(w)
  PROVE  IInv'
<1> USE DEF IInv, queueVars, worldVars
<1>r. PICK r : r = request[w]
  OBVIOUS
<1>t. wpc \in [Threads -> WorkerPcs] /\ todo \in [Threads -> SUBSET Instances]
  BY DEF UpdaterTypes
<1>p. PICK pc \in {"instances", "finish"} : wpc' = [wpc EXCEPT ![w] = pc]
  BY DEF Call
<1>0. /\ wpc[w] = "call" /\ r # Null /\ r \in Requests /\ r \in due \ unscheduled
      /\ HeldBeforeCall(r) /\ Threads' = Threads /\ request' = request
      /\ queue' = queue /\ token' = token
  BY <1>r, <1>t DEF Call, Threads, WorkerInv, UpdaterTypes, PlaceInv, HeldBeforeCall
<1>1. /\ updates[r] = 0
      /\ updates' = [updates EXCEPT ![r] = 1]
  <2>1. updates[r] = 0
    BY <1>0 DEF TickInv
  <2>2. updates' = [updates EXCEPT ![r] = updates[r] + 1]
    BY <1>r DEF Call
  <2> QED
    BY <2>1, <2>2
<1>2. \A i \in Instances : InstanceOf[i] = r => i \notin due
  BY <1>1 DEF TickInv
<1>3. /\ todo' \in [Threads -> SUBSET Instances]
      /\ \A v \in Threads \ {w} : todo'[v] = todo[v]
      /\ \A i \in todo'[w] : i \in live /\ InstanceOf[i] = r /\ i \notin due
      /\ todo'[w] # {} => wpc'[w] = "instances"
  <2>1. CASE r \in Instanced
    <3>1. /\ todo' = [todo EXCEPT ![w] = {i \in live : InstanceOf[i] = r}]
          /\ wpc' = [wpc EXCEPT ![w] = "instances"]
      BY <1>r, <2>1 DEF Call
    <3>2. live \subseteq Instances
      BY DEF UpdaterTypes
    <3> QED
      BY <1>2, <1>t, <3>1, <3>2
  <2>2. CASE r \notin Instanced
    <3>1. todo' = todo
      BY <1>r, <2>2 DEF Call
    <3>2. todo[w] = {}
      BY <1>0 DEF WorkerInv
    <3> QED
      BY <1>t, <3>1, <3>2
  <2> QED
    BY <2>1, <2>2
<1>4. UpdaterTypes'
  BY <1>0, <1>1, <1>3, <1>p DEF Call, UpdaterTypes, WorkerPcs
<1>5. WorkerInv'
  <2>1. live' = live /\ due' = due
    BY DEF Call
  <2>2. ASSUME NEW v \in Threads, v # w
        PROVE  wpc'[v] = wpc[v]
    BY <1>p, <1>t, <2>2
  <2>3. wpc'[w] \in {"instances", "finish"}
    BY <1>p, <1>t
  <2> QED
    BY <1>0, <1>3, <1>r, <2>1, <2>2, <2>3 DEF WorkerInv
<1>6. \A q \in Requests : HeldBeforeCall(q)' <=> HeldBeforeCall(q) /\ q # r
  <2>1. \A v \in Threads : v # w => wpc'[v] = wpc[v] /\ request[v] # r
    BY <1>0, <1>p, <1>r, <1>t DEF PlaceInv
  <2>2. wpc'[w] \notin {"check", "call"}
    BY <1>p, <1>t
  <2> QED
    BY <1>0, <1>r, <2>1, <2>2 DEF HeldBeforeCall
<1>7. PlaceInv'
  BY <1>0 DEF Call, PlaceInv, Held
<1>8. TickInv'
  <2>1. \A q \in Requests : InQueue(q)' <=> InQueue(q)
    BY <1>0 DEF InQueue
  <2>2. ~InQueue(r)
    BY <1>r DEF InQueue, PlaceInv, Held
  <2>3. unscheduled' = unscheduled /\ due' = due
    BY DEF Call
  <2>4. \A q \in Requests : updates'[q] = IF q = r THEN 1 ELSE updates[q]
    BY <1>1 DEF UpdaterTypes
  <2>5. \A i \in Instances : InstanceOf[i] \in Requests
    BY DEF Requests
  <2> QED
    BY <1>0, <1>1, <1>2, <1>6, <2>1, <2>2, <2>3, <2>4, <2>5 DEF TickInv
<1>9. PhaseInv'
  BY <1>0 DEF Call, PhaseInv
<1>10. PendingExact'
  BY <1>0 DEF Call, PendingExact, Busy
<1> QED
  BY <1>4, <1>5, <1>7, <1>8, <1>9, <1>10

\* While instance i is to be visited nothing refers to it.
LEMMA TodoIsFresh ==
  ASSUME IInv, NEW w \in Threads, NEW i \in todo[w]
  PROVE  /\ i \in Requests /\ i \in Instances /\ i \in live /\ i \notin due
         /\ i \notin unscheduled /\ ~InQueue(i) /\ ~Held(i) /\ ~HeldBeforeCall(i)
         /\ wpc[w] = "instances" /\ request[w] # Null
         /\ InstanceOf[i] = request[w] /\ updates[request[w]] = 1
         /\ \A v \in Threads : v # w => i \notin todo[v]
<1> USE DEF IInv
<1>1. /\ i \in Requests /\ i \in Instances /\ i \in live /\ i \notin due
      /\ wpc[w] = "instances" /\ InstanceOf[i] = request[w]
  BY DEF WorkerInv, UpdaterTypes, Requests
<1>2. request[w] # Null
  BY <1>1 DEF WorkerInv
<1>3. i \notin unscheduled /\ ~InQueue(i) /\ ~Held(i) /\ ~HeldBeforeCall(i)
  BY <1>1 DEF TickInv, PlaceInv, InQueue, Held, HeldBeforeCall, Requests
<1>4. updates[request[w]] = 1
  <2>1. request[w] \in Requests /\ request[w] \in due \ unscheduled
    BY <1>2 DEF PlaceInv, UpdaterTypes
  <2>2. ~InQueue(request[w])
    BY DEF PlaceInv, InQueue, Held
  <2>3. ~HeldBeforeCall(request[w])
    BY <1>1, <1>2 DEF PlaceInv, HeldBeforeCall
  <2> QED
    BY <2>1, <2>2, <2>3 DEF TickInv
<1>5. \A v \in Threads : v # w => i \notin todo[v]
  BY <1>1, <1>2 DEF WorkerInv, PlaceInv
<1> QED
  BY <1>1, <1>2, <1>3, <1>4, <1>5

\* schedule_update of a request that is nowhere yet, by either kind of thread.
LEMMA ScheduleStep ==
  ASSUME IInv, NEW r \in Requests, Schedule(r, wpc),
         r \in Criteria \cup maps \cup live,
         ~InQueue(r), ~Held(r), updates[r] = 0,
         r \in Instances => updates[InstanceOf[r]] = 1,
         Threads # {}, ~token, mpc \in {"schedule", "wait", "sleep"},
         todo' \in [Threads -> SUBSET Instances],
         \A v \in Threads : todo'[v] \subseteq todo[v] \ {r},
         due' = due \cup {r}, unscheduled' = unscheduled \ {r},
         UNCHANGED <<request, mpc, afterWait, maps, live, updates>>
  PROVE  IInv'
<1> USE DEF IInv
<1>0. /\ Threads' = Threads /\ wpc' \in [Threads -> WorkerPcs]
      /\ \A w \in Threads : \/ wpc'[w] = wpc[w]
                            \/ wpc[w] = "waiting" /\ wpc'[w] = "pop"
  BY NotifyFacts DEF Schedule
<1>1. /\ pending_requests' = pending_requests + 1
      /\ queue \in Seq(Requests) /\ queue' = Append(queue, r)
      /\ shutdown' = shutdown /\ token' = token
  BY DEF Schedule, UpdaterTypes
<1>2. /\ queue' \in Seq(Requests)
      /\ Len(queue) \in Nat /\ Len(queue') = Len(queue) + 1
      /\ queue'[Len(queue) + 1] = r
      /\ \A n \in 1..Len(queue) : queue'[n] = queue[n]
      /\ \A q : InQueue(q)' <=> InQueue(q) \/ q = r
  BY <1>1, AppendFacts
<1>3. UpdaterTypes'
  <2>1. pending_requests' \in Int /\ updates' \in [Requests -> Nat]
    BY <1>1 DEF UpdaterTypes
  <2>2. mpc' \in WorldPcs /\ shutdown' \in BOOLEAN /\ token' \in BOOLEAN
    BY <1>1, Zenon DEF UpdaterTypes
  <2> QED
    BY <1>0, <1>2, <2>1, <2>2 DEF UpdaterTypes
<1>4. WorkerInv'
  <2> SUFFICES ASSUME NEW w \in Threads
               PROVE  /\ wpc'[w] \in {"pop", "waiting", "exited"} => request[w] = Null
                      /\ wpc'[w] \in {"call", "instances", "finish"} => request[w] # Null
                      /\ wpc'[w] = "check" /\ request[w] = Null => token
                      /\ todo'[w] # {} => wpc'[w] = "instances"
                      /\ \A i \in todo'[w] : /\ i \in live /\ InstanceOf[i] = request[w]
                                             /\ i \notin due \cup {r}
    BY <1>0, <1>1 DEF WorkerInv
  <2>1. CASE wpc'[w] = wpc[w]
    BY <2>1 DEF WorkerInv
  <2>2. CASE wpc[w] = "waiting" /\ wpc'[w] = "pop"
    BY <2>2 DEF WorkerInv
  <2> QED
    BY <1>0, <2>1, <2>2
<1>5. \A q : Held(q)' <=> Held(q)
  BY <1>0 DEF Held
<1>6. PlaceInv'
  <2>1. \A m, n \in 1..Len(queue') : queue'[m] = queue'[n] => m = n
    BY <1>2 DEF PlaceInv, InQueue
  <2>2. ASSUME NEW n \in 1..Len(queue')
        PROVE  /\ queue'[n] \in due' \ unscheduled'
               /\ queue'[n] \in Criteria \cup maps \cup live
               /\ \A w \in Threads : request[w] # queue'[n]
    <3>1. CASE n = Len(queue) + 1
      BY <1>2, <3>1 DEF Held
    <3>2. CASE n \in 1..Len(queue)
      BY <1>2, <3>2 DEF PlaceInv, Held
    <3> QED
      BY <1>2, <3>1, <3>2
  <2>3. \A w \in Threads : request[w] # Null => request[w] \in due' \ unscheduled'
    BY DEF PlaceInv
  <2> QED
    BY <1>0, <2>1, <2>2, <2>3 DEF PlaceInv, Held
<1>7. TickInv'
  <2>1. \A q \in Requests : HeldBeforeCall(q)' <=> HeldBeforeCall(q)
    <3>1. \A w \in Threads : wpc'[w] \in {"check", "call"} <=> wpc[w] \in {"check", "call"}
      BY <1>0
    <3> QED
      BY <1>0, <3>1 DEF HeldBeforeCall
  <2>2. \A q \in Requests : q # r => (q \in due' \ unscheduled' <=> q \in due \ unscheduled)
    OBVIOUS
  <2>3. ASSUME NEW q \in Requests
        PROVE  updates[q] = IF q \in due' \ unscheduled' /\ ~InQueue(q)' /\ ~HeldBeforeCall(q)'
                            THEN 1 ELSE 0
    <3>1. CASE q = r
      BY <1>2, <3>1
    <3>2. CASE q # r
      BY <1>2, <2>1, <2>2, <3>2 DEF TickInv
    <3> QED
      BY <3>1, <3>2
  <2>4. unscheduled' \subseteq due'
    BY DEF TickInv
  <2>5. \A i \in Instances \cap due' : updates[InstanceOf[i]] = 1
    BY DEF TickInv
  <2> QED
    BY <2>3, <2>4, <2>5 DEF TickInv
<1>8. PhaseInv'
  BY <1>0, <1>1 DEF PhaseInv
<1>9. PendingExact'
  <2>1. Busy' = Busy
    BY <1>0 DEF Busy
  <2> QED
    BY <1>1, <1>2, <2>1, BusyFinite DEF PendingExact
<1> QED
  BY <1>3, <1>4, <1>6, <1>7, <1>8, <1>9

LEMMA UpdateInstanceStep ==
  ASSUME IInv, NEW w \in Threads, NEW i \in Instances, UpdateInstance(w, i)
  PROVE  IInv'
<1>1. /\ i \in Requests /\ i \in live /\ i \notin due /\ i \notin unscheduled
      /\ ~InQueue(i) /\ ~Held(i) /\ request[w] # Null
      /\ updates[InstanceOf[i]] = 1
      /\ \A v \in Threads : v # w => i \notin todo[v]
  BY TodoIsFresh DEF UpdateInstance
<1>2. updates[i] = 0
  BY <1>1 DEF IInv, TickInv
<1>3. ~token /\ Threads # {} /\ mpc \in {"schedule", "wait", "sleep"}
  BY <1>1 DEF IInv, PhaseInv, UpdaterTypes, WorldPcs
<1>4. /\ todo' \in [Threads -> SUBSET Instances]
      /\ \A v \in Threads : todo'[v] \subseteq todo[v] \ {i}
  <2>1. todo \in [Threads -> SUBSET Instances]
    BY DEF IInv, UpdaterTypes
  <2> QED
    BY <1>1, <2>1 DEF UpdateInstance
<1>5. /\ Schedule(i, wpc) /\ due' = due \cup {i} /\ unscheduled' = unscheduled \ {i}
      /\ UNCHANGED <<request, mpc, afterWait, maps, live, updates>>
  BY <1>1 DEF UpdateInstance, worldVars
<1> QED
  BY <1>1, <1>2, <1>3, <1>4, <1>5, ScheduleStep

LEMMA ScheduleRequestStep ==
  ASSUME IInv, NEW r \in Requests, ScheduleRequest(r)
  PROVE  IInv'
<1>1. r \in unscheduled
  BY DEF ScheduleRequest, NextToSchedule
<1>2. r \in Criteria \cup maps /\ r \notin Instances /\ r \in due
  BY <1>1 DEF IInv, UpdaterTypes, TickInv
<1>3. ~InQueue(r) /\ ~Held(r) /\ updates[r] = 0
  <2>1. r # Null
    BY DEF Requests
  <2> QED
    BY <1>1, <2>1 DEF IInv, PlaceInv, TickInv, InQueue, Held
<1>4. ~token /\ Threads # {} /\ mpc \in {"schedule", "wait", "sleep"}
  BY DEF IInv, PhaseInv, ScheduleRequest, Activated
<1>5. /\ todo' \in [Threads -> SUBSET Instances]
      /\ \A v \in Threads : todo'[v] \subseteq todo[v] \ {r}
  BY <1>2 DEF IInv, UpdaterTypes, ScheduleRequest
<1>6. /\ Schedule(r, wpc) /\ due' = due \cup {r} /\ unscheduled' = unscheduled \ {r}
      /\ UNCHANGED <<request, mpc, afterWait, maps, live, updates>>
  BY <1>2 DEF ScheduleRequest
<1> QED
  BY <1>2, <1>3, <1>4, <1>5, <1>6, ScheduleStep

LEMMA DestroyInstanceStep ==
  ASSUME IInv, NEW w \in Threads, NEW i \in Instances, DestroyInstance(w, i)
  PROVE  IInv'
<1> USE DEF IInv, queueVars, worldVars
<1>1. /\ i \in live /\ i \notin due /\ i \notin maps /\ i \notin Criteria
      /\ ~InQueue(i) /\ ~Held(i)
      /\ \A v \in Threads : v # w => i \notin todo[v]
  <2>1. i \notin maps /\ i \notin Criteria
    BY DEF UpdaterTypes
  <2> QED
    BY <2>1, TodoIsFresh DEF DestroyInstance
<1>2. /\ todo' \in [Threads -> SUBSET Instances]
      /\ \A v \in Threads : todo'[v] \subseteq todo[v] \ {i}
  <2>1. todo \in [Threads -> SUBSET Instances]
    BY DEF UpdaterTypes
  <2> QED
    BY <1>1, <2>1 DEF DestroyInstance
<1>3. Threads' = Threads /\ live' \subseteq live /\ live \ {i} \subseteq live'
  BY DEF DestroyInstance, Threads
<1>4. UpdaterTypes'
  BY <1>2, <1>3 DEF DestroyInstance, UpdaterTypes
<1>5. WorkerInv'
  BY <1>2, <1>3 DEF DestroyInstance, WorkerInv
<1>6. PlaceInv'
  BY <1>1, <1>3 DEF DestroyInstance, PlaceInv, InQueue, Held
<1>7. TickInv'
  BY <1>3 DEF DestroyInstance, TickInv, InQueue, HeldBeforeCall
<1>8. PhaseInv'
  BY <1>3 DEF DestroyInstance, PhaseInv
<1>9. PendingExact'
  BY <1>3 DEF DestroyInstance, PendingExact, Busy
<1> QED
  BY <1>4, <1>5, <1>6, <1>7, <1>8, <1>9

LEMMA UpdateFinishedStep ==
  ASSUME IInv, NEW w \in Threads, UpdateFinished(w)
  PROVE  IInv'
<1> USE DEF IInv, queueVars
<1>t. /\ wpc \in [Threads -> WorkerPcs] /\ request \in [Threads -> Requests \cup {Null}]
      /\ wpc' = [wpc EXCEPT ![w] = "pop"] /\ request' = [request EXCEPT ![w] = Null]
      /\ wpc[w] = "finish" /\ pending_requests' = pending_requests - 1
      /\ UNCHANGED <<queueVars, token, todo, unscheduled, afterWait, maps, live,
                     updates, due>>
  BY DEF UpdaterTypes, UpdateFinished
<1>1. request[w] # Null /\ todo[w] = {}
  BY <1>t DEF WorkerInv
<1>2. Threads' = Threads
  BY <1>t DEF Threads
<1>3. \A v \in Threads :
        /\ v # w => wpc'[v] = wpc[v] /\ request'[v] = request[v]
        /\ v = w => wpc'[v] = "pop" /\ request'[v] = Null
  BY <1>t
<1>4. UpdaterTypes'
  <2>1. mpc' \in WorldPcs
    BY DEF UpdateFinished, UpdaterTypes, WorldPcs
  <2>2. wpc' \in [Threads -> WorkerPcs] /\ request' \in [Threads -> Requests \cup {Null}]
    BY <1>t DEF WorkerPcs
  <2> QED
    BY <1>2, <1>t, <2>1, <2>2 DEF UpdaterTypes
<1>5. WorkerInv'
  BY <1>1, <1>2, <1>3, <1>t DEF WorkerInv
<1>6. \A r \in Requests : /\ HeldBeforeCall(r)' <=> HeldBeforeCall(r)
                          /\ Held(r)' => Held(r)
                          /\ InQueue(r)' <=> InQueue(r)
  <2>1. \A r \in Requests : r # Null
    BY DEF Requests
  <2> QED
    BY <1>2, <1>3, <1>t, <2>1 DEF HeldBeforeCall, Held, InQueue
<1>7. PlaceInv'
  <2>1. \A n \in 1..Len(queue) : queue[n] \in Requests
    BY DEF UpdaterTypes
  <2>2. \A n \in 1..Len(queue) : ~Held(queue[n])'
    <3>1. \A n \in 1..Len(queue) : \A v \in Threads : request'[v] # queue[n]
      BY <1>3, <2>1 DEF PlaceInv, Held, Requests
    <3> QED
      BY <1>2, <1>t, <3>1 DEF Held
  <2> QED
    BY <1>2, <1>3, <1>t, <2>2 DEF PlaceInv
<1>8. TickInv'
  BY <1>6, <1>t DEF TickInv
<1>9. PhaseInv'
  <2>1. mpc' = mpc \/ (mpc = "sleep" /\ mpc' = "wait")
    BY DEF UpdateFinished
  <2>2. ~token /\ Threads # {}
    BY <1>1 DEF PhaseInv
  <2> QED
    BY <1>2, <1>3, <1>t, <2>1, <2>2 DEF PhaseInv
<1>10. PendingExact'
  <2>1. Busy' = Busy \ {w} /\ w \in Busy
    BY <1>1, <1>2, <1>3 DEF Busy
  <2>2. Cardinality(Busy') = Cardinality(Busy) - 1
    BY <2>1, BusyFinite, FS_RemoveElement
  <2>3. Len(queue) \in Nat /\ queue' = queue
    BY <1>t DEF UpdaterTypes
  <2> QED
    BY <1>t, <2>2, <2>3, BusyFinite DEF PendingExact
<1> QED
  BY <1>4, <1>5, <1>7, <1>8, <1>9, <1>10

-----------------------------------------------------------------------------
(* The world thread.                                                       *)

\* When wait() has returned, and until the next tick, the workers have nothing.
LEMMA QuietFacts ==
  ASSUME IInv, mpc \in {"idle", "delayed", "cancel", "join", "done"} \/ token
  PROVE  /\ queue = <<>> /\ \A r : ~InQueue(r)
         /\ \A w \in Threads : request[w] = Null /\ todo[w] = {}
         /\ \A r \in Requests : ~Held(r) /\ ~HeldBeforeCall(r)
<1>1. queue = <<>> /\ \A w \in Threads : request[w] = Null
  BY DEF IInv, PhaseInv
<1>2. \A w \in Threads : todo[w] = {}
  BY <1>1 DEF IInv, WorkerInv
<1>3. \A r : ~InQueue(r)
  BY <1>1 DEF InQueue
<1> QED
  BY <1>1, <1>2, <1>3 DEF Held, HeldBeforeCall, Requests

\* Steps in which only the world thread goes on.
LEMMA WorldMoveStep ==
  ASSUME IInv, mpc' \in WorldPcs, afterWait' \in {"delayed", "cancel"}, PhaseInv',
         UNCHANGED <<queueVars, token, pending_requests, workerVars, unscheduled,
                     maps, live, updates, due>>
  PROVE  IInv'
<1> USE DEF IInv, queueVars, workerVars
<1>0. Threads' = Threads
  BY DEF Threads
<1>1. UpdaterTypes'
  BY <1>0 DEF UpdaterTypes
<1>2. WorkerInv'
  BY <1>0 DEF WorkerInv
<1>3. PlaceInv'
  BY <1>0 DEF PlaceInv, Held
<1>4. TickInv'
  BY <1>0 DEF TickInv, InQueue, HeldBeforeCall
<1>5. PendingExact'
  BY <1>0 DEF PendingExact, Busy
<1> QED
  BY <1>1, <1>2, <1>3, <1>4, <1>5

LEMMA AllScheduledStep ==
  ASSUME IInv, AllScheduled
  PROVE  IInv'
<1>1. ~token
  BY DEF IInv, PhaseInv, AllScheduled
<1>2. PhaseInv'
  <2>1. Threads' = Threads
    BY DEF AllScheduled, workerVars, Threads
  <2> QED
    BY <1>1, <2>1 DEF IInv, PhaseInv, AllScheduled, Activated, queueVars, workerVars
<1> QED
  BY <1>2, WorldMoveStep DEF AllScheduled, WorldPcs

LEMMA WaitStep ==
  ASSUME IInv, Wait
  PROVE  IInv'
<1>0. Threads' = Threads /\ queue' = queue /\ request' = request
  BY DEF Wait, queueVars, workerVars, Threads
<1>1. CASE pending_requests > 0
  <2>1. PhaseInv'
    BY <1>0, <1>1 DEF IInv, PhaseInv, Wait, queueVars
  <2> QED
    BY <1>1, <2>1, WorldMoveStep DEF Wait, WorldPcs, IInv, UpdaterTypes
<1>2. CASE ~(pending_requests > 0)
  <2>1. queue = <<>> /\ \A w \in Threads : request[w] = Null
    BY <1>2, ZeroIsQuiet DEF IInv
  <2>2. mpc' = afterWait /\ afterWait \in {"delayed", "cancel"} /\ mpc = "wait"
    BY <1>2 DEF Wait, IInv, UpdaterTypes
  <2>3. PhaseInv'
    BY <1>0, <2>1, <2>2 DEF IInv, PhaseInv, Wait, queueVars
  <2> QED
    BY <2>2, <2>3, WorldMoveStep DEF Wait, WorldPcs
<1> QED
  BY <1>1, <1>2

LEMMA DelayedUpdateStep ==
  ASSUME IInv, DelayedUpdate
  PROVE  IInv'
<1>0. Threads' = Threads
  BY DEF DelayedUpdate, workerVars, Threads
<1>1. PhaseInv'
  BY <1>0 DEF IInv, PhaseInv, DelayedUpdate, queueVars, workerVars
<1> QED
  BY <1>1, WorldMoveStep DEF DelayedUpdate, WorldPcs, IInv, UpdaterTypes

LEMMA JoinStep ==
  ASSUME IInv, Join
  PROVE  IInv'
<1>0. Threads' = Threads
  BY DEF Join, workerVars, Threads
<1>1. PhaseInv'
  BY <1>0 DEF IInv, PhaseInv, Join, queueVars, workerVars
<1> QED
  BY <1>1, WorldMoveStep DEF Join, WorldPcs, IInv, UpdaterTypes

LEMMA CreateInstanceStep ==
  ASSUME IInv, NEW i \in Instances, CreateInstance(i)
  PROVE  IInv'
<1> USE DEF IInv, queueVars, workerVars, worldVars
<1>0. Threads' = Threads /\ live' = live \cup {i}
  BY DEF CreateInstance, Threads
<1>1. UpdaterTypes'
  BY <1>0 DEF CreateInstance, UpdaterTypes
<1>2. WorkerInv'
  BY <1>0 DEF CreateInstance, WorkerInv
<1>3. PlaceInv'
  BY <1>0 DEF CreateInstance, PlaceInv, Held
<1>4. TickInv'
  BY <1>0 DEF CreateInstance, TickInv, InQueue, HeldBeforeCall
<1>5. PhaseInv'
  BY <1>0 DEF CreateInstance, PhaseInv
<1>6. PendingExact'
  BY <1>0 DEF CreateInstance, PendingExact, Busy
<1> QED
  BY <1>1, <1>2, <1>3, <1>4, <1>5, <1>6

LEMMA StartUpdateStep ==
  ASSUME IInv, StartUpdate
  PROVE  IInv'
<1> USE DEF IInv, queueVars, workerVars
<1>0. /\ Threads' = Threads /\ mpc = "idle" /\ mpc' = "schedule"
      /\ due' = unscheduled' /\ unscheduled' \subseteq Criteria \cup maps
      /\ UNCHANGED <<queueVars, token, pending_requests, workerVars, afterWait, maps, live>>
  BY DEF StartUpdate, Threads
<1>1. /\ queue = <<>> /\ \A r : ~InQueue(r)
      /\ \A w \in Threads : request[w] = Null /\ todo[w] = {}
  BY <1>0, QuietFacts
<1>2. UpdaterTypes'
  <2>1. updates' \in [Requests -> Nat]
    BY DEF StartUpdate
  <2>2. due' \subseteq Requests /\ unscheduled' \subseteq Criteria \cup maps'
    BY <1>0 DEF UpdaterTypes, Requests
  <2> QED
    BY <1>0, <2>1, <2>2 DEF UpdaterTypes, WorldPcs
<1>3. WorkerInv'
  BY <1>0, <1>1 DEF WorkerInv
<1>4. PlaceInv'
  BY <1>0, <1>1 DEF PlaceInv
<1>5. TickInv'
  <2>1. \A r \in Requests : updates'[r] = 0
    BY DEF StartUpdate
  <2>2. Instances \cap due' = {}
    BY <1>0 DEF UpdaterTypes
  <2> QED
    BY <1>0, <2>1, <2>2 DEF TickInv
<1>6. PhaseInv'
  BY <1>0, <1>1 DEF PhaseInv
<1>7. PendingExact'
  BY <1>0 DEF PendingExact, Busy
<1> QED
  BY <1>2, <1>3, <1>4, <1>5, <1>6, <1>7

LEMMA UpdateInPlaceStep ==
  ASSUME IInv, NEW r \in Requests, UpdateInPlace(r)
  PROVE  IInv'
<1> USE DEF IInv, queueVars, workerVars
<1>0. /\ Threads = {} /\ Threads' = {} /\ r \in unscheduled /\ mpc = "schedule"
      /\ unscheduled' = unscheduled \ {r}
      /\ UNCHANGED <<queueVars, token, pending_requests, workerVars, mpc, afterWait, maps>>
  BY DEF UpdateInPlace, Threads, Activated, NextToSchedule
<1>1. PICK kept \in SUBSET {i \in live : r \in Instanced /\ InstanceOf[i] = r} :
        \E gone \in SUBSET ({i \in live : r \in Instanced /\ InstanceOf[i] = r} \ kept) :
          /\ live' = live \ gone
          /\ due' = due \cup kept
          /\ updates' = [q \in Requests |->
               IF q \in kept \cup {r} THEN updates[q] + 1 ELSE updates[q]]
  BY DEF UpdateInPlace
<1>2. /\ queue = <<>> /\ \A q : ~InQueue(q) /\ ~InQueue(q)'
      /\ \A q : ~HeldBeforeCall(q) /\ ~HeldBeforeCall(q)'
  <2>1. queue = <<>>
    BY <1>0 DEF PhaseInv
  <2> QED
    BY <1>0, <2>1 DEF InQueue, HeldBeforeCall
<1>3. /\ updates[r] = 0 /\ r \in due /\ r \notin Instances
      /\ kept \subseteq Instances /\ \A i \in kept : InstanceOf[i] = r
  BY <1>0, <1>1 DEF TickInv, UpdaterTypes
<1>4. \A i \in Instances : InstanceOf[i] = r => i \notin due
  BY <1>3 DEF TickInv
<1>5. \A i \in kept : updates[i] = 0 /\ i \notin unscheduled /\ i \notin due /\ i \in Requests
  BY <1>3, <1>4 DEF TickInv, Requests
<1>6. \A q \in Requests : updates'[q] = IF q \in kept \cup {r} THEN 1 ELSE updates[q]
  BY <1>1, <1>3, <1>5 DEF UpdaterTypes
<1>7. UpdaterTypes'
  <2>1. updates' \in [Requests -> Nat]
    BY <1>1 DEF UpdaterTypes
  <2>2. due' \subseteq Requests /\ live' \subseteq Instances
    BY <1>1, <1>5 DEF UpdaterTypes
  <2> QED
    BY <1>0, <2>1, <2>2 DEF UpdaterTypes
<1>8. WorkerInv' /\ PlaceInv'
  BY <1>0, <1>2 DEF WorkerInv, PlaceInv
<1>9. TickInv'
  <2>1. unscheduled' \subseteq due'
    BY <1>0, <1>1 DEF TickInv
  <2>2. ASSUME NEW q \in Requests
        PROVE  updates'[q] = IF q \in due' \ unscheduled' THEN 1 ELSE 0
    BY <1>0, <1>1, <1>2, <1>3, <1>5, <1>6 DEF TickInv
  <2>3. ASSUME NEW i \in Instances \cap due'
        PROVE  updates'[InstanceOf[i]] = 1
    <3>1. InstanceOf[i] \in Requests /\ InstanceOf[i] \notin kept
      BY <1>3 DEF Requests
    <3> QED
      BY <1>1, <1>3, <1>6, <3>1 DEF TickInv
  <2> QED
    BY <1>2, <2>1, <2>2, <2>3 DEF TickInv
<1>10. PhaseInv'
  BY <1>0 DEF PhaseInv
<1>11. PendingExact'
  BY <1>0 DEF PendingExact, Busy
<1> QED
  BY <1>7, <1>8, <1>9, <1>10, <1>11

LEMMA UnloadAllStep ==
  ASSUME IInv, UnloadAll
  PROVE  IInv'
<1> USE DEF IInv, queueVars, workerVars
<1>0. /\ Threads' = Threads /\ mpc = "idle" /\ maps' = {} /\ live' = {}
      /\ mpc' = (IF Threads # {} THEN "wait" ELSE "done") /\ afterWait' = "cancel"
      /\ UNCHANGED <<queueVars, pending_requests, workerVars, unscheduled, updates, due>>
  BY DEF UnloadAll, Threads, Activated
<1>1. /\ queue = <<>> /\ \A r : ~InQueue(r)
      /\ \A w \in Threads : request[w] = Null /\ todo[w] = {}
  BY <1>0, QuietFacts
<1>2. unscheduled = {} /\ ~token /\ ~shutdown
  BY <1>0 DEF PhaseInv
<1>3. token' <=> Threads # {}
  BY DEF UnloadAll, Activated
<1>4. UpdaterTypes'
  <2>1. token' \in BOOLEAN
    BY Zenon DEF UnloadAll, Activated
  <2>2. mpc' \in WorldPcs
    BY <1>0 DEF WorldPcs
  <2> QED
    BY <1>0, <1>2, <2>1, <2>2 DEF UpdaterTypes
<1>5. WorkerInv'
  BY <1>0, <1>1, <1>2 DEF WorkerInv
<1>6. PlaceInv'
  BY <1>0, <1>1 DEF PlaceInv
<1>7. TickInv'
  BY <1>0 DEF TickInv, InQueue, HeldBeforeCall
<1>8. PhaseInv'
  BY <1>0, <1>1, <1>2, <1>3 DEF PhaseInv
<1>9. PendingExact'
  BY <1>0 DEF PendingExact, Busy
<1> QED
  BY <1>4, <1>5, <1>6, <1>7, <1>8, <1>9

LEMMA CancelStep ==
  ASSUME IInv, Cancel
  PROVE  IInv'
<1> USE DEF IInv
<1>0. /\ mpc = "cancel" /\ mpc' = "join" /\ queue' = <<>> /\ shutdown' = TRUE
      /\ wpc' = [w \in Threads |-> IF wpc[w] = "waiting" THEN "pop" ELSE wpc[w]]
      /\ UNCHANGED <<token, pending_requests, request, todo, unscheduled, afterWait,
                     maps, live, updates, due>>
  BY DEF Cancel, NotifyAll
<1>1. /\ queue' = queue /\ token
      /\ \A w \in Threads : request[w] = Null /\ todo[w] = {}
  BY <1>0, QuietFacts DEF PhaseInv
<1>2. Threads' = Threads /\ wpc' \in [Threads -> WorkerPcs]
  BY <1>0 DEF Threads, UpdaterTypes, WorkerPcs
<1>3. UpdaterTypes'
  <2>1. shutdown' \in BOOLEAN
    BY <1>0, Zenon
  <2> QED
    BY <1>0, <1>1, <1>2, <2>1 DEF UpdaterTypes, WorldPcs
<1>4. WorkerInv'
  BY <1>0, <1>1, <1>2 DEF WorkerInv
<1>5. PlaceInv'
  BY <1>0, <1>1, <1>2 DEF PlaceInv, Held
<1>6. TickInv'
  <2>1. \A r \in Requests : ~HeldBeforeCall(r) /\ ~HeldBeforeCall(r)'
    BY <1>0, <1>1, <1>2 DEF HeldBeforeCall, Requests
  <2>2. \A r \in Requests : InQueue(r)' <=> InQueue(r)
    BY <1>1 DEF InQueue
  <2> QED
    BY <1>0, <2>1, <2>2 DEF TickInv
<1>7. PhaseInv'
  BY <1>0, <1>1, <1>2 DEF PhaseInv
<1>8. PendingExact'
  BY <1>0, <1>1, <1>2 DEF PendingExact, Busy
<1> QED
  BY <1>3, <1>4, <1>5, <1>6, <1>7, <1>8

-----------------------------------------------------------------------------
(* The properties.                                                         *)

LEMMA NextStep == IInv /\ [Next]_vars => IInv'
<1> SUFFICES ASSUME IInv, [Next]_vars PROVE IInv'
  OBVIOUS
<1>1. ASSUME NEW w \in Workers, WorkerStep(w) PROVE IInv'
  BY <1>1, WaitAndPopStep, CheckTokenStep, CallStep, UpdateInstanceStep,
     DestroyInstanceStep, InstancesDoneStep, UpdateFinishedStep DEF WorkerStep
<1>2. CASE WorldStep
  BY <1>2, ScheduleRequestStep, UpdateInPlaceStep, AllScheduledStep, WaitStep,
     DelayedUpdateStep, CancelStep, JoinStep DEF WorldStep
<1>3. CASE UNCHANGED vars
  <2>1. PhaseInv'
    BY <1>3 DEF vars, IInv, PhaseInv, Threads
  <2> QED
    BY <1>3, <2>1, WorldMoveStep DEF vars, queueVars, workerVars, IInv, UpdaterTypes
<1> QED
  BY <1>1, <1>2, <1>3, CreateInstanceStep, StartUpdateStep, UnloadAllStep DEF Next

LEMMA SpecIInv == Spec => []IInv
  BY InitIInv, NextStep, PTL DEF Spec

\* pending_requests is exact in every reachable state of MapUpdater, whatever
\* the number of threads: schedule_update counts before update_finished of
\* the request that scheduled it.
THEOREM SpecPendingExact == Spec => []PendingExact
<1>1. IInv => PendingExact
  BY DEF IInv
<1> QED
  BY <1>1, SpecIInv, PTL

\* wait() is a barrier: MapManager::Update goes on to DelayedUpdate only when
\* every request of the tick, those that MapInstanced::Update added included,
\* has been carried out exactly once and nothing else has.
THEOREM SpecBarrier == Spec => []Barrier
<1>1. IInv => Barrier
  <2> SUFFICES ASSUME IInv, mpc = "delayed"
               PROVE  /\ queue = <<>> /\ Busy = {}
                      /\ \A r \in Requests : updates[r] = IF r \in due THEN 1 ELSE 0
    BY DEF Barrier
  <2>1. /\ queue = <<>> /\ \A r : ~InQueue(r) /\ \A w \in Threads : request[w] = Null
        /\ \A r \in Requests : ~HeldBeforeCall(r)
    BY QuietFacts
  <2>2. unscheduled = {}
    BY DEF IInv, PhaseInv
  <2> QED
    BY <2>1, <2>2 DEF Busy, IInv, TickInv
<1> QED
  BY <1>1, SpecIInv, PTL

\* No map is updated by two threads of the pool at once, and none while the
\* world thread creates, delays or deletes maps.
THEOREM SpecExclusive == Spec => []Exclusive
<1>1. IInv => Exclusive
  <2> SUFFICES ASSUME IInv PROVE Exclusive
    OBVIOUS
  <2>1. \A v, w \in Threads : request[v] = request[w] /\ request[v] # Null => v = w
    BY DEF IInv, PlaceInv
  <2>2. mpc \in {"idle", "delayed", "cancel", "join", "done"} => Busy = {}
    BY DEF IInv, PhaseInv, Busy
  <2> QED
    BY <2>1, <2>2 DEF Exclusive
<1> QED
  BY <1>1, SpecIInv, PTL

\* Neither DestroyInstance nor UnloadAll deletes a map that a request, queued
\* or held, names, and WorkerThread never calls a request it did not get.
THEOREM SpecNoDeletedMap == Spec => []NoDeletedMap
<1>1. IInv => NoDeletedMap
  <2> SUFFICES ASSUME IInv PROVE NoDeletedMap
    OBVIOUS
  <2>1. \A n \in 1..Len(queue) : queue[n] \in Criteria \cup maps \cup live
    BY DEF IInv, PlaceInv
  <2>2. \A w \in Busy : request[w] \in Criteria \cup maps \cup live
    BY DEF IInv, PlaceInv, Busy
  <2>3. \A w \in Threads : wpc[w] # "null_call"
    BY DEF IInv, UpdaterTypes, WorkerPcs
  <2> QED
    BY <2>1, <2>2, <2>3 DEF NoDeletedMap
<1> QED
  BY <1>1, SpecIInv, PTL
=============================================================================
