----------------------------- MODULE MapUpdater -----------------------------
(***************************************************************************)
(* One tick of all maps on a pool of threads: MapUpdater with its          *)
(* ProducerConsumerQueue, MapManager::Update and UnloadAll on the world    *)
(* thread, MapInstanced::Update, which schedules or destroys instances     *)
(* from a worker, and the criteria tasks of the achievement manager.       *)
(*                                                                         *)
(* A step is what happens under one lock, or a map update.  A thread that  *)
(* waits on a condition variable runs again only when it is notified.      *)
(* What an update does to its map is left out; which of two fates the      *)
(* unload timer and the players of an instance choose is nondeterministic. *)
(***************************************************************************)
EXTENDS Integers, Sequences, FiniteSets

CONSTANTS
  Workers,     \* the map update threads, if MapUpdate.Threads is not 0
  BaseMaps,    \* i_maps
  Instanced,   \* those of them that are a MapInstanced
  Instances,   \* the possible instances
  InstanceOf,  \* InstanceOf[i]: the MapInstanced that owns i
  Criteria,    \* the possible players with achievement criteria to update
  Null,        \* no request
  MaxTicks     \* bound on the number of ticks

ASSUME MapsAssumption ==
  /\ IsFiniteSet(Workers)
  /\ Instanced \subseteq BaseMaps
  /\ InstanceOf \in [Instances -> Instanced]
  /\ BaseMaps \cap Instances = {}
  /\ Criteria \cap (BaseMaps \cup Instances) = {}
  /\ Null \notin BaseMaps \cup Instances \cup Criteria
  /\ MaxTicks \in Nat

Requests == BaseMaps \cup Instances \cup Criteria

VARIABLES
  queue,             \* _queue: requests not taken yet
  shutdown,          \* _queue._shutdown
  token,             \* _cancelationToken
  pending_requests,
  wpc,               \* per worker: where it is in WorkerThread
  request,           \* per worker: the request it holds, or Null
  todo,              \* per worker: instances MapInstanced::Update has still to visit
  mpc,               \* where the world thread is
  unscheduled,       \* requests the world thread has still to schedule in this tick
  afterWait,         \* where the world thread goes after wait()
  maps,              \* i_maps, empty after UnloadAll
  live,              \* the instances that exist (m_InstancedMaps of all maps)
  updates,           \* how often each request was carried out in this tick
  due,               \* what this tick has to carry out
  ticks

queueVars == <<queue, shutdown>>
workerVars == <<wpc, request, todo>>
worldVars == <<mpc, unscheduled, afterWait, ticks>>
vars == <<queue, shutdown, token, pending_requests, wpc, request, todo, mpc,
          unscheduled, afterWait, maps, live, updates, due, ticks>>

\* The threads of _workerThreads, none if MapUpdate.Threads is 0.
Threads == DOMAIN wpc

\* MapUpdater::activated.
Activated == Threads # {}

Init ==
  /\ queue = <<>>
  /\ shutdown = FALSE
  /\ token = FALSE
  /\ pending_requests = 0
  /\ \E started \in {{}, Workers} : wpc = [w \in started |-> "pop"]
  /\ request = [w \in Threads |-> Null]
  /\ todo = [w \in Threads |-> {}]
  /\ mpc = "idle"
  /\ unscheduled = {}
  /\ afterWait = "delayed"
  /\ maps = BaseMaps
  /\ live = {}
  /\ updates = [r \in Requests |-> 0]
  /\ due = {}
  /\ ticks = 0

-----------------------------------------------------------------------------
(* MapUpdater and its queue.                                               *)

\* notify_one: one of the threads waiting for a request may go on.
NotifyOne(pcs) ==
  LET waiting == {w \in Threads : pcs[w] = "waiting"}
  IN  IF waiting = {} THEN {pcs} ELSE {[pcs EXCEPT ![w] = "pop"] : w \in waiting}

\* notify_all.
NotifyAll(pcs) == [w \in Threads |-> IF pcs[w] = "waiting" THEN "pop" ELSE pcs[w]]

\* Seeded fault: the request is pushed and not counted.
ScheduleUncounted(r, pcs) ==
  /\ queue' = Append(queue, r)
  /\ wpc' \in NotifyOne(pcs)
  /\ UNCHANGED <<pending_requests, shutdown, token>>

\* schedule_update and schedule_specific, called by a thread that leaves the
\* workers at pcs: count the request and Push it, under _lock.
Schedule(r, pcs) ==
  /\ pending_requests' = pending_requests + 1
  /\ queue' = Append(queue, r)
  /\ wpc' \in NotifyOne(pcs)
  /\ UNCHANGED <<shutdown, token>>

\* WaitAndPop: take a request, or nothing after Cancel, or go to sleep.
WaitAndPop(w) ==
  /\ wpc[w] = "pop"
  /\ \/ /\ queue = <<>> /\ ~shutdown
        /\ wpc' = [wpc EXCEPT ![w] = "waiting"]
        /\ UNCHANGED <<queue, request>>
     \/ /\ shutdown
        /\ wpc' = [wpc EXCEPT ![w] = "check"]
        /\ UNCHANGED <<queue, request>>
     \/ /\ queue # <<>> /\ ~shutdown
        /\ queue' = Tail(queue)
        /\ request' = [request EXCEPT ![w] = Head(queue)]
        /\ wpc' = [wpc EXCEPT ![w] = "check"]
  /\ UNCHANGED <<shutdown, token, pending_requests, todo, worldVars, maps, live,
                 updates, due>>

\* WorkerThread: leave if the token is set, whatever has been popped; else
\* call the request.
CheckToken(w) ==
  /\ wpc[w] = "check"
  /\ wpc' = [wpc EXCEPT ![w] =
               IF token THEN "exited"
               ELSE IF request[w] = Null THEN "null_call" ELSE "call"]
  /\ UNCHANGED <<queueVars, token, pending_requests, request, todo, worldVars,
                 maps, live, updates, due>>

\* MapUpdateRequest::call and AchievementCriteriaUpdateRequest::call: the
\* update itself.  A MapInstanced then goes through its instances.
Call(w) ==
  /\ wpc[w] = "call"
  /\ updates' = [updates EXCEPT ![request[w]] = @ + 1]
  /\ IF request[w] \in Instanced
     THEN /\ wpc' = [wpc EXCEPT ![w] = "instances"]
          /\ todo' = [todo EXCEPT ![w] = {i \in live : InstanceOf[i] = request[w]}]
     ELSE /\ wpc' = [wpc EXCEPT ![w] = "finish"]
          /\ UNCHANGED todo
  /\ UNCHANGED <<queueVars, token, pending_requests, request, worldVars, maps,
                 live, due>>

\* MapInstanced::Update: instance i is kept, and its update scheduled.
UpdateInstance(w, i) ==
  /\ wpc[w] = "instances" /\ i \in todo[w]
  /\ todo' = [todo EXCEPT ![w] = @ \ {i}]
  /\ Schedule(i, wpc)
  /\ due' = due \cup {i}
  /\ UNCHANGED <<request, worldVars, maps, live, updates>>

\* Seeded fault: the update is scheduled before the instance is destroyed.
DestroyScheduledInstance(w, i) ==
  /\ wpc[w] = "instances" /\ i \in todo[w]
  /\ todo' = [todo EXCEPT ![w] = @ \ {i}]
  /\ Schedule(i, wpc)
  /\ live' = live \ {i}
  /\ UNCHANGED <<request, worldVars, maps, updates, due>>

\* MapInstanced::Update: the unload timer of instance i is over.  It is
\* destroyed, or kept for its players and not updated.
DestroyInstance(w, i) ==
  /\ wpc[w] = "instances" /\ i \in todo[w]
  /\ todo' = [todo EXCEPT ![w] = @ \ {i}]
  /\ live' \in {live, live \ {i}}
  /\ UNCHANGED <<queueVars, token, pending_requests, wpc, request, worldVars,
                 maps, updates, due>>

InstancesDone(w) ==
  /\ wpc[w] = "instances" /\ todo[w] = {}
  /\ wpc' = [wpc EXCEPT ![w] = "finish"]
  /\ UNCHANGED <<queueVars, token, pending_requests, request, todo, worldVars,
                 maps, live, updates, due>>

\* Seeded fault: the world thread is not notified.
UpdateFinishedSilently(w) ==
  /\ wpc[w] = "finish"
  /\ pending_requests' = pending_requests - 1
  /\ wpc' = [wpc EXCEPT ![w] = "pop"]
  /\ request' = [request EXCEPT ![w] = Null]
  /\ UNCHANGED <<queueVars, token, todo, worldVars, maps, live, updates, due>>

\* update_finished: count the request as done and wake the world thread up.
UpdateFinished(w) ==
  /\ wpc[w] = "finish"
  /\ pending_requests' = pending_requests - 1
  /\ mpc' = IF mpc = "sleep" THEN "wait" ELSE mpc
  /\ wpc' = [wpc EXCEPT ![w] = "pop"]
  /\ request' = [request EXCEPT ![w] = Null]
  /\ UNCHANGED <<queueVars, token, todo, unscheduled, afterWait, ticks, maps,
                 live, updates, due>>

-----------------------------------------------------------------------------
(* The world thread.                                                       *)

\* CreateInstanceForPlayer, from the session handlers between two ticks.
CreateInstance(i) ==
  /\ mpc = "idle"
  /\ i \notin live /\ InstanceOf[i] \in maps
  /\ live' = live \cup {i}
  /\ UNCHANGED <<queueVars, token, pending_requests, workerVars, worldVars, maps,
                 updates, due>>

\* MapManager::Update: the tick is due.
StartUpdate ==
  /\ mpc = "idle" /\ ticks < MaxTicks
  /\ \E c \in SUBSET Criteria : unscheduled' = c \cup maps
  /\ due' = unscheduled'
  /\ updates' = [r \in Requests |-> 0]
  /\ mpc' = "schedule"
  /\ ticks' = ticks + 1
  /\ UNCHANGED <<queueVars, token, pending_requests, workerVars, afterWait, maps,
                 live>>

\* The criteria tasks are scheduled first, then the maps.
NextToSchedule ==
  IF unscheduled \cap Criteria # {} THEN unscheduled \cap Criteria ELSE unscheduled

ScheduleRequest(r) ==
  /\ mpc = "schedule" /\ Activated
  /\ r \in NextToSchedule
  /\ unscheduled' = unscheduled \ {r}
  /\ Schedule(r, wpc)
  /\ UNCHANGED <<request, todo, mpc, afterWait, ticks, maps, live, updates, due>>

\* Without threads the request is carried out in place, and a MapInstanced
\* updates or destroys its instances in place.
UpdateInPlace(r) ==
  /\ mpc = "schedule" /\ ~Activated
  /\ r \in NextToSchedule
  /\ unscheduled' = unscheduled \ {r}
  /\ LET own == {i \in live : r \in Instanced /\ InstanceOf[i] = r}
     IN  \E kept \in SUBSET own : \E gone \in SUBSET (own \ kept) :
           /\ live' = live \ gone
           /\ due' = due \cup kept
           /\ updates' = [q \in Requests |->
                IF q \in kept \cup {r} THEN updates[q] + 1 ELSE updates[q]]
  /\ UNCHANGED <<queueVars, token, pending_requests, workerVars, mpc, afterWait,
                 ticks, maps>>

\* Seeded fault: MapManager::Update does not wait for the workers.
AllScheduledNoWait ==
  /\ mpc = "schedule" /\ unscheduled = {}
  /\ mpc' = "delayed"
  /\ UNCHANGED <<queueVars, token, pending_requests, workerVars, unscheduled,
                 afterWait, ticks, maps, live, updates, due>>

AllScheduled ==
  /\ mpc = "schedule" /\ unscheduled = {}
  /\ mpc' = IF Activated THEN "wait" ELSE "delayed"
  /\ afterWait' = "delayed"
  /\ UNCHANGED <<queueVars, token, pending_requests, workerVars, unscheduled,
                 ticks, maps, live, updates, due>>

\* Seeded fault: the last request is not waited for.
WaitForAllButOne ==
  /\ mpc = "wait"
  /\ mpc' = IF pending_requests > 1 THEN "sleep" ELSE afterWait
  /\ UNCHANGED <<queueVars, token, pending_requests, workerVars, unscheduled,
                 afterWait, ticks, maps, live, updates, due>>

\* MapUpdater::wait.
Wait ==
  /\ mpc = "wait"
  /\ mpc' = IF pending_requests > 0 THEN "sleep" ELSE afterWait
  /\ UNCHANGED <<queueVars, token, pending_requests, workerVars, unscheduled,
                 afterWait, ticks, maps, live, updates, due>>

\* ClearPlayersCriteriaTask and DelayedUpdate of every map and instance.
DelayedUpdate ==
  /\ mpc = "delayed"
  /\ mpc' = "idle"
  /\ UNCHANGED <<queueVars, token, pending_requests, workerVars, unscheduled,
                 afterWait, ticks, maps, live, updates, due>>

\* MapManager::UnloadAll deletes every map with its instances; deactivate
\* then sets the token and waits.
UnloadAll ==
  /\ mpc = "idle"
  /\ maps' = {}
  /\ live' = {}
  /\ token' = Activated
  /\ mpc' = IF Activated THEN "wait" ELSE "done"
  /\ afterWait' = "cancel"
  /\ UNCHANGED <<queueVars, pending_requests, workerVars, unscheduled, ticks,
                 updates, due>>

\* ProducerConsumerQueue::Cancel.
Cancel ==
  /\ mpc = "cancel"
  /\ queue' = <<>>
  /\ shutdown' = TRUE
  /\ wpc' = NotifyAll(wpc)
  /\ mpc' = "join"
  /\ UNCHANGED <<token, pending_requests, request, todo, unscheduled, afterWait,
                 ticks, maps, live, updates, due>>

Join ==
  /\ mpc = "join"
  /\ \A w \in Threads : wpc[w] = "exited"
  /\ mpc' = "done"
  /\ UNCHANGED <<queueVars, token, pending_requests, workerVars, unscheduled,
                 afterWait, ticks, maps, live, updates, due>>

-----------------------------------------------------------------------------

WorkerStep(w) ==
  /\ w \in Threads
  /\ \/ WaitAndPop(w) \/ CheckToken(w) \/ Call(w)
     \/ \E i \in Instances : UpdateInstance(w, i) \/ DestroyInstance(w, i)
     \/ InstancesDone(w) \/ UpdateFinished(w)

\* What the world thread does without waiting for the clock or a player.
WorldStep ==
  \/ \E r \in Requests : ScheduleRequest(r) \/ UpdateInPlace(r)
  \/ AllScheduled \/ Wait \/ DelayedUpdate \/ Cancel \/ Join

Next ==
  \/ \E w \in Workers : WorkerStep(w)
  \/ WorldStep
  \/ \E i \in Instances : CreateInstance(i)
  \/ StartUpdate
  \/ UnloadAll

Spec == Init /\ [][Next]_vars

\* The operating system runs every thread that can run.
Fairness == WF_vars(WorldStep) /\ \A w \in Workers : WF_vars(WorkerStep(w))
FairSpec == Spec /\ Fairness

-----------------------------------------------------------------------------
(* Properties.                                                             *)

Busy == {w \in Threads : request[w] # Null}

\* pending_requests counts exactly the requests in the queue and in the
\* hands of workers: the nested schedule_update of MapInstanced::Update is
\* counted before its parent finishes, and no request is dropped uncounted.
PendingExact == pending_requests = Len(queue) + Cardinality(Busy)

\* wait() is a barrier: when it returns nothing is queued, no thread is in a
\* map, and every request of the tick has been carried out exactly once.
Barrier ==
  mpc = "delayed" =>
    /\ queue = <<>>
    /\ Busy = {}
    /\ \A r \in Requests : updates[r] = IF r \in due THEN 1 ELSE 0

\* A map is never updated by two threads, and the world thread never creates
\* or deletes maps or runs their DelayedUpdate while a worker is in a map.
Exclusive ==
  /\ \A v, w \in Threads : request[v] = request[w] /\ request[v] # Null => v = w
  /\ mpc \in {"idle", "delayed", "cancel", "join", "done"} => Busy = {}

\* No request, queued or being carried out, refers to a map that
\* DestroyInstance or UnloadAll has deleted, and a worker woken by Cancel
\* without a request leaves before it calls it.
NoDeletedMap ==
  LET named == {queue[n] : n \in 1..Len(queue)} \cup {request[w] : w \in Busy}
  IN  /\ named \subseteq Criteria \cup maps \cup live
      /\ \A w \in Threads : wpc[w] # "null_call"

\* wait() returns, at the end of a tick and in deactivate: no notification
\* is lost and the counter comes down to zero; and deactivate() ends: all
\* threads leave WorkerThread and are joined.
WaitsEnd ==
  /\ mpc \in {"schedule", "wait", "sleep"} ~> mpc \in {"delayed", "cancel"}
  /\ mpc = "cancel" ~> mpc = "done"
=============================================================================
