---------------------------- MODULE InstanceIds -----------------------------
(***************************************************************************)
(* The allocation of instance ids by MapManager: the bit vector            *)
(* _instanceIds and the hint _nextInstanceId.                              *)
(*                                                                         *)
(* Ids are loaded at startup from the table "instance", generated by the   *)
(* world thread, and freed by the world thread (_ResetInstance) or, for    *)
(* battlegrounds and arenas, by the map threads (DestroyInstance), which   *)
(* take no lock: FreeInstanceId is two reads and two writes of memory that *)
(* several of them share.  A bit of a vector<bool> is written by reading   *)
(* and writing the word it is in.                                          *)
(***************************************************************************)
EXTENDS Integers, FiniteSets, FiniteSetsExt

CONSTANTS
  Word,      \* the rounding of sizes, 32 in the code
  Unit,      \* bits of a word of std::vector<bool>'s storage
  Threads,   \* the threads the map updater may have
  MaxId,     \* bound: no larger id is generated
  MaxRow,    \* bound: largest id found in the table at startup
  NoThreadJob

ASSUME IdsAssumption ==
  /\ Word \in Nat \ {0, 1} /\ Unit \in Nat \ {0}
  /\ MaxId \in Nat /\ MaxRow \in Nat
  /\ IsFiniteSet(Threads)
  /\ NoThreadJob \notin [id : Nat, word : SUBSET Nat, pc : {"setnext", "read", "write"}]

VARIABLES
  size,             \* _instanceIds.size()
  capacity,         \* _instanceIds.capacity()
  flags,            \* the indices below size whose bit is set
  _nextInstanceId,
  rows,             \* rows of the table "instance" still to be loaded
  used,             \* the ids held by an instance, a battleground or a row
  phase,            \* "load", "world" or "maps" (the map threads run)
  job               \* per map thread: where it is in FreeInstanceId

vars == <<size, capacity, flags, _nextInstanceId, rows, used, phase, job>>

\* The threads the map updater has (MapUpdate.Threads).
MapThreads == DOMAIN job

RoundUp(n, w) == (n \div w) * w + (IF n % w > 0 THEN w ELSE 0)

\* std::vector<bool>: the capacity after resize(n), from size s, capacity c.
CapacityFor(n, s, c) ==
  IF n <= c THEN c ELSE RoundUp(Max({2 * s, n}), Unit)

\* The bit of index n of a vector of size s; a write past the end changes
\* memory that no later read of the vector sees.
Set(F, n, s) == IF n < s THEN F \cup {n} ELSE F
Clear(F, n) == F \ {n}

\* InitInstanceIds: the size for the largest id in the table (0 if none).
Init ==
  /\ rows \in SUBSET (1..MaxRow)
  /\ LET maxId == Max(rows \cup {0})
     IN  /\ size = RoundUp(maxId, Word)
         /\ capacity = CapacityFor(RoundUp(maxId, Word), 0, 0)
  /\ _nextInstanceId = 1
  /\ flags = {}
  /\ used = {}
  /\ phase = "load"
  /\ \E started \in SUBSET Threads : job = [t \in started |-> NoThreadJob]

RegisterInstanceId(instanceId) == flags' = Set(flags, instanceId, size)

\* LoadResetTimes: the next row in ascending order, with RegisterInstanceId.
LoadRow ==
  /\ phase = "load" /\ rows # {}
  /\ LET instanceId == Min(rows)
     IN  /\ _nextInstanceId' = IF _nextInstanceId = instanceId
                               THEN instanceId + 1 ELSE _nextInstanceId
         /\ RegisterInstanceId(instanceId)
         /\ used' = used \cup {instanceId}
         /\ rows' = rows \ {instanceId}
  /\ UNCHANGED <<size, capacity, phase, job>>

LoadDone ==
  /\ phase = "load" /\ rows = {}
  /\ phase' = "world"
  /\ UNCHANGED <<size, capacity, flags, _nextInstanceId, rows, used, job>>

-----------------------------------------------------------------------------
(* The world thread, between two map ticks.                                *)

\* Seeded fault: the loop ignores the bits.
LowestAvailableBlind(i) == i

\* The loop of GenerateInstanceId: the lowest id from i on without a bit.
LowestAvailable(i) == Min({k \in i..(Max({i, size}) + 1) : k \notin flags})

\* GenerateInstanceId returns _nextInstanceId.
GenerateInstanceId ==
  /\ phase = "world" /\ _nextInstanceId <= MaxId
  /\ LET newInstanceId == _nextInstanceId
         newSize == IF newInstanceId < size THEN size
                    ELSE IF size < capacity THEN capacity
                    ELSE RoundUp(newInstanceId, Word)
     IN  /\ _nextInstanceId' = LowestAvailable(newInstanceId + 1)
         /\ size' = newSize
         /\ capacity' = CapacityFor(newSize, size, capacity)
         /\ flags' = Set(flags, newInstanceId, newSize)
         /\ used' = used \cup {newInstanceId}
  /\ UNCHANGED <<rows, phase, job>>

\* Seeded fault: a freed id becomes the next one in any case.
FreeAlwaysNext(instanceId) ==
  /\ phase = "world" /\ instanceId \in used
  /\ _nextInstanceId' = instanceId
  /\ flags' = Clear(flags, instanceId)
  /\ used' = used \ {instanceId}
  /\ UNCHANGED <<size, capacity, rows, phase, job>>

\* FreeInstanceId on the world thread.
FreeInstanceId(instanceId) ==
  /\ phase = "world" /\ instanceId \in used
  /\ _nextInstanceId' = IF instanceId < _nextInstanceId
                        THEN instanceId ELSE _nextInstanceId
  /\ flags' = Clear(flags, instanceId)
  /\ used' = used \ {instanceId}
  /\ UNCHANGED <<size, capacity, rows, phase, job>>

StartTick ==
  /\ phase = "world"
  /\ phase' = "maps"
  /\ UNCHANGED <<size, capacity, flags, _nextInstanceId, rows, used, job>>

\* MapUpdater::wait: every map thread has finished.
EndTick ==
  /\ phase = "maps" /\ \A t \in MapThreads : job[t] = NoThreadJob
  /\ phase' = "world"
  /\ UNCHANGED <<size, capacity, flags, _nextInstanceId, rows, used, job>>

-----------------------------------------------------------------------------
(* FreeInstanceId on a map thread, one access to shared memory at a time.  *)

\* if (instanceId < _nextInstanceId)
FreeCompare(t, instanceId) ==
  /\ phase = "maps" /\ job[t] = NoThreadJob /\ instanceId \in used
  /\ used' = used \ {instanceId}
  /\ job' = [job EXCEPT ![t] =
       [id |-> instanceId, word |-> {},
        pc |-> IF instanceId < _nextInstanceId THEN "setnext" ELSE "read"]]
  /\ UNCHANGED <<size, capacity, flags, _nextInstanceId, rows, phase>>

\* SetNextInstanceId(instanceId)
FreeSetNext(t) ==
  /\ job[t] # NoThreadJob /\ job[t].pc = "setnext"
  /\ _nextInstanceId' = job[t].id
  /\ job' = [job EXCEPT ![t].pc = "read"]
  /\ UNCHANGED <<size, capacity, flags, rows, used, phase>>

\* The bits of the storage word of index n.
WordOf(n) == {k \in 0..(size - 1) : k \div Unit = n \div Unit}

\* _instanceIds[instanceId] = false: the word is read ...
FreeReadWord(t) ==
  /\ job[t] # NoThreadJob /\ job[t].pc = "read"
  /\ job' = [job EXCEPT ![t].pc = "write", ![t].word = flags \cap WordOf(job[t].id)]
  /\ UNCHANGED <<size, capacity, flags, _nextInstanceId, rows, used, phase>>

\* Seeded fault: the whole word is cleared.
FreeWriteZero(t) ==
  /\ job[t] # NoThreadJob /\ job[t].pc = "write"
  /\ flags' = flags \ WordOf(job[t].id)
  /\ job' = [job EXCEPT ![t] = NoThreadJob]
  /\ UNCHANGED <<size, capacity, _nextInstanceId, rows, used, phase>>

\* ... and written back without the bit.
FreeWriteWord(t) ==
  /\ job[t] # NoThreadJob /\ job[t].pc = "write"
  /\ flags' = (flags \ WordOf(job[t].id)) \cup Clear(job[t].word, job[t].id)
  /\ job' = [job EXCEPT ![t] = NoThreadJob]
  /\ UNCHANGED <<size, capacity, _nextInstanceId, rows, used, phase>>

-----------------------------------------------------------------------------
Next ==
  \/ LoadRow \/ LoadDone
  \/ GenerateInstanceId \/ \E i \in used : FreeInstanceId(i)
  \/ StartTick \/ EndTick
  \/ \E t \in MapThreads :
       \/ \E i \in used : FreeCompare(t, i)
       \/ FreeSetNext(t) \/ FreeReadWord(t) \/ FreeWriteWord(t)

Spec == Init /\ [][Next]_vars

-----------------------------------------------------------------------------
(* Properties.                                                             *)

\* GenerateInstanceId never returns an id that is in use ("Find the lowest
\* available id"), in whatever order ids were loaded, generated and freed
\* and whatever the map threads' races left in the vector.
NextIsAvailable == phase = "world" => _nextInstanceId \notin used

\* The bit of every id in use is set.  The races of FreeInstanceId can leave
\* the bit of a free id set, never clear one that another instance needs.
UsedIsMarked == phase = "world" => used \subseteq flags

OneThread == Cardinality(MapThreads) <= 1

\* "the current NextInstanceId (which should be the lowest according to the
\* logic in FreeInstanceId())": no smaller id is free, and the vector marks
\* the ids in use and no others, as long as the map updater has not two
\* threads whose calls of FreeInstanceId can race.
NextIsLowest ==
  phase = "world" /\ OneThread =>
    1..(_nextInstanceId - 1) \subseteq used /\ flags \subseteq used
=============================================================================
