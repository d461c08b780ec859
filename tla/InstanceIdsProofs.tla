------------------------- MODULE InstanceIdsProofs --------------------------
(***************************************************************************)
(* Proofs about InstanceIds for any number of rows, ids and map threads.   *)
(*                                                                         *)
(* The vector does not keep the bit of an id at or past its end (see the   *)
(* run "ids_full_word").  Room says when that cannot happen: the largest   *)
(* row is below the size chosen at startup, and the next id never is the   *)
(* capacity of a vector that is full.  It is the hypothesis of what is     *)
(* proved about the bits; NextIsLowest needs none.                         *)
(***************************************************************************)
EXTENDS InstanceIds, FiniteSetTheorems, TLAPS

InVector == \A i \in used : i < size

Jobs == [id : Nat, word : SUBSET Nat, pc : {"setnext", "read", "write"}]

Freeing(t) == job[t] # NoThreadJob

IdTypes ==
  /\ size \in Nat /\ capacity \in Nat
  /\ flags \subseteq 0..(size - 1)
  /\ _nextInstanceId \in Nat \ {0}
  /\ rows \subseteq 1..MaxRow /\ used \subseteq Nat \ {0}
  /\ phase \in {"load", "world", "maps"}
  /\ MapThreads \subseteq Threads
  /\ job \in [MapThreads -> Jobs \cup {NoThreadJob}]

\* A map thread frees an id that is no longer in use, between two phases of
\* the world thread; the rows are loaded in ascending order.
PhaseInv ==
  /\ phase # "maps" => \A t \in MapThreads : job[t] = NoThreadJob
  /\ \A t \in MapThreads : Freeing(t) =>
       /\ job[t].id \in Nat \ {0} /\ job[t].id \notin used
       /\ job[t].word \subseteq 0..(size - 1)
  /\ \A i \in used, r \in rows : i < r
  /\ phase # "load" => rows = {}

BaseInv == IdTypes /\ PhaseInv

\* The word a map thread is about to write has the bits of the ids in use.
MarkInv ==
  /\ used \subseteq flags
  /\ _nextInstanceId \notin used
  /\ \A t \in MapThreads : Freeing(t) /\ job[t].pc = "write" =>
       used \cap WordOf(job[t].id) \subseteq job[t].word

\* With one map thread the ids below the next and the bits are the ids in
\* use, but for the one that is being freed.
LowInv ==
  (\A t, u \in MapThreads : t = u) =>
    /\ \A k \in 1..(_nextInstanceId - 1) :
         \/ k \in used
         \/ \E t \in MapThreads : Freeing(t) /\ job[t].pc = "setnext" /\ k = job[t].id
    /\ \A k \in flags : k \in used \/ \E t \in MapThreads : Freeing(t) /\ k = job[t].id
    /\ \A t \in MapThreads : Freeing(t) /\ job[t].pc = "setnext" => job[t].id < _nextInstanceId
    /\ \A t \in MapThreads : Freeing(t) /\ job[t].pc = "write" =>
         job[t].word = flags \cap WordOf(job[t].id)

Room ==
  /\ \A r \in rows : r < size
  /\ capacity > 0 => _nextInstanceId < capacity

\* Ids in use, or being freed, are in the vector, and the next id is at most
\* the first past its end.
VectorInv ==
  /\ size <= capacity
  /\ InVector
  /\ \/ _nextInstanceId <= size
     \/ size = 0 /\ _nextInstanceId = 1
  /\ \A t \in MapThreads : Freeing(t) => job[t].id < size

USE IdsAssumption

-----------------------------------------------------------------------------
(* Sizes, least and greatest elements.                                     *)

LEMMA RoundUpFacts ==
  ASSUME NEW n \in Nat, NEW w \in Nat \ {0}
  PROVE  RoundUp(n, w) \in Nat /\ RoundUp(n, w) >= n
<1>1. PICK d \in Nat : d = n \div w
  OBVIOUS
<1>2. PICK m \in Nat : m = n % w /\ m < w
  OBVIOUS
<1>3. n = w * d + m
  BY <1>1, <1>2
<1>4. d * w \in Nat /\ d * w = w * d
  OBVIOUS
<1> QED
  BY <1>1, <1>2, <1>3, <1>4 DEF RoundUp

LEMMA MaxOfTwo ==
  ASSUME NEW a \in Nat, NEW b \in Nat
  PROVE  Max({a, b}) \in {a, b} /\ Max({a, b}) >= a /\ Max({a, b}) >= b
  BY DEF Max

LEMMA MinFacts ==
  ASSUME NEW S \in SUBSET Nat, S # {}
  PROVE  Min(S) \in S /\ \A y \in S : Min(S) <= y
<1>1. PICK x \in S : \A y \in S : ~(<<y, x>> \in OpToRel(<, Nat))
  BY NatLessThanWellFounded, WFMin
<1>2. \A y \in S : x <= y
  <2> SUFFICES ASSUME NEW y \in S, y < x PROVE FALSE
    OBVIOUS
  <2>1. <<y, x>> \in Nat \X Nat /\ <<y, x>>[1] < <<y, x>>[2]
    OBVIOUS
  <2>2. <<y, x>> \in OpToRel(<, Nat)
    BY <2>1 DEF OpToRel
  <2> QED
    BY <1>1, <2>2
<1> QED
  BY <1>2 DEF Min

LEMMA MaxFacts ==
  ASSUME NEW n \in Nat, NEW S \in SUBSET (0..n), S # {}
  PROVE  Max(S) \in S /\ \A y \in S : Max(S) >= y
<1> DEFINE T == {n - x : x \in S}
<1>1. T \in SUBSET Nat /\ T # {}
  <2>1. \A x \in S : x \in 0..n /\ n - x \in Nat
    OBVIOUS
  <2>2. PICK x \in S : TRUE
    OBVIOUS
  <2>3. n - x \in T
    OBVIOUS
  <2> QED
    BY <2>1, <2>3
<1>2. PICK m \in T : \A y \in T : m <= y
  BY <1>1, MinFacts
<1>3. PICK x \in S : m = n - x
  BY <1>2
<1>4. ASSUME NEW y \in S PROVE x >= y
  <2>1. n - y \in T
    OBVIOUS
  <2>2. n - x <= n - y
    BY <1>2, <1>3, <2>1
  <2> QED
    BY <2>2
<1> QED
  BY <1>4 DEF Max

LEMMA CapacityFacts ==
  ASSUME NEW n \in Nat, NEW s \in Nat, NEW c \in Nat
  PROVE  CapacityFor(n, s, c) \in Nat /\ CapacityFor(n, s, c) >= n
<1>1. Max({2 * s, n}) \in Nat /\ Max({2 * s, n}) >= n
  BY MaxOfTwo
<1>2. /\ RoundUp(Max({2 * s, n}), Unit) \in Nat
      /\ RoundUp(Max({2 * s, n}), Unit) >= Max({2 * s, n})
  BY <1>1, RoundUpFacts
<1> QED
  BY <1>1, <1>2 DEF CapacityFor

\* The loop of GenerateInstanceId ends, at an id without a bit, and has
\* passed over bits only.
LEMMA LowestAvailableFacts ==
  ASSUME size \in Nat, flags \subseteq 0..(size - 1), NEW i \in Nat
  PROVE  /\ LowestAvailable(i) \in Nat /\ LowestAvailable(i) >= i
         /\ LowestAvailable(i) \notin flags
         /\ \A k \in i..(LowestAvailable(i) - 1) : k \in flags
<1> DEFINE m == Max({i, size}) + 1
           S == {k \in i..m : k \notin flags}
<1>1. m \in Nat /\ m > i /\ m > size
  BY MaxOfTwo
<1> HIDE DEF m
<1>2. m \in S /\ S \in SUBSET Nat
  BY <1>1
<1>3. Min(S) \in S /\ \A y \in S : Min(S) <= y
  BY <1>2, MinFacts
<1>4. LowestAvailable(i) = Min(S)
  BY DEF LowestAvailable, m
<1>5. PICK l : l = Min(S)
  OBVIOUS
<1>6. ASSUME NEW k \in i..(l - 1) PROVE k \in flags
  <2>1. l \in i..m /\ k \in i..m
    BY <1>1, <1>3, <1>5
  <2>2. ~(l <= k)
    BY <2>1
  <2> QED
    BY <1>3, <1>5, <2>1, <2>2
<1> QED
  BY <1>1, <1>3, <1>4, <1>5, <1>6

-----------------------------------------------------------------------------
(* The world thread.                                                       *)

LEMMA InitInv ==
  ASSUME Init
  PROVE  BaseInv /\ MarkInv /\ LowInv
<1>1. PICK m \in Nat : m = Max(rows \cup {0})
  <2>1. rows \cup {0} \in SUBSET (0..MaxRow)
    BY DEF Init
  <2>2. Max(rows \cup {0}) \in rows \cup {0}
    BY <2>1, MaxFacts
  <2> QED
    BY <2>1, <2>2
<1>2. size \in Nat /\ capacity \in Nat
  <2>1. size = RoundUp(m, Word) /\ capacity = CapacityFor(RoundUp(m, Word), 0, 0)
    BY <1>1 DEF Init
  <2>2. RoundUp(m, Word) \in Nat
    BY RoundUpFacts
  <2> QED
    BY <2>1, <2>2, CapacityFacts
<1>3. PICK started \in SUBSET Threads : job = [t \in started |-> NoThreadJob]
  BY DEF Init
<1>4. MapThreads = started /\ \A t \in MapThreads : job[t] = NoThreadJob /\ ~Freeing(t)
  BY <1>3 DEF MapThreads, Freeing
<1>5. BaseInv
  BY <1>2, <1>3, <1>4 DEF Init, BaseInv, IdTypes, PhaseInv
<1>6. MarkInv /\ LowInv
  BY <1>4 DEF Init, MarkInv, LowInv
<1> QED
  BY <1>5, <1>6

LEMMA LoadRowStep ==
  ASSUME BaseInv, LoadRow
  PROVE  BaseInv' /\ (MarkInv /\ InVector' => MarkInv') /\ (LowInv => LowInv')
<1> USE DEF BaseInv
<1>1. PICK i : i = Min(rows)
  OBVIOUS
<1>2. i \in rows /\ i \in Nat \ {0} /\ \A r \in rows : i <= r
  <2>1. rows \in SUBSET Nat /\ rows # {}
    BY DEF LoadRow, IdTypes
  <2>2. i \in rows /\ \A r \in rows : i <= r
    BY <1>1, <2>1, MinFacts
  <2> QED
    BY <2>2 DEF IdTypes
<1>3. /\ _nextInstanceId' = (IF _nextInstanceId = i THEN i + 1 ELSE _nextInstanceId)
      /\ flags' = (IF i < size THEN flags \cup {i} ELSE flags)
      /\ used' = used \cup {i} /\ rows' = rows \ {i} /\ phase = "load"
      /\ UNCHANGED <<size, capacity, phase, job>>
  BY <1>1 DEF LoadRow, RegisterInstanceId, Set
<1>4. MapThreads' = MapThreads /\ \A t \in MapThreads : ~Freeing(t) /\ ~Freeing(t)'
  BY <1>3 DEF MapThreads, Freeing, PhaseInv
<1>5. IdTypes'
  BY <1>2, <1>3, <1>4 DEF IdTypes
<1>6. PhaseInv'
  <2>1. \A k \in used', r \in rows' : k < r
    BY <1>2, <1>3 DEF PhaseInv, IdTypes
  <2> QED
    BY <1>3, <1>4, <2>1 DEF PhaseInv, Freeing
<1>7. ASSUME MarkInv, InVector' PROVE MarkInv'
  <2>1. i < size
    BY <1>3, <1>7 DEF InVector
  <2>2. _nextInstanceId' \notin used'
    <3>1. \A k \in used : k < i /\ k \in Nat
      BY <1>2 DEF PhaseInv, IdTypes
    <3> QED
      BY <1>2, <1>3, <1>7, <3>1 DEF MarkInv
  <2> QED
    BY <1>3, <1>4, <1>7, <2>1, <2>2 DEF MarkInv
<1>8. ASSUME LowInv PROVE LowInv'
  <2> SUFFICES ASSUME \A t, u \in MapThreads : t = u
               PROVE  /\ \A k \in 1..(_nextInstanceId' - 1) : k \in used'
                      /\ \A k \in flags' : k \in used'
    BY <1>4 DEF LowInv
  <2>1. \A k \in 1..(_nextInstanceId - 1) : k \in used
    BY <1>4, <1>8 DEF LowInv
  <2>2. \A k \in flags : k \in used
    BY <1>4, <1>8 DEF LowInv
  <2>3. _nextInstanceId \in Nat
    BY DEF IdTypes
  <2> QED
    BY <1>2, <1>3, <2>1, <2>2, <2>3
<1> QED
  BY <1>5, <1>6, <1>7, <1>8

\* Steps of the world thread that only change the phase.
LEMMA PhaseStep ==
  ASSUME BaseInv, LoadDone \/ StartTick \/ EndTick \/ UNCHANGED vars
  PROVE  BaseInv' /\ (MarkInv /\ InVector' => MarkInv') /\ (LowInv => LowInv')
<1> USE DEF BaseInv
<1>1. UNCHANGED <<size, capacity, flags, _nextInstanceId, rows, used, job>>
  BY DEF LoadDone, StartTick, EndTick, vars
<1>2. MapThreads' = MapThreads /\ \A t \in MapThreads : Freeing(t)' <=> Freeing(t)
  BY <1>1 DEF MapThreads, Freeing
<1>3. IdTypes'
  BY <1>1, <1>2 DEF IdTypes, LoadDone, StartTick, EndTick, vars
<1>4. PhaseInv'
  BY <1>1, <1>2 DEF PhaseInv, Freeing, LoadDone, StartTick, EndTick, vars
<1>5. MarkInv => MarkInv'
  BY <1>1, <1>2 DEF MarkInv, WordOf
<1>6. LowInv => LowInv'
  BY <1>1, <1>2 DEF LowInv, WordOf
<1> QED
  BY <1>3, <1>4, <1>5, <1>6

LEMMA GenerateInstanceIdStep ==
  ASSUME BaseInv, GenerateInstanceId
  PROVE  BaseInv' /\ (MarkInv /\ InVector' => MarkInv') /\ (LowInv => LowInv')
<1> USE DEF BaseInv
<1>1. PICK n, l, z : /\ n = _nextInstanceId /\ l = LowestAvailable(n + 1)
                     /\ z = IF n < size THEN size
                            ELSE IF size < capacity THEN capacity
                            ELSE RoundUp(n, Word)
  OBVIOUS
<1>2. /\ _nextInstanceId' = l /\ size' = z /\ capacity' = CapacityFor(z, size, capacity)
      /\ flags' = (IF n < z THEN flags \cup {n} ELSE flags)
      /\ used' = used \cup {n} /\ phase = "world"
      /\ UNCHANGED <<rows, phase, job>>
  BY <1>1 DEF GenerateInstanceId, Set
<1>3. n \in Nat \ {0}
  BY <1>1 DEF IdTypes
<1>4. /\ l \in Nat \ {0} /\ l > n /\ l \notin flags
      /\ \A k \in (n + 1)..(l - 1) : k \in flags
  <2>1. size \in Nat /\ flags \subseteq 0..(size - 1) /\ n + 1 \in Nat
    BY <1>3 DEF IdTypes
  <2>2. /\ l \in Nat /\ l >= n + 1 /\ l \notin flags
        /\ \A k \in (n + 1)..(l - 1) : k \in flags
    BY <1>1, <2>1, LowestAvailableFacts
  <2> QED
    BY <1>3, <2>2
<1>5. z \in Nat /\ z >= size /\ size \in Nat /\ capacity \in Nat
  BY <1>1, <1>3, RoundUpFacts DEF IdTypes
<1>6. MapThreads' = MapThreads /\ \A t \in MapThreads : ~Freeing(t) /\ ~Freeing(t)'
  BY <1>2 DEF MapThreads, Freeing, PhaseInv
<1>7. IdTypes'
  <2>1. capacity' \in Nat
    BY <1>2, <1>5, CapacityFacts
  <2>2. flags' \subseteq 0..(size' - 1)
    BY <1>2, <1>3, <1>5 DEF IdTypes
  <2> QED
    BY <1>2, <1>3, <1>4, <1>5, <1>6, <2>1, <2>2 DEF IdTypes
<1>8. PhaseInv'
  BY <1>2, <1>6 DEF PhaseInv, Freeing
<1>9. ASSUME MarkInv, InVector' PROVE MarkInv'
  <2>1. n < z
    BY <1>2, <1>9 DEF InVector
  <2>2. l \notin used'
    BY <1>2, <1>3, <1>4, <1>9 DEF MarkInv
  <2> QED
    BY <1>2, <1>6, <1>9, <2>1, <2>2 DEF MarkInv
<1>10. ASSUME LowInv PROVE LowInv'
  <2> SUFFICES ASSUME \A t, u \in MapThreads : t = u
               PROVE  /\ \A k \in 1..(l - 1) : k \in used'
                      /\ \A k \in flags' : k \in used'
    BY <1>2, <1>6 DEF LowInv
  <2>1. \A k \in 1..(n - 1) : k \in used
    BY <1>1, <1>6, <1>10 DEF LowInv
  <2>2. \A k \in flags : k \in used
    BY <1>6, <1>10 DEF LowInv
  <2> QED
    BY <1>2, <1>3, <1>4, <2>1, <2>2
<1> QED
  BY <1>7, <1>8, <1>9, <1>10

LEMMA FreeInstanceIdStep ==
  ASSUME BaseInv, NEW i \in used, FreeInstanceId(i)
  PROVE  BaseInv' /\ (MarkInv /\ InVector' => MarkInv') /\ (LowInv => LowInv')
<1> USE DEF BaseInv
<1>1. /\ _nextInstanceId' = (IF i < _nextInstanceId THEN i ELSE _nextInstanceId)
      /\ flags' = flags \ {i} /\ used' = used \ {i} /\ phase = "world"
      /\ UNCHANGED <<size, capacity, rows, phase, job>>
  BY DEF FreeInstanceId, Clear
<1>2. i \in Nat \ {0} /\ _nextInstanceId \in Nat \ {0}
  BY DEF IdTypes
<1>3. MapThreads' = MapThreads /\ \A t \in MapThreads : ~Freeing(t) /\ ~Freeing(t)'
  BY <1>1 DEF MapThreads, Freeing, PhaseInv
<1>4. IdTypes'
  BY <1>1, <1>2, <1>3 DEF IdTypes
<1>5. PhaseInv'
  BY <1>1, <1>3 DEF PhaseInv, Freeing
<1>6. MarkInv => MarkInv'
  BY <1>1, <1>3 DEF MarkInv
<1>7. ASSUME LowInv PROVE LowInv'
  <2> SUFFICES ASSUME \A t, u \in MapThreads : t = u
               PROVE  /\ \A k \in 1..(_nextInstanceId' - 1) : k \in used'
                      /\ \A k \in flags' : k \in used'
    BY <1>3 DEF LowInv
  <2>1. \A k \in 1..(_nextInstanceId - 1) : k \in used
    BY <1>3, <1>7 DEF LowInv
  <2>2. \A k \in flags : k \in used
    BY <1>3, <1>7 DEF LowInv
  <2> QED
    BY <1>1, <1>2, <2>1, <2>2
<1> QED
  BY <1>4, <1>5, <1>6, <1>7

-----------------------------------------------------------------------------
(* The map threads.                                                        *)

LEMMA FreeCompareStep ==
  ASSUME BaseInv, NEW t \in MapThreads, NEW i \in used, FreeCompare(t, i)
  PROVE  BaseInv' /\ (MarkInv /\ InVector' => MarkInv') /\ (LowInv => LowInv')
<1> USE DEF BaseInv
<1>j. PICK j \in Jobs :
        /\ job' = [job EXCEPT ![t] = j]
        /\ j.id = i /\ j.word = {} /\ j.pc = (IF i < _nextInstanceId THEN "setnext" ELSE "read")
  <2>1. i \in Nat
    BY DEF IdTypes
  <2>2. [id |-> i, word |-> {}, pc |-> IF i < _nextInstanceId THEN "setnext" ELSE "read"] \in Jobs
    BY <2>1 DEF Jobs
  <2> QED
    BY <2>2 DEF FreeCompare
<1>1. /\ used' = used \ {i} /\ phase = "maps" /\ ~Freeing(t)
      /\ UNCHANGED <<size, capacity, flags, _nextInstanceId, rows, phase>>
  BY DEF FreeCompare, Freeing
<1>2. i \in Nat \ {0} /\ _nextInstanceId \in Nat \ {0}
      /\ job \in [MapThreads -> Jobs \cup {NoThreadJob}]
  BY DEF IdTypes
<1>3. /\ MapThreads' = MapThreads /\ job'[t] = j /\ Freeing(t)'
      /\ \A u \in MapThreads : u # t => job'[u] = job[u] /\ (Freeing(u)' <=> Freeing(u))
  <2>1. j # NoThreadJob
    BY DEF Jobs
  <2> QED
    BY <1>2, <1>j, <2>1 DEF MapThreads, Freeing
<1>4. IdTypes'
  BY <1>1, <1>2, <1>3, <1>j DEF IdTypes
<1>5. PhaseInv'
  BY <1>1, <1>2, <1>3, <1>j DEF PhaseInv
<1>6. MarkInv => MarkInv'
  <2>1. \A n : WordOf(n)' = WordOf(n)
    BY <1>1 DEF WordOf
  <2> SUFFICES ASSUME MarkInv
               PROVE  \A u \in MapThreads : Freeing(u)' /\ job'[u].pc = "write" =>
                        used' \cap WordOf(job'[u].id) \subseteq job'[u].word
    BY <1>1, <1>3 DEF MarkInv, WordOf
  <2> QED
    BY <1>1, <1>3, <1>j DEF MarkInv
<1>7. ASSUME LowInv PROVE LowInv'
  <2> SUFFICES ASSUME \A u, v \in MapThreads : u = v
               PROVE  /\ \A k \in 1..(_nextInstanceId - 1) :
                           k \in used' \/ (j.pc = "setnext" /\ k = i)
                      /\ \A k \in flags : k \in used' \/ k = i
                      /\ j.pc = "setnext" => i < _nextInstanceId
    BY <1>1, <1>3, <1>j DEF LowInv
  <2>1. \A u \in MapThreads : ~Freeing(u)
    BY <1>1
  <2>2. /\ \A k \in 1..(_nextInstanceId - 1) : k \in used
        /\ \A k \in flags : k \in used
    BY <1>7, <2>1 DEF LowInv
  <2> QED
    BY <1>1, <1>2, <1>j, <2>2
<1> QED
  BY <1>4, <1>5, <1>6, <1>7

LEMMA FreeSetNextStep ==
  ASSUME BaseInv, NEW t \in MapThreads, FreeSetNext(t)
  PROVE  BaseInv' /\ (MarkInv /\ InVector' => MarkInv') /\ (LowInv => LowInv')
<1> USE DEF BaseInv
<1>0. job \in [MapThreads -> Jobs \cup {NoThreadJob}] /\ _nextInstanceId \in Nat \ {0}
  BY DEF IdTypes
<1>1. /\ Freeing(t) /\ job[t] \in Jobs /\ job[t].pc = "setnext" /\ phase = "maps"
      /\ job[t].id \in Nat \ {0} /\ job[t].id \notin used
  BY <1>0 DEF FreeSetNext, Freeing, PhaseInv
<1>i. PICK i, w : i = job[t].id /\ w = job[t].word
  OBVIOUS
<1>2. /\ _nextInstanceId' = i /\ job' = [job EXCEPT ![t].pc = "read"]
      /\ UNCHANGED <<size, capacity, flags, rows, used, phase>>
  BY <1>i DEF FreeSetNext
<1>j. PICK j \in Jobs : /\ job' = [job EXCEPT ![t] = j]
                        /\ j.id = i /\ j.pc = "read" /\ j.word = w
  <2>1. [job[t] EXCEPT !.pc = "read"] \in Jobs
    BY <1>1 DEF Jobs
  <2>2. /\ [job[t] EXCEPT !.pc = "read"].id = i /\ [job[t] EXCEPT !.pc = "read"].pc = "read"
        /\ [job[t] EXCEPT !.pc = "read"].word = w
    BY <1>1, <1>i DEF Jobs
  <2> QED
    BY <1>2, <2>1, <2>2
<1>3. /\ MapThreads' = MapThreads /\ job'[t] = j /\ Freeing(t)'
      /\ \A u \in MapThreads : u # t => job'[u] = job[u] /\ (Freeing(u)' <=> Freeing(u))
  <2>1. j # NoThreadJob
    BY DEF Jobs
  <2> QED
    BY <1>0, <1>j, <2>1 DEF MapThreads, Freeing
<1>4. IdTypes'
  BY <1>1, <1>2, <1>3, <1>i, <1>j DEF IdTypes
<1>5. PhaseInv'
  BY <1>1, <1>2, <1>3, <1>i, <1>j DEF PhaseInv
<1>6. MarkInv => MarkInv'
  BY <1>1, <1>2, <1>3, <1>i, <1>j DEF MarkInv, WordOf
<1>7. ASSUME LowInv PROVE LowInv'
  <2> SUFFICES ASSUME \A u, v \in MapThreads : u = v
               PROVE  /\ \A k \in 1..(i - 1) : k \in used
                      /\ \A k \in flags : k \in used \/ k = i
    BY <1>2, <1>3, <1>j DEF LowInv
  <2>1. /\ \A k \in 1..(_nextInstanceId - 1) : k \in used \/ k = i
        /\ \A k \in flags : k \in used \/ k = i
        /\ i < _nextInstanceId
    BY <1>1, <1>7, <1>i DEF LowInv
  <2> QED
    BY <1>0, <1>1, <1>i, <2>1
<1> QED
  BY <1>4, <1>5, <1>6, <1>7

LEMMA FreeReadWordStep ==
  ASSUME BaseInv, NEW t \in MapThreads, FreeReadWord(t)
  PROVE  BaseInv' /\ (MarkInv /\ InVector' => MarkInv') /\ (LowInv => LowInv')
<1> USE DEF BaseInv
<1>0. job \in [MapThreads -> Jobs \cup {NoThreadJob}] /\ flags \subseteq Nat
  BY DEF IdTypes
<1>1. /\ Freeing(t) /\ job[t] \in Jobs /\ job[t].pc = "read" /\ phase = "maps"
      /\ job[t].id \in Nat \ {0} /\ job[t].id \notin used
  BY <1>0 DEF FreeReadWord, Freeing, PhaseInv
<1>i. PICK i, w : i = job[t].id /\ w = flags \cap WordOf(i)
  OBVIOUS
<1>2. /\ job' = [job EXCEPT ![t].pc = "write", ![t].word = w]
      /\ UNCHANGED <<size, capacity, flags, _nextInstanceId, rows, used, phase>>
  BY <1>i DEF FreeReadWord
<1>j. PICK j \in Jobs : /\ job' = [job EXCEPT ![t] = j]
                        /\ j.id = i /\ j.pc = "write" /\ j.word = w
  <2> DEFINE jj == [[job[t] EXCEPT !.pc = "write"] EXCEPT !.word = w]
  <2>1. jj \in Jobs /\ jj.id = i /\ jj.pc = "write" /\ jj.word = w
    BY <1>0, <1>1, <1>i DEF Jobs
  <2>2. job' = [job EXCEPT ![t] = jj]
    BY <1>0, <1>1, <1>2
  <2> QED
    BY <2>1, <2>2
<1>3. /\ MapThreads' = MapThreads /\ job'[t] = j /\ Freeing(t)'
      /\ \A u \in MapThreads : u # t => job'[u] = job[u] /\ (Freeing(u)' <=> Freeing(u))
  <2>1. j # NoThreadJob
    BY DEF Jobs
  <2> QED
    BY <1>0, <1>j, <2>1 DEF MapThreads, Freeing
<1>4. IdTypes'
  BY <1>2, <1>3, <1>j DEF IdTypes
<1>w. \A n : WordOf(n)' = WordOf(n)
  BY <1>2 DEF WordOf
<1>5. PhaseInv'
  <2>1. w \subseteq 0..(size - 1)
    BY <1>i DEF IdTypes
  <2>2. \A u \in MapThreads : Freeing(u)' =>
          /\ job'[u].id \in Nat \ {0} /\ job'[u].id \notin used
          /\ job'[u].word \subseteq 0..(size - 1)
    BY <1>1, <1>3, <1>i, <1>j, <2>1 DEF PhaseInv
  <2> QED
    BY <1>1, <1>2, <1>3, <2>2 DEF PhaseInv
<1>6. ASSUME MarkInv PROVE MarkInv'
  <2>1. used \cap WordOf(i) \subseteq w
    BY <1>6, <1>i DEF MarkInv
  <2>2. ASSUME NEW u \in MapThreads, Freeing(u)', job'[u].pc = "write"
        PROVE  used \cap WordOf(job'[u].id) \subseteq job'[u].word
    BY <1>3, <1>6, <1>j, <2>1, <2>2 DEF MarkInv
  <2> QED
    BY <1>2, <1>3, <1>6, <1>w, <2>2 DEF MarkInv
<1>7. ASSUME LowInv PROVE LowInv'
  <2> SUFFICES ASSUME \A u, v \in MapThreads : u = v
               PROVE  /\ \A k \in 1..(_nextInstanceId - 1) : k \in used
                      /\ \A k \in flags : k \in used \/ k = i
                      /\ \A u \in MapThreads : job'[u].word = flags \cap WordOf(job'[u].id)
                      /\ \A u \in MapThreads : job'[u].pc = "write"
    BY <1>2, <1>3, <1>j, <1>w DEF LowInv
  <2>1. \A u \in MapThreads : job'[u] = j
    BY <1>3
  <2>2. /\ \A k \in 1..(_nextInstanceId - 1) : k \in used
        /\ \A k \in flags : k \in used \/ k = i
    BY <1>1, <1>7, <1>i DEF LowInv
  <2> QED
    BY <1>i, <1>j, <2>1, <2>2
<1> QED
  BY <1>4, <1>5, <1>6, <1>7

LEMMA FreeWriteWordStep ==
  ASSUME BaseInv, NEW t \in MapThreads, FreeWriteWord(t)
  PROVE  BaseInv' /\ (MarkInv /\ InVector' => MarkInv') /\ (LowInv => LowInv')
<1> USE DEF BaseInv
<1>0. job \in [MapThreads -> Jobs \cup {NoThreadJob}] /\ size \in Nat
  BY DEF IdTypes
<1>1. /\ Freeing(t) /\ job[t] \in Jobs /\ job[t].pc = "write" /\ phase = "maps"
      /\ job[t].id \in Nat \ {0} /\ job[t].id \notin used
  BY <1>0 DEF FreeWriteWord, Freeing, PhaseInv
<1>i. PICK i, w : i = job[t].id /\ w = job[t].word
  OBVIOUS
<1>2. /\ job' = [job EXCEPT ![t] = NoThreadJob]
      /\ flags' = (flags \ WordOf(i)) \cup (w \ {i})
      /\ UNCHANGED <<size, capacity, _nextInstanceId, rows, used, phase>>
  BY <1>i DEF FreeWriteWord, Clear
<1>3. /\ MapThreads' = MapThreads /\ job'[t] = NoThreadJob /\ ~Freeing(t)'
      /\ \A u \in MapThreads : u # t => job'[u] = job[u] /\ (Freeing(u)' <=> Freeing(u))
  BY <1>0, <1>2 DEF MapThreads, Freeing
<1>w. \A n : WordOf(n)' = WordOf(n)
  BY <1>2 DEF WordOf
<1>4. IdTypes'
  <2>1. w \subseteq 0..(size - 1)
    BY <1>1, <1>i DEF PhaseInv
  <2>2. flags' \subseteq 0..(size - 1)
    BY <1>2, <2>1 DEF IdTypes
  <2> QED
    BY <1>2, <1>3, <2>2 DEF IdTypes
<1>5. PhaseInv'
  <2>1. \A u \in MapThreads : Freeing(u)' =>
          /\ job'[u].id \in Nat \ {0} /\ job'[u].id \notin used
          /\ job'[u].word \subseteq 0..(size - 1)
    BY <1>3 DEF PhaseInv
  <2> QED
    BY <1>1, <1>2, <1>3, <2>1 DEF PhaseInv
<1>6. ASSUME MarkInv PROVE MarkInv'
  <2>1. used \cap WordOf(i) \subseteq w /\ i \notin used
    BY <1>1, <1>6, <1>i DEF MarkInv
  <2>2. used \subseteq flags'
    BY <1>2, <1>6, <2>1 DEF MarkInv
  <2>3. ASSUME NEW u \in MapThreads, Freeing(u)', job'[u].pc = "write"
        PROVE  used \cap WordOf(job'[u].id) \subseteq job'[u].word
    BY <1>3, <1>6, <2>3 DEF MarkInv
  <2> QED
    BY <1>2, <1>3, <1>6, <1>w, <2>2, <2>3 DEF MarkInv
<1>7. ASSUME LowInv PROVE LowInv'
  <2> SUFFICES ASSUME \A u, v \in MapThreads : u = v
               PROVE  /\ \A k \in 1..(_nextInstanceId - 1) : k \in used
                      /\ \A k \in flags' : k \in used
    BY <1>2, <1>3 DEF LowInv
  <2>1. /\ \A k \in 1..(_nextInstanceId - 1) : k \in used
        /\ \A k \in flags : k \in used \/ k = i
        /\ w = flags \cap WordOf(i)
    BY <1>1, <1>7, <1>i DEF LowInv
  <2>2. i \in flags => i \in WordOf(i)
    BY DEF IdTypes, WordOf
  <2> QED
    BY <1>2, <2>1, <2>2
<1> QED
  BY <1>4, <1>5, <1>6, <1>7

-----------------------------------------------------------------------------
LEMMA NextStep ==
  ASSUME BaseInv, [Next]_vars
  PROVE  BaseInv' /\ (MarkInv /\ InVector' => MarkInv') /\ (LowInv => LowInv')
<1>1. CASE LoadRow
  BY <1>1, LoadRowStep
<1>2. CASE LoadDone \/ StartTick \/ EndTick \/ UNCHANGED vars
  BY <1>2, PhaseStep
<1>3. CASE GenerateInstanceId
  BY <1>3, GenerateInstanceIdStep
<1>4. CASE \E i \in used : FreeInstanceId(i)
  BY <1>4, FreeInstanceIdStep
<1>5. ASSUME NEW t \in MapThreads, \E i \in used : FreeCompare(t, i)
      PROVE  BaseInv' /\ (MarkInv /\ InVector' => MarkInv') /\ (LowInv => LowInv')
  BY <1>5, FreeCompareStep
<1>6. ASSUME NEW t \in MapThreads, FreeSetNext(t)
      PROVE  BaseInv' /\ (MarkInv /\ InVector' => MarkInv') /\ (LowInv => LowInv')
  BY <1>6, FreeSetNextStep
<1>7. ASSUME NEW t \in MapThreads, FreeReadWord(t)
      PROVE  BaseInv' /\ (MarkInv /\ InVector' => MarkInv') /\ (LowInv => LowInv')
  BY <1>7, FreeReadWordStep
<1>8. ASSUME NEW t \in MapThreads, FreeWriteWord(t)
      PROVE  BaseInv' /\ (MarkInv /\ InVector' => MarkInv') /\ (LowInv => LowInv')
  BY <1>8, FreeWriteWordStep
<1> QED
  BY <1>1, <1>2, <1>3, <1>4, <1>5, <1>6, <1>7, <1>8 DEF Next

LEMMA OneThreadEqual ==
  ASSUME BaseInv, OneThread, NEW t \in MapThreads, NEW u \in MapThreads
  PROVE  t = u
<1>1. IsFiniteSet(MapThreads)
  BY FS_Subset DEF BaseInv, IdTypes
<1>2. Cardinality(MapThreads) = 1
  <2>1. Cardinality(MapThreads) \in Nat
    BY <1>1, FS_CardinalityType
  <2>2. Cardinality(MapThreads) # 0
    BY <1>1, FS_EmptySet
  <2> QED
    BY <2>1, <2>2 DEF OneThread
<1>3. PICK x : MapThreads = {x}
  BY <1>1, <1>2, FS_Singleton
<1> QED
  BY <1>3

\* With at most one map thread the next id is the lowest free one and the
\* vector marks the ids in use and no others, whatever the sequence of
\* FreeInstanceId and GenerateInstanceId and even when an id falls past the
\* end of the vector (MapManager.cpp: GenerateInstanceId, FreeInstanceId).
THEOREM SpecNextIsLowest == Spec => []NextIsLowest
<1>1. Init => BaseInv /\ LowInv
  BY InitInv
<1>2. BaseInv /\ LowInv /\ [Next]_vars => (BaseInv /\ LowInv)'
  BY NextStep
<1>3. BaseInv /\ LowInv => NextIsLowest
  <2> SUFFICES ASSUME BaseInv, LowInv, phase = "world", OneThread
               PROVE  1..(_nextInstanceId - 1) \subseteq used /\ flags \subseteq used
    BY DEF NextIsLowest
  <2>1. \A t, u \in MapThreads : t = u
    BY OneThreadEqual
  <2>2. \A t \in MapThreads : ~Freeing(t)
    BY DEF BaseInv, PhaseInv, Freeing
  <2> QED
    BY <2>1, <2>2 DEF LowInv
<1> QED
  BY <1>1, <1>2, <1>3, PTL DEF Spec

-----------------------------------------------------------------------------
(* While the vector has room.                                              *)

LEMMA VectorInit == ASSUME Init, Room PROVE VectorInv
<1>1. PICK m \in Nat : m = Max(rows \cup {0})
  <2>1. rows \cup {0} \in SUBSET (0..MaxRow)
    BY DEF Init
  <2>2. Max(rows \cup {0}) \in rows \cup {0}
    BY <2>1, MaxFacts
  <2> QED
    BY <2>1, <2>2
<1>2. size = RoundUp(m, Word) /\ capacity = CapacityFor(RoundUp(m, Word), 0, 0)
  BY <1>1 DEF Init
<1>3. size \in Nat /\ size <= capacity
  <2>1. RoundUp(m, Word) \in Nat
    BY RoundUpFacts
  <2> QED
    BY <1>2, <2>1, CapacityFacts
<1>4. used = {} /\ _nextInstanceId = 1 /\ \A t \in MapThreads : ~Freeing(t)
  BY DEF Init, MapThreads, Freeing
<1> QED
  BY <1>3, <1>4 DEF VectorInv, InVector

LEMMA VectorGenerate ==
  ASSUME BaseInv, VectorInv, Room, GenerateInstanceId
  PROVE  VectorInv'
<1> USE DEF BaseInv
<1>1. PICK n, l, z : /\ n = _nextInstanceId /\ l = LowestAvailable(n + 1)
                     /\ z = IF n < size THEN size
                            ELSE IF size < capacity THEN capacity
                            ELSE RoundUp(n, Word)
  OBVIOUS
<1>2. /\ _nextInstanceId' = l /\ size' = z /\ capacity' = CapacityFor(z, size, capacity)
      /\ used' = used \cup {n} /\ phase = "world" /\ UNCHANGED job
  BY <1>1 DEF GenerateInstanceId
<1>3. n \in Nat \ {0} /\ size \in Nat /\ capacity \in Nat
  BY <1>1 DEF IdTypes
<1>4. l \in Nat /\ l >= n + 1 /\ (l = n + 1 \/ l <= size)
  <2>1. flags \subseteq 0..(size - 1) /\ n + 1 \in Nat
    BY <1>3 DEF IdTypes
  <2>2. l \in Nat /\ l >= n + 1 /\ \A k \in (n + 1)..(l - 1) : k \in flags
    BY <1>1, <1>3, <2>1, LowestAvailableFacts
  <2>3. l # n + 1 => l - 1 \in flags
    BY <1>3, <2>2
  <2> QED
    BY <1>3, <2>1, <2>2, <2>3
<1>5. z \in Nat /\ n < z /\ size <= z
  <2>1. CASE size = 0 /\ capacity = 0
    <3>1. n = 1
      BY <1>1, <1>3, <2>1 DEF VectorInv
    <3>2. 1 \div Word = 0 /\ 1 % Word = 1
      OBVIOUS
    <3>3. RoundUp(1, Word) = Word
      BY <3>2 DEF RoundUp
    <3> QED
      BY <1>1, <1>3, <2>1, <3>1, <3>3
  <2>2. CASE capacity > 0
    BY <1>1, <1>3, <2>2 DEF VectorInv, Room
  <2> QED
    BY <1>3, <2>1, <2>2 DEF VectorInv
<1>6. z <= capacity'
  BY <1>2, <1>3, <1>5, CapacityFacts
<1>7. \A t \in MapThreads' : ~Freeing(t)'
  BY <1>2 DEF PhaseInv, Freeing, MapThreads
<1>8. \A k \in used' : k < z
  BY <1>2, <1>3, <1>5 DEF VectorInv, InVector, IdTypes
<1> QED
  BY <1>2, <1>3, <1>4, <1>5, <1>6, <1>7, <1>8 DEF VectorInv, InVector

LEMMA VectorWorld ==
  ASSUME BaseInv, VectorInv, Room,
         \/ LoadRow \/ LoadDone \/ StartTick \/ EndTick \/ UNCHANGED vars
         \/ \E i \in used : FreeInstanceId(i)
  PROVE  VectorInv'
<1> USE DEF BaseInv
<1>1. CASE LoadRow
  <2>1. PICK i : i = Min(rows)
    OBVIOUS
  <2>2. i \in rows /\ i \in Nat
    <3>1. rows \in SUBSET Nat /\ rows # {}
      BY <1>1 DEF LoadRow, IdTypes
    <3> QED
      BY <2>1, <3>1, MinFacts
  <2>3. /\ _nextInstanceId' = (IF _nextInstanceId = i THEN i + 1 ELSE _nextInstanceId)
        /\ used' = used \cup {i} /\ UNCHANGED <<size, capacity, job>>
    BY <1>1, <2>1 DEF LoadRow
  <2>4. i < size /\ size \in Nat
    BY <2>2 DEF Room, IdTypes
  <2> QED
    BY <2>2, <2>3, <2>4 DEF VectorInv, InVector, MapThreads, Freeing
<1>2. CASE LoadDone \/ StartTick \/ EndTick \/ UNCHANGED vars
  <2>1. UNCHANGED <<size, capacity, used, _nextInstanceId, job>>
    BY <1>2 DEF LoadDone, StartTick, EndTick, vars
  <2> QED
    BY <2>1 DEF VectorInv, InVector, MapThreads, Freeing
<1>3. ASSUME NEW i \in used, FreeInstanceId(i) PROVE VectorInv'
  <2>1. /\ _nextInstanceId' = (IF i < _nextInstanceId THEN i ELSE _nextInstanceId)
        /\ used' = used \ {i} /\ UNCHANGED <<size, capacity, job>>
    BY <1>3 DEF FreeInstanceId
  <2>2. i < size /\ i \in Nat /\ size \in Nat /\ _nextInstanceId \in Nat
    BY DEF VectorInv, InVector, IdTypes
  <2>3. \/ _nextInstanceId' <= size
        \/ size = 0 /\ _nextInstanceId' = 1
    BY <2>1, <2>2 DEF VectorInv
  <2> QED
    BY <2>1, <2>3 DEF VectorInv, InVector, MapThreads, Freeing
<1> QED
  BY <1>1, <1>2, <1>3

LEMMA VectorMaps ==
  ASSUME BaseInv, VectorInv, NEW t \in MapThreads,
         \/ \E i \in used : FreeCompare(t, i)
         \/ FreeSetNext(t) \/ FreeReadWord(t) \/ FreeWriteWord(t)
  PROVE  VectorInv'
<1> USE DEF BaseInv
<1>1. job \in [MapThreads -> Jobs \cup {NoThreadJob}] /\ size \in Nat
  BY DEF IdTypes
<1>2. UNCHANGED <<size, capacity>> /\ used' \subseteq used
  BY DEF FreeCompare, FreeSetNext, FreeReadWord, FreeWriteWord
<1>3. /\ MapThreads' = MapThreads
      /\ \A u \in MapThreads : u # t => job'[u] = job[u]
  BY <1>1 DEF FreeCompare, FreeSetNext, FreeReadWord, FreeWriteWord, MapThreads
<1>4. Freeing(t)' => job'[t].id < size
  <2>1. ASSUME NEW i \in used, FreeCompare(t, i) PROVE job'[t].id < size
    BY <1>1, <2>1 DEF FreeCompare, VectorInv, InVector
  <2>2. ASSUME FreeSetNext(t) \/ FreeReadWord(t) PROVE job'[t].id < size
    <3>1. Freeing(t) /\ job[t] \in Jobs /\ job[t].id < size
      BY <1>1, <2>2 DEF FreeSetNext, FreeReadWord, Freeing, VectorInv
    <3>2. job'[t].id = job[t].id
      BY <1>1, <2>2, <3>1 DEF FreeSetNext, FreeReadWord, Jobs
    <3> QED
      BY <3>1, <3>2
  <2>3. ASSUME FreeWriteWord(t) PROVE ~Freeing(t)'
    BY <1>1, <2>3 DEF FreeWriteWord, Freeing
  <2> QED
    BY <2>1, <2>2, <2>3
<1>5. \/ _nextInstanceId' = _nextInstanceId
      \/ _nextInstanceId' = job[t].id /\ job[t].id < size /\ job[t].id \in Nat
  BY DEF FreeCompare, FreeSetNext, FreeReadWord, FreeWriteWord, Freeing, VectorInv, PhaseInv
<1>6. \A u \in MapThreads : Freeing(u)' => job'[u].id < size
  BY <1>3, <1>4 DEF VectorInv, Freeing
<1> QED
  BY <1>1, <1>2, <1>3, <1>5, <1>6 DEF VectorInv, InVector

LEMMA SpecMarked == Spec /\ []Room => [](BaseInv /\ MarkInv)
<1>1. Init /\ Room => BaseInv /\ VectorInv /\ MarkInv
  BY InitInv, VectorInit
<1>2. BaseInv /\ VectorInv /\ MarkInv /\ Room /\ [Next]_vars
        => (BaseInv /\ VectorInv /\ MarkInv)'
  <2> SUFFICES ASSUME BaseInv, VectorInv, MarkInv, Room, [Next]_vars
               PROVE  VectorInv'
    BY NextStep DEF VectorInv
  <2> QED
    BY VectorGenerate, VectorWorld, VectorMaps DEF Next
<1> QED
  BY <1>1, <1>2, PTL DEF Spec

\* While the vector has room, GenerateInstanceId never returns an id that an
\* instance, a battleground or a row of the table still holds, for any
\* number of map threads racing in FreeInstanceId.
THEOREM SpecNextIsAvailable == Spec /\ []Room => []NextIsAvailable
<1>1. BaseInv /\ MarkInv => NextIsAvailable
  BY DEF MarkInv, NextIsAvailable
<1> QED
  BY <1>1, SpecMarked, PTL

\* While the vector has room, the read and the write of a word of
\* vector<bool> by racing map threads never lose the bit of an id in use.
THEOREM SpecUsedIsMarked == Spec /\ []Room => []UsedIsMarked
<1>1. BaseInv /\ MarkInv => UsedIsMarked
  BY DEF MarkInv, UsedIsMarked
<1> QED
  BY <1>1, SpecMarked, PTL

=============================================================================
