------------------------ MODULE InstanceSavesProofs -------------------------
(***************************************************************************)
(* Proofs about InstanceSaves, for any set of players, any number of ids,  *)
(* any width of the ids of reset events and any bounds: binds and saves    *)
(* always refer to each other; and as long as the worker keeps up with the *)
(* resets, strangers share no instance and the tables hold the binds of    *)
(* every player online once the queue is empty.                            *)
(***************************************************************************)
EXTENDS InstanceSaves, FiniteSetTheorems, TLAPS

-----------------------------------------------------------------------------
(* The inductive invariants.                                               *)

Binds == [id : Ids, perm : BOOLEAN]
Saves == [difficulty : Difficulties, players : SUBSET Players, canReset : BOOLEAN]
MapType == [difficulty : Difficulties, unloading : BOOLEAN]
Rows == [guid : Players, instance : Ids, permanent : BOOLEAN]
HolderRows == [instance : Ids, permanent : BOOLEAN, difficulty : Difficulties]
Statements == [op : {"insert", "update", "delete", "login"}, guid : Players,
               old : Ids \cup {NoId}, new : Ids \cup {NoId}, permanent : BOOLEAN]

SavesType(saves) == DOMAIN saves \subseteq Ids \ {0} /\ saves \in [DOMAIN saves -> Saves]
BoundType(bound) == bound \in [Players -> [Difficulties -> {NoBind} \cup Binds]]

Enters(s) == s.op \in {"insert", "update"}

TableType ==
  /\ DOMAIN instance \subseteq Ids \ {0} /\ instance \in [DOMAIN instance -> Difficulties]
  /\ character_instance \subseteq Rows
QueueType ==
  /\ queue \in Seq(Statements)
  /\ \A n \in DOMAIN queue : Enters(queue[n]) => queue[n].new \in Ids
MapsType ==
  /\ DOMAIN maps \subseteq Ids /\ maps \in [DOMAIN maps -> MapType]
  /\ m_mapRef \in [Players -> DOMAIN maps \cup {NoId}]
  /\ away \subseteq Players
SessionType ==
  /\ session \in [Players -> {"offline", "loading", "loaded", "online"}]
  /\ holder \in [Players -> SUBSET HolderRows]
MemoryType == SavesType(m_instanceSaveById) /\ BoundType(m_boundInstances)

TypeOK == /\ TableType /\ QueueType /\ MapsType /\ SessionType /\ MemoryType
          /\ used \subseteq Ids
          /\ prompt \in BOOLEAN

\* BindsMatch of any saves and binds, and a permanent bind forbids the reset.
Matching(saves, bound) ==
  /\ \A p \in Players, d \in Difficulties : bound[p][d] # NoBind =>
       /\ bound[p][d].id \in DOMAIN saves
       /\ saves[bound[p][d].id].difficulty = d
       /\ p \in saves[bound[p][d].id].players
       /\ saves[bound[p][d].id].canReset => ~bound[p][d].perm
  /\ \A i \in DOMAIN saves : \A p \in saves[i].players :
       /\ bound[p][saves[i].difficulty] # NoBind
       /\ bound[p][saves[i].difficulty].id = i

\* The key of the table; what a login query found has it too.
Key(rows) == \A r, s \in rows : r.guid = s.guid /\ r.instance = s.instance => r = s
Keys ==
  /\ Key(character_instance)
  /\ \A p \in Players : \A r, s \in holder[p] : r.instance = s.instance => r = s

\* Only players online are on maps or hold binds.
OnlyOnline ==
  /\ \A p \in Players : session[p] # "online" =>
       m_mapRef[p] = NoId /\ p \notin away /\ m_boundInstances[p] = NoBinds
  /\ \A p \in Players : session[p] # "loaded" => holder[p] = {}

\* The statements of a player are queued while it is online, behind a login
\* query there is none.
Queued ==
  /\ \A n \in DOMAIN queue : queue[n].op = "login" => session[queue[n].guid] = "loading"
  /\ \A m, n \in DOMAIN queue : m < n /\ queue[m].op = "login" => queue[n].guid # queue[m].guid
  /\ \A p \in Players : session[p] = "loaded" => \A n \in DOMAIN queue : queue[n].guid # p

BaseInv == /\ TypeOK /\ Matching(m_instanceSaveById, m_boundInstances)
           /\ Keys /\ OnlyOnline /\ Queued

\* An id somebody may find again is not handed out.
IdsUsed(saves) ==
  /\ DOMAIN saves \subseteq used
  /\ DOMAIN instance \subseteq used
  /\ \A r \in character_instance : r.instance \in used
  /\ \A n \in DOMAIN queue : Enters(queue[n]) => queue[n].new \in used

\* Map, save, table and query agree about the difficulty of an instance.
SameDifficulty(saves, ms) ==
  /\ \A i \in DOMAIN saves \cap DOMAIN ms : saves[i].difficulty = ms[i].difficulty
  /\ \A i \in DOMAIN saves \cap DOMAIN instance : saves[i].difficulty = instance[i]
  /\ \A i \in DOMAIN ms \cap DOMAIN instance : ms[i].difficulty = instance[i]
  /\ \A p \in Players : \A r \in holder[p] :
       r.instance \in DOMAIN instance /\ instance[r.instance] = r.difficulty

\* What binds player p to instance i, temporarily: in memory, in the table,
\* in a statement not executed yet, in the result of a query.
Temporary(bound, p, i) ==
  \/ \E d \in Difficulties : bound[p][d] = [id |-> i, perm |-> FALSE]
  \/ Row(p, i, FALSE) \in character_instance
  \/ \E n \in DOMAIN queue :
       Enters(queue[n]) /\ queue[n].guid = p /\ queue[n].new = i /\ ~queue[n].permanent
  \/ \E r \in holder[p] : r.instance = i /\ ~r.permanent

Solo(bound) == \A p, q \in Players, i \in Ids :
  Temporary(bound, p, i) /\ Temporary(bound, q, i) => p = q

Apart(saves, bound, ms) == IdsUsed(saves) /\ SameDifficulty(saves, ms) /\ Solo(bound)

SoloInv == BaseInv /\ (prompt => Apart(m_instanceSaveById, m_boundInstances, maps))

RowsOf(rows, p) == {r \in rows : r.guid = p}
BindRows(bound, p) ==
  {Row(p, bound[p][d].id, bound[p][d].perm) : d \in {e \in Difficulties : bound[p][e] # NoBind}}
Found(p) == {Row(p, r.instance, r.permanent) : r \in holder[p]}

\* A player has one row for each difficulty, of an instance that is there.
Orderly(rows) ==
  /\ \A r \in rows : r.instance \in DOMAIN instance
  /\ \A r, s \in rows :
       r.guid = s.guid /\ instance[r.instance] = instance[s.instance] => r = s

\* The rows of the players of who are their binds.
Holds(rows, bound, who) == \A p \in who : RowsOf(rows, p) = BindRows(bound, p)

\* table[n]: character_instance after n operations of the queue.
Future(table) ==
  /\ table \in [0..Len(queue) -> SUBSET Rows]
  /\ table[0] = character_instance
  /\ \A n \in 1..Len(queue) : table[n] = Executed(table[n - 1], queue[n])

\* Nothing changes the rows of a player who logs in.
Steady(table) ==
  /\ \A k \in 1..Len(queue) : queue[k].op = "login" =>
       \A n \in k..Len(queue) : RowsOf(table[n], queue[k].guid) = RowsOf(table[k - 1], queue[k].guid)
  /\ \A p \in Players : session[p] = "loaded" =>
       \A n \in 0..Len(queue) : RowsOf(table[n], p) = Found(p)

Online == {p \in Players : session[p] = "online"}

\* A crash may leave the table as it is after any operation of the queue.
Recorded(table) ==
  Future(table) /\ Steady(table) /\ \A n \in 0..Len(queue) : Orderly(table[n])

TablesInv ==
  /\ DOMAIN m_instanceSaveById \subseteq DOMAIN instance
  /\ \E table : /\ Recorded(table)
                /\ Holds(table[Len(queue)], m_boundInstances, Online)

RowsInv == SoloInv /\ (prompt => TablesInv)

-----------------------------------------------------------------------------
(* The operators on saves and binds.                                       *)

LEMMA RemovePlayersFacts ==
  ASSUME NEW saves, SavesType(saves), NEW gone, NEW ref
  PROVE  LET left == RemovePlayers(saves, gone, ref)
         IN  /\ SavesType(left)
             /\ DOMAIN left \subseteq DOMAIN saves
             /\ \A i \in DOMAIN saves : i \notin DOMAIN left =>
                  /\ \E p \in Players : <<p, i>> \in gone
                  /\ ~HavePlayers(ref, i)
                  /\ \A p \in saves[i].players : <<p, i>> \in gone
             /\ \A i \in DOMAIN left :
                  /\ left[i].difficulty = saves[i].difficulty
                  /\ left[i].canReset = saves[i].canReset
                  /\ left[i].players = {p \in saves[i].players : <<p, i>> \notin gone}
<1> DEFINE of(i) == {p \in saves[i].players : <<p, i>> \notin gone}
           unloaded == {i \in DOMAIN saves : /\ \E p \in Players : <<p, i>> \in gone
                                             /\ of(i) = {} /\ ~HavePlayers(ref, i)}
           left == RemovePlayers(saves, gone, ref)
<1>1. left = [i \in DOMAIN saves \ unloaded |-> [saves[i] EXCEPT !.players = of(i)]]
  BY DEF RemovePlayers
<1>2. DOMAIN left = DOMAIN saves \ unloaded
  BY <1>1
<1>3. \A i \in DOMAIN left :
        /\ left[i] \in Saves
        /\ left[i].difficulty = saves[i].difficulty
        /\ left[i].canReset = saves[i].canReset
        /\ left[i].players = of(i)
  <2> TAKE i \in DOMAIN left
  <2>1. saves[i] \in Saves
    BY <1>2 DEF SavesType
  <2>2. left[i] = [saves[i] EXCEPT !.players = of(i)]
    BY <1>1, <1>2
  <2>3. of(i) \in SUBSET Players
    BY <2>1 DEF Saves
  <2> HIDE DEF of
  <2> QED
    BY <2>1, <2>2, <2>3 DEF Saves
<1>4. \A i \in DOMAIN saves : i \notin DOMAIN left =>
        /\ \E p \in Players : <<p, i>> \in gone
        /\ ~HavePlayers(ref, i)
        /\ \A p \in saves[i].players : <<p, i>> \in gone
  BY <1>2
<1>5. SavesType(left)
  <2>1. left = [i \in DOMAIN left |-> left[i]]
    BY <1>1
  <2>2. DOMAIN left \subseteq Ids \ {0}
    BY <1>2 DEF SavesType
  <2> HIDE DEF left
  <2> QED
    BY <2>1, <2>2, <1>3 DEF SavesType
<1> HIDE DEF left
<1> QED
  BY <1>2, <1>3, <1>4, <1>5 DEF left

\* A player who leaves its save forgets its bind.
LEMMA LeaveMatch ==
  ASSUME NEW saves, SavesType(saves), NEW bound, BoundType(bound),
         Matching(saves, bound), NEW gone, NEW ref,
         NEW after, BoundType(after),
         \A p \in Players, d \in Difficulties : after[p][d] =
           IF bound[p][d] # NoBind /\ <<p, bound[p][d].id>> \in gone
           THEN NoBind ELSE bound[p][d]
  PROVE  Matching(RemovePlayers(saves, gone, ref), after)
<1>1. PICK left : left = RemovePlayers(saves, gone, ref)
  OBVIOUS
<1>2. /\ SavesType(left)
      /\ DOMAIN left \subseteq DOMAIN saves
      /\ \A i \in DOMAIN saves : i \notin DOMAIN left =>
           \A p \in saves[i].players : <<p, i>> \in gone
      /\ \A i \in DOMAIN left :
           /\ left[i].difficulty = saves[i].difficulty
           /\ left[i].canReset = saves[i].canReset
           /\ left[i].players = {p \in saves[i].players : <<p, i>> \notin gone}
  BY <1>1, RemovePlayersFacts
<1>3. ASSUME NEW p \in Players, NEW d \in Difficulties, after[p][d] # NoBind
      PROVE  /\ after[p][d].id \in DOMAIN left
             /\ left[after[p][d].id].difficulty = d
             /\ p \in left[after[p][d].id].players
             /\ left[after[p][d].id].canReset => ~after[p][d].perm
  <2>1. after[p][d] = bound[p][d] /\ <<p, bound[p][d].id>> \notin gone
    BY <1>3
  <2>2. /\ bound[p][d].id \in DOMAIN saves
        /\ saves[bound[p][d].id].difficulty = d
        /\ p \in saves[bound[p][d].id].players
        /\ saves[bound[p][d].id].canReset => ~bound[p][d].perm
    BY <1>3, <2>1 DEF Matching
  <2>3. bound[p][d].id \in DOMAIN left
    BY <1>2, <2>1, <2>2
  <2> QED
    BY <1>2, <2>1, <2>2, <2>3
<1>4. ASSUME NEW i \in DOMAIN left, NEW p \in left[i].players
      PROVE  /\ after[p][left[i].difficulty] # NoBind
             /\ after[p][left[i].difficulty].id = i
  <2>1. i \in DOMAIN saves /\ p \in saves[i].players /\ <<p, i>> \notin gone
    BY <1>2
  <2>2. /\ bound[p][saves[i].difficulty] # NoBind
        /\ bound[p][saves[i].difficulty].id = i
    BY <2>1 DEF Matching
  <2>3. p \in Players /\ saves[i].difficulty \in Difficulties
    BY <2>1 DEF SavesType, Saves
  <2> QED
    BY <1>2, <2>1, <2>2, <2>3
<1> QED
  BY <1>1, <1>3, <1>4 DEF Matching

\* Players of no other save of its difficulty join save i.
Joins(saves, bound, i, who, permanent, joined, after) ==
  /\ i \in DOMAIN saves
  /\ DOMAIN joined = DOMAIN saves
  /\ \A k \in DOMAIN saves : k # i => joined[k] = saves[k]
  /\ joined[i].difficulty = saves[i].difficulty
  /\ joined[i].players = saves[i].players \cup who
  /\ joined[i].canReset => saves[i].canReset /\ ~(permanent /\ who # {})
  /\ \A p \in who : LET b == bound[p][saves[i].difficulty] IN b = NoBind \/ b.id = i
  /\ \A p \in Players : \A e \in Difficulties : after[p][e] =
       IF p \in who /\ e = saves[i].difficulty
       THEN [id |-> i, perm |-> permanent] ELSE bound[p][e]

LEMMA JoinMatch ==
  ASSUME NEW saves, SavesType(saves), NEW bound, BoundType(bound), Matching(saves, bound),
         NEW i, NEW who \in SUBSET Players, NEW permanent \in BOOLEAN,
         NEW joined, SavesType(joined), NEW after, BoundType(after),
         Joins(saves, bound, i, who, permanent, joined, after)
  PROVE  Matching(joined, after)
<1> USE DEF Joins
<1>5. PICK b : b = [id |-> i, perm |-> permanent]
  OBVIOUS
<1>1. PICK d : d = saves[i].difficulty
  OBVIOUS
<1>2. d \in Difficulties /\ i \in Ids
  BY <1>1 DEF SavesType, Saves
<1>3. /\ DOMAIN joined = DOMAIN saves
      /\ \A k \in DOMAIN saves : k # i => joined[k] = saves[k]
      /\ joined[i].difficulty = d
      /\ joined[i].players = saves[i].players \cup who
      /\ joined[i].canReset => saves[i].canReset /\ ~(permanent /\ who # {})
  BY <1>1
<1>6. b \in Binds /\ b # NoBind /\ b.id = i /\ b.perm = permanent
  <2>1. b \in Binds /\ b.id = i
    BY <1>2, <1>5 DEF Binds
  <2>2. b.perm = permanent
    BY <1>5
  <2>3. NoBind \notin Binds
    BY SavesAssumption DEF Binds, Ids
  <2> QED
    BY <2>1, <2>2, <2>3
<1>8. \A p \in Players : \A e \in Difficulties :
        after[p][e] = IF p \in who /\ e = d THEN b ELSE bound[p][e]
  BY <1>1, <1>5
<1>10. ASSUME NEW p \in Players, NEW e \in Difficulties, after[p][e] # NoBind
       PROVE  /\ after[p][e].id \in DOMAIN joined
              /\ joined[after[p][e].id].difficulty = e
              /\ p \in joined[after[p][e].id].players
              /\ joined[after[p][e].id].canReset => ~after[p][e].perm
  <2>1. CASE p \in who /\ e = d
    <3>1. after[p][e] = b
      BY <1>8, <2>1
    <3>2. i \in DOMAIN joined /\ joined[i].difficulty = d /\ p \in joined[i].players
      BY <1>3, <2>1
    <3>3. joined[i].canReset => ~permanent
      BY <1>3, <2>1
    <3> QED
      BY <1>6, <2>1, <3>1, <3>2, <3>3
  <2>2. CASE ~(p \in who /\ e = d)
    <3>1. after[p][e] = bound[p][e]
      BY <1>8, <2>2
    <3>2. /\ bound[p][e].id \in DOMAIN saves
          /\ saves[bound[p][e].id].difficulty = e
          /\ p \in saves[bound[p][e].id].players
          /\ saves[bound[p][e].id].canReset => ~bound[p][e].perm
      BY <1>10, <3>1 DEF Matching
    <3>3. CASE bound[p][e].id = i
      BY <1>1, <1>3, <3>1, <3>2, <3>3
    <3>4. CASE bound[p][e].id # i
      BY <1>3, <3>1, <3>2, <3>4
    <3> QED
      BY <3>3, <3>4
  <2> QED
    BY <2>1, <2>2
<1>11. ASSUME NEW k \in DOMAIN joined, NEW p \in joined[k].players
       PROVE  /\ after[p][joined[k].difficulty] # NoBind
              /\ after[p][joined[k].difficulty].id = k
  <2>1. p \in Players /\ joined[k].difficulty \in Difficulties
    BY <1>11 DEF SavesType, Saves
  <2>2. CASE k = i /\ p \in who
    <3>1. joined[k].difficulty = d
      BY <1>3, <2>2
    <3>2. after[p][joined[k].difficulty] = b
      BY <1>8, <2>1, <2>2, <3>1
    <3> QED
      BY <1>6, <2>2, <3>2
  <2>3. CASE ~(k = i /\ p \in who)
    <3>1. p \in saves[k].players /\ k \in DOMAIN saves
          /\ joined[k].difficulty = saves[k].difficulty
      BY <1>1, <1>3, <2>3
    <3>2. bound[p][saves[k].difficulty] # NoBind /\ bound[p][saves[k].difficulty].id = k
      BY <3>1 DEF Matching
    <3>3. CASE p \in who /\ saves[k].difficulty = d
      BY <1>1, <2>3, <3>2, <3>3
    <3>4. CASE ~(p \in who /\ saves[k].difficulty = d)
      <4>1. saves[k].difficulty \in Difficulties
        BY <2>1, <3>1
      <4>2. after[p][saves[k].difficulty] = bound[p][saves[k].difficulty]
        BY <1>8, <2>1, <3>4, <4>1
      <4> QED
        BY <3>1, <3>2, <4>2
    <3> QED
      BY <3>3, <3>4
  <2> QED
    BY <2>2, <2>3
<1> QED
  BY <1>10, <1>11 DEF Matching

BindsTo(saves, bound, who, i, permanent, mem) ==
  /\ SavesType(mem.saves) /\ BoundType(mem.bound)
  /\ Matching(mem.saves, mem.bound)
  /\ DOMAIN mem.saves \subseteq DOMAIN saves
  /\ i \in DOMAIN mem.saves
  /\ \A k \in DOMAIN mem.saves : mem.saves[k].difficulty = saves[k].difficulty
  /\ \A p \in Players : \A e \in Difficulties : mem.bound[p][e] =
       IF p \in who /\ e = saves[i].difficulty
       THEN [id |-> i, perm |-> permanent] ELSE bound[p][e]

LEMMA BindFacts ==
  ASSUME NEW saves, SavesType(saves), NEW bound, BoundType(bound),
         Matching(saves, bound), NEW i \in DOMAIN saves,
         NEW who \in SUBSET Players, NEW permanent \in BOOLEAN, NEW ref,
         NEW mem, mem = BindToInstance([saves |-> saves, bound |-> bound], who, i, permanent, ref)
  PROVE  BindsTo(saves, bound, who, i, permanent, mem)
<1>1. PICK d : d = saves[i].difficulty
  OBVIOUS
<1>2. d \in Difficulties
  BY <1>1 DEF SavesType, Saves
<1>3. PICK moving : moving = {p \in who : bound[p][d] # NoBind /\ bound[p][d].id # i}
  OBVIOUS
<1>4. PICK gone : gone = {<<p, bound[p][d].id>> : p \in moving}
  OBVIOUS
<1>5. PICK left : left = RemovePlayers(saves, gone, ref)
  OBVIOUS
<1>6. PICK b : b = [id |-> i, perm |-> permanent]
  OBVIOUS
<1>7. PICK joined :
        joined = [left EXCEPT ![i].players = @ \cup who,
                              ![i].canReset = @ /\ ~(permanent /\ who # {})]
  OBVIOUS
<1>a. mem = [saves |-> joined,
             bound |-> [p \in Players |-> IF p \in who THEN [bound[p] EXCEPT ![d] = b]
                                                      ELSE bound[p]]]
  BY <1>1, <1>3, <1>4, <1>5, <1>6, <1>7 DEF BindToInstance
<1>8. PICK after : after = [p \in Players |->
        IF p \in moving THEN [bound[p] EXCEPT ![d] = NoBind] ELSE bound[p]]
  OBVIOUS
<1>9. \A p \in Players : bound[p] \in [Difficulties -> {NoBind} \cup Binds]
  BY DEF BoundType
<1>10. BoundType(after)
  BY <1>2, <1>8, <1>9 DEF BoundType
<1>11. \A p \in Players, e \in Difficulties : after[p][e] =
         IF p \in moving /\ e = d THEN NoBind ELSE bound[p][e]
  BY <1>2, <1>8, <1>9
<1>12. \A p \in Players, e \in Difficulties : bound[p][e] # NoBind =>
         (<<p, bound[p][e].id>> \in gone <=> p \in moving /\ e = d)
  <2> TAKE p \in Players, e \in Difficulties
  <2> HAVE bound[p][e] # NoBind
  <2>1. <<p, bound[p][e].id>> \in gone <=> p \in moving /\ bound[p][e].id = bound[p][d].id
    BY <1>4
  <2>2. p \in moving => bound[p][d] # NoBind
    BY <1>3
  <2>3. saves[bound[p][e].id].difficulty = e
    BY DEF Matching
  <2>4. p \in moving => saves[bound[p][d].id].difficulty = d
    BY <1>2, <2>2 DEF Matching
  <2> QED
    BY <2>1, <2>3, <2>4
<1>13. Matching(left, after)
  <2>1. \A p \in Players, d1 \in Difficulties : after[p][d1] =
          IF bound[p][d1] # NoBind /\ <<p, bound[p][d1].id>> \in gone
          THEN NoBind ELSE bound[p][d1]
    <3> TAKE p \in Players, e \in Difficulties
    <3>1. CASE bound[p][e] = NoBind
      BY <1>11, <3>1
    <3>2. CASE bound[p][e] # NoBind
      BY <1>11, <1>12, <3>2
    <3> QED
      BY <3>1, <3>2
  <2> QED
    BY <1>5, <1>10, <2>1, LeaveMatch
<1>14. /\ SavesType(left)
       /\ DOMAIN left \subseteq DOMAIN saves
       /\ \A k \in DOMAIN saves : k \notin DOMAIN left => \E p \in Players : <<p, k>> \in gone
       /\ \A k \in DOMAIN left : left[k].difficulty = saves[k].difficulty
  BY <1>5, RemovePlayersFacts
<1>15. i \in DOMAIN left
  BY <1>3, <1>4, <1>14
<1>16. left[i].difficulty = d
  BY <1>1, <1>14, <1>15
<1>17. \A p \in who : after[p][left[i].difficulty] = NoBind \/ after[p][left[i].difficulty].id = i
  BY <1>2, <1>3, <1>11, <1>16
<1>18. mem.saves = joined
       /\ mem.bound = [p \in Players |-> IF p \in who THEN [bound[p] EXCEPT ![d] = b] ELSE bound[p]]
  BY <1>a
<1>19. b \in Binds
  BY <1>6 DEF Binds, SavesType
<1>20. BoundType(mem.bound)
  BY <1>2, <1>9, <1>18, <1>19 DEF BoundType
<1>21. \A p \in Players : \A e \in Difficulties :
         mem.bound[p][e] = IF p \in who /\ e = d THEN b ELSE bound[p][e]
  BY <1>2, <1>9, <1>18
<1>22. /\ DOMAIN joined = DOMAIN left
       /\ \A k \in DOMAIN left : k # i => joined[k] = left[k]
       /\ joined[i].difficulty = left[i].difficulty
       /\ joined[i].players = left[i].players \cup who
       /\ joined[i].canReset => left[i].canReset /\ ~(permanent /\ who # {})
       /\ joined[i] \in Saves
  BY <1>7, <1>14, <1>15 DEF SavesType, Saves
<1>23. SavesType(joined)
  BY <1>7, <1>14, <1>22 DEF SavesType
<1>24. PICK binds : binds = mem.bound
  OBVIOUS
<1>25. \A p \in Players : \A e \in Difficulties : binds[p][e] =
         IF p \in who /\ e = left[i].difficulty THEN b ELSE after[p][e]
  <2> TAKE p \in Players
  <2> TAKE e \in Difficulties
  <2>1. p \in moving => p \in who
    BY <1>3
  <2> QED
    BY <1>6, <1>11, <1>16, <1>21, <1>24, <2>1
<1>26. Matching(joined, binds)
  <2>1. BoundType(binds)
    BY <1>20, <1>24
  <2>2. Joins(left, after, i, who, permanent, joined, binds)
    BY <1>6, <1>15, <1>17, <1>22, <1>25 DEF Joins
  <2> QED
    BY <1>10, <1>13, <1>14, <1>23, <2>1, <2>2, JoinMatch
<1>27. DOMAIN joined \subseteq DOMAIN saves /\ i \in DOMAIN joined
  BY <1>14, <1>15, <1>22
<1>28. \A k \in DOMAIN joined : joined[k].difficulty = saves[k].difficulty
  BY <1>14, <1>22
<1> QED
  BY <1>1, <1>6, <1>18, <1>20, <1>21, <1>23, <1>24, <1>26, <1>27, <1>28 DEF BindsTo

AddsSave(saves, bound, i, d, added) ==
  /\ SavesType(added) /\ Matching(added, bound)
  /\ DOMAIN added = DOMAIN saves \cup ({i} \ {0})
  /\ \A k \in DOMAIN saves : added[k] = saves[k]
  /\ i \in DOMAIN added \ DOMAIN saves => added[i].difficulty = d
  /\ added # saves <=> i \notin DOMAIN saves \cup {0}

LEMMA AddSaveFacts ==
  ASSUME NEW saves, SavesType(saves), NEW bound, BoundType(bound), Matching(saves, bound),
         NEW i \in Ids, NEW d \in Difficulties, NEW added,
         added = AddInstanceSave(saves, i, d, TRUE)
  PROVE  AddsSave(saves, bound, i, d, added)
<1>1. CASE i \in DOMAIN saves \cup {0}
  BY <1>1 DEF AddInstanceSave, AddsSave
<1>2. CASE i \notin DOMAIN saves \cup {0}
  <2>1. PICK s : s = [difficulty |-> d, players |-> {}, canReset |-> TRUE]
    OBVIOUS
  <2>2. s \in Saves /\ s.difficulty = d /\ s.players = {}
    BY <2>1 DEF Saves
  <2>3. added = [k \in DOMAIN saves \cup {i} |-> IF k = i THEN s ELSE saves[k]]
    BY <1>2, <2>1 DEF AddInstanceSave, With
  <2>4. /\ DOMAIN added = DOMAIN saves \cup {i} /\ added[i] = s
        /\ \A k \in DOMAIN saves : added[k] = saves[k]
    BY <1>2, <2>3
  <2>5. SavesType(added)
    BY <1>2, <2>2, <2>3 DEF SavesType
  <2>6. ASSUME NEW p \in Players, NEW e \in Difficulties, bound[p][e] # NoBind
        PROVE  /\ bound[p][e].id \in DOMAIN added
               /\ added[bound[p][e].id].difficulty = e
               /\ p \in added[bound[p][e].id].players
               /\ added[bound[p][e].id].canReset => ~bound[p][e].perm
    <3>1. /\ bound[p][e].id \in DOMAIN saves
          /\ saves[bound[p][e].id].difficulty = e
          /\ p \in saves[bound[p][e].id].players
          /\ saves[bound[p][e].id].canReset => ~bound[p][e].perm
      BY <2>6 DEF Matching
    <3> QED
      BY <2>4, <3>1
  <2>7. ASSUME NEW k \in DOMAIN added, NEW p \in added[k].players
        PROVE  bound[p][added[k].difficulty] # NoBind /\ bound[p][added[k].difficulty].id = k
    <3>1. k \in DOMAIN saves /\ added[k] = saves[k]
      BY <2>2, <2>4
    <3>2. p \in saves[k].players
      BY <2>7, <3>1
    <3>3. bound[p][saves[k].difficulty] # NoBind /\ bound[p][saves[k].difficulty].id = k
      BY <3>1, <3>2 DEF Matching
    <3> QED
      BY <3>1, <3>3
  <2>8. Matching(added, bound)
    BY <2>6, <2>7 DEF Matching
  <2>9. added # saves
    BY <1>2, <2>4
  <2> QED
    BY <1>2, <2>2, <2>4, <2>5, <2>8, <2>9 DEF AddsSave
<1> QED
  BY <1>1, <1>2

\* A login lists the player in the saves of its rows, one for a difficulty.
LEMMA ListingFacts ==
  ASSUME BaseInv, NEW p \in Players, NEW listed, listed = Listing(p)
  PROVE  /\ SavesType(listed)
         /\ DOMAIN listed = DOMAIN m_instanceSaveById \cup {r.instance : r \in LoadRows(p)}
         /\ \A r \in LoadRows(p) : /\ listed[r.instance].difficulty = RowDifficulty(r)
                                   /\ p \in listed[r.instance].players
                                   /\ listed[r.instance].canReset => ~r.permanent
         /\ \A i \in DOMAIN m_instanceSaveById :
              /\ listed[i].difficulty = m_instanceSaveById[i].difficulty
              /\ listed[i].canReset => m_instanceSaveById[i].canReset
              /\ m_instanceSaveById[i].players \subseteq listed[i].players
         /\ \A i \in DOMAIN listed : \A q \in listed[i].players :
              \/ i \in DOMAIN m_instanceSaveById /\ q \in m_instanceSaveById[i].players
              \/ q = p /\ \E r \in LoadRows(p) : r.instance = i
<1>1. PICK saves : saves = m_instanceSaveById
  OBVIOUS
<1>2. PICK rows : rows = LoadRows(p)
  OBVIOUS
<1>3. rows \subseteq HolderRows /\ \A r, s \in rows : r.instance = s.instance => r = s
  BY <1>2 DEF LoadRows, BaseInv, TypeOK, TableType, MapsType, SessionType, MemoryType, Keys
<1>4. DOMAIN saves \subseteq Ids \ {0} /\ \A i \in DOMAIN saves : saves[i] \in Saves
  BY <1>1 DEF BaseInv, TypeOK, TableType, MapsType, SessionType, MemoryType, SavesType
<1> DEFINE of(i) == {r \in rows : r.instance = i}
           there(i) == i \in DOMAIN saves
           entry(i) ==
             [difficulty |-> IF there(i) THEN saves[i].difficulty
                             ELSE (CHOOSE r \in of(i) : TRUE).difficulty,
              players |-> (IF there(i) THEN saves[i].players ELSE {})
                            \cup {q \in {p} : of(i) # {}},
              canReset |-> (there(i) => saves[i].canReset) /\ \A r \in of(i) : ~r.permanent]
<1>5. listed = [i \in DOMAIN saves \cup {r.instance : r \in rows} |-> entry(i)]
  BY <1>1, <1>2 DEF Listing
<1>6. DOMAIN listed = DOMAIN saves \cup {r.instance : r \in rows}
  BY <1>5
<1>7. \A i \in DOMAIN listed : listed[i] = entry(i)
  BY <1>5
<1>8. ASSUME NEW i \in DOMAIN listed
      PROVE  /\ listed[i] \in Saves
             /\ i \in DOMAIN saves => /\ listed[i].difficulty = saves[i].difficulty
                                      /\ listed[i].canReset => saves[i].canReset
                                      /\ saves[i].players \subseteq listed[i].players
             /\ \A q \in listed[i].players :
                  (i \in DOMAIN saves /\ q \in saves[i].players) \/ (q = p /\ of(i) # {})
             /\ of(i) # {} => p \in listed[i].players
             /\ \A r \in of(i) : /\ listed[i].canReset => ~r.permanent
                                 /\ i \notin DOMAIN saves => listed[i].difficulty = r.difficulty
  <2>1. /\ listed[i].difficulty = IF there(i) THEN saves[i].difficulty
                                  ELSE (CHOOSE r \in of(i) : TRUE).difficulty
        /\ listed[i].players = (IF there(i) THEN saves[i].players ELSE {})
                                 \cup {q \in {p} : of(i) # {}}
    BY <1>7
  <2>2. listed[i].canReset = ((there(i) => saves[i].canReset) /\ \A r \in of(i) : ~r.permanent)
    BY <1>7
  <2>3. listed[i] = [difficulty |-> listed[i].difficulty, players |-> listed[i].players,
                     canReset |-> listed[i].canReset]
    BY <1>7
  <2>4. ASSUME ~there(i)
        PROVE  /\ listed[i].difficulty \in Difficulties
               /\ \A r \in of(i) : listed[i].difficulty = r.difficulty
    <3>1. PICK r \in rows : r.instance = i
      BY <1>6, <2>4
    <3>2. of(i) = {r}
      BY <1>3, <3>1
    <3>3. (CHOOSE s \in of(i) : TRUE) = r
      BY <3>2
    <3>4. listed[i].difficulty = r.difficulty
      BY <2>1, <2>4, <3>3
    <3>5. r.difficulty \in Difficulties
      BY <1>3 DEF HolderRows
    <3> QED
      BY <3>2, <3>4, <3>5
  <2>5. listed[i].difficulty \in Difficulties
    BY <1>4, <2>1, <2>4 DEF Saves
  <2>6. listed[i].players \in SUBSET Players
    BY <1>4, <2>1 DEF Saves
  <2>7. listed[i].canReset \in BOOLEAN
    BY <2>2
  <2>8. listed[i] \in Saves
    BY <2>3, <2>5, <2>6, <2>7 DEF Saves
  <2>9. i \in DOMAIN saves => /\ listed[i].difficulty = saves[i].difficulty
                              /\ saves[i].players \subseteq listed[i].players
    BY <2>1
  <2>10. i \in DOMAIN saves => (listed[i].canReset => saves[i].canReset)
    BY <2>2
  <2>11. /\ \A q \in listed[i].players :
              (i \in DOMAIN saves /\ q \in saves[i].players) \/ (q = p /\ of(i) # {})
         /\ of(i) # {} => p \in listed[i].players
    BY <2>1
  <2>12. \A r \in of(i) : listed[i].canReset => ~r.permanent
    BY <2>2
  <2> HIDE DEF of, there, entry
  <2> QED
    BY <2>4, <2>8, <2>9, <2>10, <2>11, <2>12 DEF there
<1>9. SavesType(listed)
  <2>1. DOMAIN listed \subseteq Ids \ {0}
    BY <1>2, <1>3, <1>4, <1>6 DEF HolderRows, LoadRows
  <2>2. listed = [i \in DOMAIN listed |-> listed[i]]
    BY <1>5
  <2> HIDE DEF entry
  <2> QED
    BY <1>8, <2>1, <2>2 DEF SavesType
<1>10. ASSUME NEW r \in rows
       PROVE  /\ listed[r.instance].difficulty = RowDifficulty(r)
              /\ p \in listed[r.instance].players
              /\ listed[r.instance].canReset => ~r.permanent
  <2>1. r \in of(r.instance) /\ r.instance \in DOMAIN listed
    BY <1>6
  <2> HIDE DEF of
  <2>2. listed[r.instance].difficulty = RowDifficulty(r)
    BY <1>1, <1>8, <2>1 DEF RowDifficulty
  <2> QED
    BY <1>8, <2>1, <2>2
<1>11. \A i \in DOMAIN saves :
         /\ listed[i].difficulty = saves[i].difficulty
         /\ listed[i].canReset => saves[i].canReset
         /\ saves[i].players \subseteq listed[i].players
  <2> HIDE DEF of
  <2> QED
    BY <1>6, <1>8
<1>12. \A i \in DOMAIN listed : \A q \in listed[i].players :
         \/ i \in DOMAIN saves /\ q \in saves[i].players
         \/ q = p /\ \E r \in rows : r.instance = i
  BY <1>8
<1> QED
  BY <1>1, <1>2, <1>6, <1>9, <1>10, <1>11, <1>12

LEMMA LoadedFacts ==
  ASSUME BaseInv, NEW p \in Players, session[p] # "online",
         NEW mem, mem = Loaded(p)
  PROVE  /\ SavesType(mem.saves) /\ BoundType(mem.bound)
         /\ Matching(mem.saves, mem.bound)
         /\ \A q \in Players \ {p} : mem.bound[q] = m_boundInstances[q]
         /\ \A i \in DOMAIN mem.saves :
              \/ /\ i \in DOMAIN m_instanceSaveById
                 /\ mem.saves[i].difficulty = m_instanceSaveById[i].difficulty
              \/ \E r \in holder[p] : r.instance = i /\ mem.saves[i].difficulty = r.difficulty
         /\ \A d \in Difficulties : mem.bound[p][d] # NoBind =>
              \E r \in LoadRows(p) : /\ RowDifficulty(r) = d
                                     /\ mem.bound[p][d] = [id |-> r.instance, perm |-> r.permanent]
         /\ \A r \in LastRows(p) :
              /\ RowDifficulty(r) \in Difficulties
              /\ mem.bound[p][RowDifficulty(r)] = [id |-> r.instance, perm |-> r.permanent]
<1>1. PICK saves : saves = m_instanceSaveById
  OBVIOUS
<1>2. PICK rows : rows = LoadRows(p)
  OBVIOUS
<1>3. PICK last : last = LastRows(p)
  OBVIOUS
<1>4. PICK listed : listed = Listing(p)
  OBVIOUS
<1>5. PICK earlier : earlier = {<<p, r.instance>> : r \in rows \ last}
  OBVIOUS
<1>6. PICK left : left = RemovePlayers(listed, earlier, m_mapRef)
  OBVIOUS
<1>7. rows \subseteq HolderRows /\ \A r, s \in rows : r.instance = s.instance => r = s
  BY <1>2 DEF LoadRows, BaseInv, TypeOK, TableType, MapsType, SessionType, MemoryType, Keys
<1>8. DOMAIN saves \subseteq Ids \ {0} /\ \A i \in DOMAIN saves : saves[i] \in Saves
  BY <1>1 DEF BaseInv, TypeOK, TableType, MapsType, SessionType, MemoryType, SavesType
<1>9. /\ SavesType(listed)
      /\ DOMAIN listed = DOMAIN saves \cup {r.instance : r \in rows}
      /\ \A r \in rows : /\ listed[r.instance].difficulty = RowDifficulty(r)
                         /\ p \in listed[r.instance].players
                         /\ listed[r.instance].canReset => ~r.permanent
      /\ \A i \in DOMAIN saves :
           /\ listed[i].difficulty = saves[i].difficulty
           /\ listed[i].canReset => saves[i].canReset
           /\ saves[i].players \subseteq listed[i].players
      /\ \A i \in DOMAIN listed : \A q \in listed[i].players :
           \/ i \in DOMAIN saves /\ q \in saves[i].players
           \/ q = p /\ \E r \in rows : r.instance = i
  BY <1>1, <1>2, <1>4, ListingFacts
<1>10. /\ SavesType(left)
       /\ DOMAIN left \subseteq DOMAIN listed
       /\ \A i \in DOMAIN listed : i \notin DOMAIN left =>
            \A q \in listed[i].players : <<q, i>> \in earlier
       /\ \A i \in DOMAIN left :
            /\ left[i].difficulty = listed[i].difficulty
            /\ left[i].canReset = listed[i].canReset
            /\ left[i].players = {q \in listed[i].players : <<q, i>> \notin earlier}
  BY <1>6, <1>9, RemovePlayersFacts
<1>11. \A r \in rows : RowDifficulty(r) \in Difficulties /\ r.instance \in Nat
  BY <1>1, <1>7, <1>8, SavesAssumption DEF RowDifficulty, HolderRows, Saves, Ids
<1>12. /\ last \subseteq rows
       /\ \A r, s \in last : RowDifficulty(r) = RowDifficulty(s) => r = s
  <2>1. last \subseteq rows
    BY <1>2, <1>3 DEF LastRows
  <2> SUFFICES ASSUME NEW r \in last, NEW s \in last, RowDifficulty(r) = RowDifficulty(s)
               PROVE  r = s
    BY <2>1
  <2>2. r.instance <= s.instance /\ s.instance <= r.instance
    BY <1>2, <1>3, <2>1 DEF LastRows
  <2> QED
    BY <1>7, <1>11, <2>1, <2>2
<1> DEFINE bindOf(r) == [id |-> r.instance, perm |-> r.permanent]
           bind(d) == {bindOf(r) : r \in {s \in last : RowDifficulty(s) = d}}
<1>13. PICK mine : mine = [d \in Difficulties |->
                            IF bind(d) = {} THEN NoBind ELSE CHOOSE b \in bind(d) : TRUE]
  OBVIOUS
<1>14. mem = [saves |-> left, bound |-> [m_boundInstances EXCEPT ![p] = mine]]
  BY <1>2, <1>3, <1>4, <1>5, <1>6, <1>13 DEF Loaded
<1>15. \A r \in last : mine[RowDifficulty(r)] = bindOf(r)
  <2> TAKE r \in last
  <2>1. bind(RowDifficulty(r)) = {bindOf(r)}
    BY <1>12
  <2> HIDE DEF bind, bindOf
  <2>2. (CHOOSE b \in bind(RowDifficulty(r)) : TRUE) = bindOf(r)
    BY <2>1
  <2>3. RowDifficulty(r) \in Difficulties
    BY <1>11, <1>12
  <2> QED
    BY <1>13, <2>1, <2>2, <2>3
<1>16. \A d \in Difficulties : mine[d] # NoBind => \E r \in last : RowDifficulty(r) = d
  BY <1>13
<1> HIDE DEF bind
<1>17. \A r \in last : /\ bindOf(r) \in Binds /\ bindOf(r) # NoBind
                      /\ bindOf(r).id = r.instance /\ bindOf(r).perm = r.permanent
  <2> TAKE r \in last
  <2>1. bindOf(r) \in Binds
    BY <1>7, <1>12 DEF Binds, HolderRows
  <2>2. NoBind \notin Binds
    BY SavesAssumption DEF Binds, Ids
  <2> QED
    BY <2>1, <2>2
<1> HIDE DEF bindOf
<1>18. mine \in [Difficulties -> {NoBind} \cup Binds]
  <2>1. \A d \in Difficulties : mine[d] \in {NoBind} \cup Binds
    BY <1>15, <1>16, <1>17
  <2> QED
    BY <1>13, <2>1
<1>19. m_boundInstances \in [Players -> [Difficulties -> {NoBind} \cup Binds]]
       /\ m_boundInstances[p] = NoBinds
  BY DEF BaseInv, TypeOK, TableType, MapsType, SessionType, MemoryType, BoundType, OnlyOnline
<1>20. PICK bound : bound = [m_boundInstances EXCEPT ![p] = mine]
  OBVIOUS
<1>21. bound[p] = mine /\ \A q \in Players \ {p} : bound[q] = m_boundInstances[q]
  BY <1>19, <1>20
<1>22. BoundType(bound)
  BY <1>18, <1>19, <1>20 DEF BoundType
<1>23. \A r \in last : <<p, r.instance>> \notin earlier
  BY <1>5, <1>7, <1>12
<1>24. ASSUME NEW q \in Players, NEW d \in Difficulties, bound[q][d] # NoBind
       PROVE  /\ bound[q][d].id \in DOMAIN left
              /\ left[bound[q][d].id].difficulty = d
              /\ q \in left[bound[q][d].id].players
              /\ left[bound[q][d].id].canReset => ~bound[q][d].perm
  <2>1. CASE q = p
    <3>1. PICK r \in last : RowDifficulty(r) = d
      BY <1>16, <1>21, <1>24, <2>1
    <3>2. bound[q][d].id = r.instance /\ bound[q][d].perm = r.permanent
      BY <1>15, <1>17, <1>21, <2>1, <3>1
    <3>3. /\ r.instance \in DOMAIN listed /\ listed[r.instance].difficulty = d
          /\ p \in listed[r.instance].players
          /\ listed[r.instance].canReset => ~r.permanent
      BY <1>9, <1>12, <3>1
    <3>4. r.instance \in DOMAIN left
      BY <1>10, <1>23, <3>3
    <3> QED
      BY <1>10, <1>23, <2>1, <3>2, <3>3, <3>4
  <2>2. CASE q # p
    <3>1. bound[q][d] = m_boundInstances[q][d]
      BY <1>21, <2>2
    <3>2. PICK i : i = bound[q][d].id
      OBVIOUS
    <3>3. /\ i \in DOMAIN saves /\ saves[i].difficulty = d /\ q \in saves[i].players
          /\ saves[i].canReset => ~bound[q][d].perm
      BY <1>1, <1>24, <3>1, <3>2 DEF BaseInv, Matching
    <3>4. /\ i \in DOMAIN listed /\ listed[i].difficulty = d /\ q \in listed[i].players
          /\ listed[i].canReset => ~bound[q][d].perm
      BY <1>9, <3>3
    <3>5. <<q, i>> \notin earlier
      BY <1>5, <2>2
    <3> QED
      BY <1>10, <3>2, <3>4, <3>5
  <2> QED
    BY <2>1, <2>2
<1>25. ASSUME NEW i \in DOMAIN left, NEW q \in left[i].players
       PROVE  bound[q][left[i].difficulty] # NoBind /\ bound[q][left[i].difficulty].id = i
  <2>1. i \in DOMAIN listed /\ q \in listed[i].players /\ <<q, i>> \notin earlier
        /\ left[i].difficulty = listed[i].difficulty
    BY <1>10
  <2>2. CASE i \in DOMAIN saves /\ q \in saves[i].players
    <3>1. /\ m_boundInstances[q][saves[i].difficulty] # NoBind
          /\ m_boundInstances[q][saves[i].difficulty].id = i
      BY <1>1, <2>2 DEF BaseInv, Matching
    <3>2. q \in Players /\ saves[i].difficulty \in Difficulties
      BY <1>8, <2>2 DEF Saves
    <3>3. q # p
      BY <1>19, <3>1, <3>2 DEF NoBinds
    <3>4. bound[q] = m_boundInstances[q]
      BY <1>21, <3>2, <3>3
    <3>5. left[i].difficulty = saves[i].difficulty
      BY <1>9, <2>1, <2>2
    <3> QED
      BY <3>1, <3>4, <3>5
  <2>3. CASE q = p /\ \E r \in rows : r.instance = i
    <3>1. PICK r \in rows : r.instance = i
      BY <2>3
    <3>2. r \in last
      BY <1>5, <2>1, <2>3, <3>1
    <3>3. left[i].difficulty = RowDifficulty(r)
      BY <1>9, <2>1, <3>1
    <3> QED
      BY <1>15, <1>17, <1>21, <2>3, <3>1, <3>2, <3>3
  <2> QED
    BY <1>9, <2>1, <2>2, <2>3
<1>26. Matching(left, bound)
  BY <1>24, <1>25 DEF Matching
<1>27. \A i \in DOMAIN left :
         \/ i \in DOMAIN saves /\ left[i].difficulty = saves[i].difficulty
         \/ \E r \in holder[p] : r.instance = i /\ left[i].difficulty = r.difficulty
  <2> TAKE i \in DOMAIN left
  <2>1. CASE i \in DOMAIN saves
    BY <1>9, <1>10, <2>1
  <2>2. CASE i \notin DOMAIN saves
    <3>1. PICK r \in rows : r.instance = i
      BY <1>9, <1>10, <2>2
    <3>2. left[i].difficulty = r.difficulty
      BY <1>1, <1>9, <1>10, <2>2, <3>1 DEF RowDifficulty
    <3>3. r \in holder[p]
      BY <1>2 DEF LoadRows
    <3> QED
      BY <3>1, <3>2, <3>3
  <2> QED
    BY <2>1, <2>2
<1>28. mem.saves = left /\ mem.bound = bound
  BY <1>14, <1>20
<1>29. \A d \in Difficulties : mem.bound[p][d] # NoBind =>
         \E r \in rows : RowDifficulty(r) = d /\ mem.bound[p][d] = bindOf(r)
  BY <1>12, <1>15, <1>16, <1>21, <1>28
<1>30. \A r \in last : /\ RowDifficulty(r) \in Difficulties
                      /\ mem.bound[p][RowDifficulty(r)] = bindOf(r)
  BY <1>11, <1>12, <1>15, <1>21, <1>28
<1>31. \A q \in Players \ {p} : mem.bound[q] = m_boundInstances[q]
  BY <1>21, <1>28
<1> QED
  BY <1>1, <1>2, <1>3, <1>10, <1>22, <1>26, <1>27, <1>28, <1>29, <1>30, <1>31 DEF bindOf

-----------------------------------------------------------------------------
(* The instance of a player, its map, and AddPlayerToMap.                  *)

LEMMA MinFacts ==
  ASSUME NEW S \in SUBSET Nat, S # {}
  PROVE  Min(S) \in S
<1>1. PICK x \in S : \A y \in S : ~(<<y, x>> \in OpToRel(<, Nat))
  BY NatLessThanWellFounded, WFMin
<1>2. \A y \in S : x <= y
  <2> SUFFICES ASSUME NEW y \in S, y < x PROVE FALSE
    OBVIOUS
  <2>1. <<y, x>> \in Nat \X Nat /\ <<y, x>>[1] < <<y, x>>[2]
    OBVIOUS
  <2> QED
    BY <1>1, <2>1 DEF OpToRel
<1> QED
  BY <1>2 DEF Min

LEMMA InstanceForFacts ==
  ASSUME NEW bound, BoundType(bound), NEW p \in Players, NEW d \in Difficulties,
         NEW i, i = InstanceFor(bound, p, d), i # NoId
  PROVE  /\ i \in Ids
         /\ bound[p][d] # NoBind => i = bound[p][d].id
         /\ bound[p][d] = NoBind => i \notin used
<1>1. CASE bound[p][d] # NoBind
  <2>1. bound[p][d] \in Binds
    BY <1>1 DEF BoundType
  <2> QED
    BY <1>1, <2>1 DEF InstanceFor, Binds
<1>2. CASE bound[p][d] = NoBind
  <2>1. i = Min(Ids \ used) /\ Ids \ used # {}
    BY <1>2 DEF InstanceFor
  <2>2. Ids \ used \in SUBSET Nat
    BY SavesAssumption DEF Ids
  <2>3. i \in Ids \ used
    BY <2>1, <2>2, MinFacts
  <2> QED
    BY <1>2, <2>3
<1> QED
  BY <1>1, <1>2

FindsMap(saves, bound, p, d, i, ms) ==
  /\ DOMAIN ms = DOMAIN maps \cup {i}
  /\ ms \in [DOMAIN ms -> MapType]
  /\ \A k \in DOMAIN maps : ms[k] = maps[k]
  /\ i \notin DOMAIN maps /\ bound[p][d] # NoBind => ms[i].difficulty = saves[i].difficulty
  /\ i \notin DOMAIN maps /\ bound[p][d] = NoBind => ms[i].difficulty = d

LEMMA MapsWithFacts ==
  ASSUME TypeOK, NEW saves, SavesType(saves), NEW bound, BoundType(bound),
         Matching(saves, bound), NEW p \in Players, NEW d \in Difficulties,
         NEW i \in Ids, bound[p][d] # NoBind => i = bound[p][d].id,
         NEW ms, ms = MapsWith([saves |-> saves, bound |-> bound], p, d, i)
  PROVE  FindsMap(saves, bound, p, d, i, ms)
<1> USE DEF FindsMap
<1>1. maps \in [DOMAIN maps -> MapType]
  BY DEF TypeOK, TableType, MapsType, SessionType, MemoryType
<1>2. CASE i \in DOMAIN maps
  BY <1>1, <1>2 DEF MapsWith
<1>3. CASE i \notin DOMAIN maps
  <2>1. PICK e : e = IF bound[p][d] # NoBind THEN saves[i].difficulty ELSE d
    OBVIOUS
  <2>2. bound[p][d] # NoBind => i \in DOMAIN saves
    BY DEF Matching
  <2>3. e \in Difficulties
    BY <2>1, <2>2 DEF SavesType, Saves
  <2>4. PICK m : m = [unloading |-> TRUE, difficulty |-> e]
    OBVIOUS
  <2>5. m \in MapType /\ m.difficulty = e
    BY <2>3, <2>4 DEF MapType
  <2>6. ms = [k \in DOMAIN maps \cup {i} |-> IF k = i THEN m ELSE maps[k]]
    BY <1>3, <2>1, <2>4 DEF MapsWith, With
  <2> QED
    BY <1>1, <1>3, <2>1, <2>5, <2>6
<1> QED
  BY <1>2, <1>3

\* What AddPlayerToMap makes of a consistent memory: a save of i, of the
\* difficulty of the map if it is new, with its row, and perhaps a solo bind
\* to it that is queued.
Adds(saves, bound, p, i, ms) ==
  /\ SavesType(m_instanceSaveById') /\ BoundType(m_boundInstances')
  /\ Matching(m_instanceSaveById', m_boundInstances')
  /\ DOMAIN m_instanceSaveById' \subseteq DOMAIN saves \cup {i}
  /\ \A k \in DOMAIN m_instanceSaveById' \cap DOMAIN saves :
       m_instanceSaveById'[k].difficulty = saves[k].difficulty
  /\ i \in DOMAIN m_instanceSaveById' \ DOMAIN saves =>
       m_instanceSaveById'[i].difficulty = ms[i].difficulty
  /\ DOMAIN instance' = DOMAIN instance \cup ({i} \ (DOMAIN saves \cup {0}))
  /\ instance' \in [DOMAIN instance' -> Difficulties]
  /\ \A k \in DOMAIN instance : instance'[k] = instance[k]
  /\ i \in DOMAIN instance' \ DOMAIN instance => instance'[i] = ms[i].difficulty
  /\ DOMAIN maps' = DOMAIN ms /\ maps' \in [DOMAIN maps' -> MapType]
  /\ \A k \in DOMAIN ms : maps'[k].difficulty = ms[k].difficulty
  /\ m_mapRef' \in [Players -> DOMAIN ms \cup {NoId}]
  /\ \A q \in Players \ {p} : m_mapRef'[q] = m_mapRef[q]
  /\ away' \subseteq away \cup {p}

Solos(saves, bound, p, i, ms) ==
  /\ bound[p][ms[i].difficulty] = NoBind
  /\ i \in Ids \ {0}
  /\ \E e \in Difficulties :
       /\ e = IF i \in DOMAIN saves THEN saves[i].difficulty ELSE ms[i].difficulty
       /\ \A q \in Players : \A f \in Difficulties : m_boundInstances'[q][f] =
            IF q = p /\ f = e THEN [id |-> i, perm |-> FALSE] ELSE bound[q][f]
       /\ \/ queue' = queue /\ bound[p][e] = [id |-> i, perm |-> FALSE]
          \/ /\ bound[p][e] = NoBind
             /\ queue' = Append(queue, Statement("insert", p, NoId, i, FALSE))
          \/ /\ bound[p][e] # NoBind
             /\ queue' = Append(queue, Statement("update", p, bound[p][e].id, i, FALSE))

LEMMA AddFacts ==
  ASSUME TypeOK, NEW saves, SavesType(saves), NEW bound, BoundType(bound),
         Matching(saves, bound), NEW p \in Players, NEW i \in Ids,
         NEW ms, ms \in [DOMAIN ms -> MapType], i \in DOMAIN ms,
         DOMAIN maps \subseteq DOMAIN ms, NEW back \in DOMAIN ms \cup {NoId},
         AddPlayerToMap([saves |-> saves, bound |-> bound], p, i, ms, back)
  PROVE  /\ Adds(saves, bound, p, i, ms)
         /\ \/ Solos(saves, bound, p, i, ms)
            \/ queue' = queue /\ m_boundInstances' = bound
<1>1. PICK d : d = ms[i].difficulty
  OBVIOUS
<1>2. d \in Difficulties
  BY <1>1 DEF MapType
<1>3. PICK ref : ref = [m_mapRef EXCEPT ![p] = i]
  OBVIOUS
<1>4. PICK added : added = AddInstanceSave(saves, i, d, TRUE)
  OBVIOUS
<1>5. PICK new : new = (added # saves)
  OBVIOUS
<1>6. PICK accepted : accepted = (bound[p][d] = NoBind \/ bound[p][d].id = i)
  OBVIOUS
<1>7. PICK binds : binds = (bound[p][d] = NoBind /\ i # 0)
  OBVIOUS
<1>8. PICK with : with = [saves |-> added, bound |-> bound]
  OBVIOUS
<1>9. PICK mem : mem = BindToInstance(with, {p}, i, FALSE, ref)
  OBVIOUS
<1>10. /\ instance' = IF new /\ i \notin DOMAIN instance THEN With(instance, i, d) ELSE instance
       /\ Store(IF binds THEN mem ELSE with)
       /\ queue' = IF binds /\ Changes(with, p, i, FALSE)
                   THEN Append(queue, BindStatement(with, p, i, FALSE)) ELSE queue
       /\ maps' = IF accepted THEN [ms EXCEPT ![i].unloading = FALSE] ELSE ms
       /\ m_mapRef' = IF accepted THEN ref ELSE [m_mapRef EXCEPT ![p] = back]
       /\ away' = IF accepted THEN away \ {p} ELSE away \cup {p}
  BY <1>1, <1>3, <1>4, <1>5, <1>6, <1>7, <1>8, <1>9 DEF AddPlayerToMap
<1>11. /\ SavesType(added) /\ Matching(added, bound)
       /\ DOMAIN added = DOMAIN saves \cup ({i} \ {0})
       /\ \A k \in DOMAIN saves : added[k] = saves[k]
       /\ i \in DOMAIN added \ DOMAIN saves => added[i].difficulty = d
       /\ added # saves <=> i \notin DOMAIN saves \cup {0}
  <2>1. AddsSave(saves, bound, i, d, added)
    BY <1>2, <1>4, AddSaveFacts
  <2> QED
    BY <2>1 DEF AddsSave
<1>12. /\ DOMAIN instance' = DOMAIN instance \cup ({i} \ (DOMAIN saves \cup {0}))
       /\ instance' \in [DOMAIN instance' -> Difficulties]
       /\ \A k \in DOMAIN instance : instance'[k] = instance[k]
       /\ i \in DOMAIN instance' \ DOMAIN instance => instance'[i] = d
  <2>1. instance \in [DOMAIN instance -> Difficulties]
    BY DEF TypeOK, TableType, MapsType, SessionType, MemoryType
  <2>2. CASE new /\ i \notin DOMAIN instance
    BY <1>2, <1>5, <1>10, <1>11, <2>1, <2>2 DEF With
  <2>3. CASE ~(new /\ i \notin DOMAIN instance)
    BY <1>5, <1>10, <1>11, <2>1, <2>3
  <2> QED
    BY <2>2, <2>3
<1>13. /\ DOMAIN maps' = DOMAIN ms /\ maps' \in [DOMAIN maps' -> MapType]
       /\ \A k \in DOMAIN ms : maps'[k].difficulty = ms[k].difficulty
  BY <1>10 DEF MapType
<1>14. /\ m_mapRef' \in [Players -> DOMAIN ms \cup {NoId}]
       /\ \A q \in Players \ {p} : m_mapRef'[q] = m_mapRef[q]
       /\ away' \subseteq away \cup {p}
  BY <1>3, <1>10 DEF TypeOK, TableType, MapsType, SessionType, MemoryType
<1>15. CASE binds
  <2>1. i \in DOMAIN added
    BY <1>7, <1>11, <1>15
  <2>2. PICK e : e = added[i].difficulty
    OBVIOUS
  <2>3. e \in Difficulties /\ e = IF i \in DOMAIN saves THEN saves[i].difficulty ELSE d
    BY <1>11, <2>1, <2>2 DEF SavesType, Saves
  <2>4. /\ SavesType(mem.saves) /\ BoundType(mem.bound)
        /\ Matching(mem.saves, mem.bound)
        /\ DOMAIN mem.saves \subseteq DOMAIN added
        /\ \A k \in DOMAIN mem.saves : mem.saves[k].difficulty = added[k].difficulty
        /\ \A q \in Players : \A f \in Difficulties : mem.bound[q][f] =
              IF q \in {p} /\ f = added[i].difficulty
              THEN [id |-> i, perm |-> FALSE] ELSE bound[q][f]
    <3>1. {p} \in SUBSET Players /\ FALSE \in BOOLEAN
      OBVIOUS
    <3>2. mem = BindToInstance([saves |-> added, bound |-> bound], {p}, i, FALSE, ref)
      BY <1>8, <1>9
    <3>3. BindsTo(added, bound, {p}, i, FALSE, mem)
      BY <1>11, <2>1, <3>1, <3>2, BindFacts
    <3> QED
      BY <3>3 DEF BindsTo
  <2>5. m_instanceSaveById' = mem.saves /\ m_boundInstances' = mem.bound
    BY <1>10, <1>15 DEF Store
  <2>6. Adds(saves, bound, p, i, ms)
    <3>1. DOMAIN mem.saves \subseteq DOMAIN saves \cup {i}
      BY <1>11, <2>4
    <3>2. \A k \in DOMAIN mem.saves \cap DOMAIN saves :
            mem.saves[k].difficulty = saves[k].difficulty
      BY <1>11, <2>4
    <3>3. i \in DOMAIN mem.saves \ DOMAIN saves => mem.saves[i].difficulty = d
      BY <1>11, <2>1, <2>4
    <3> QED
      BY <1>1, <1>12, <1>13, <1>14, <2>4, <2>5, <3>1, <3>2, <3>3 DEF Adds
  <2>7. \/ queue' = queue /\ bound[p][e] = [id |-> i, perm |-> FALSE]
        \/ /\ bound[p][e] = NoBind
           /\ queue' = Append(queue, Statement("insert", p, NoId, i, FALSE))
        \/ /\ bound[p][e] # NoBind
           /\ queue' = Append(queue, Statement("update", p, bound[p][e].id, i, FALSE))
    <3>1. with.bound[p][with.saves[i].difficulty] = bound[p][e]
      BY <1>8, <2>2
    <3>2. BindStatement(with, p, i, FALSE) =
            IF bound[p][e] = NoBind THEN Statement("insert", p, NoId, i, FALSE)
            ELSE Statement("update", p, bound[p][e].id, i, FALSE)
      BY <3>1 DEF BindStatement
    <3>3. Changes(with, p, i, FALSE) <=> bound[p][e] # [id |-> i, perm |-> FALSE]
      BY <3>1 DEF Changes
    <3> QED
      BY <1>10, <1>15, <3>2, <3>3
  <2>8. \A q \in Players : \A f \in Difficulties : m_boundInstances'[q][f] =
          IF q = p /\ f = e THEN [id |-> i, perm |-> FALSE] ELSE bound[q][f]
    BY <2>2, <2>4, <2>5
  <2>9. Solos(saves, bound, p, i, ms)
    BY <1>1, <1>7, <1>15, <2>3, <2>7, <2>8 DEF Solos
  <2> QED
    BY <2>6, <2>9
<1>16. CASE ~binds
  <2>1. m_instanceSaveById' = added /\ m_boundInstances' = bound
    BY <1>8, <1>10, <1>16 DEF Store
  <2>2. queue' = queue
    BY <1>10, <1>16
  <2>3. Adds(saves, bound, p, i, ms)
    BY <1>1, <1>11, <1>12, <1>13, <1>14, <2>1 DEF Adds
  <2> QED
    BY <2>1, <2>2, <2>3
<1> QED
  BY <1>15, <1>16

-----------------------------------------------------------------------------
(* The queue and the tables.                                               *)

LEMMA ExecutedFacts ==
  ASSUME NEW rows \in SUBSET Rows, NEW s \in Statements, Enters(s) => s.new \in Ids
  PROVE  /\ Executed(rows, s) \in SUBSET Rows
         /\ Key(rows) => Key(Executed(rows, s))
         /\ \A r \in Executed(rows, s) : r \in rows \/ (Enters(s) /\ r = Row(s.guid, s.new, s.permanent))
         /\ s.op = "login" => Executed(rows, s) = rows
         /\ \A p \in Players \ {s.guid} : RowsOf(Executed(rows, s), p) = RowsOf(rows, p)
<1>1. PICK r0 : r0 = Row(s.guid, s.new, s.permanent)
  OBVIOUS
<1>2. /\ r0.guid = s.guid /\ r0.instance = s.new
      /\ Enters(s) => r0 \in Rows
  BY <1>1 DEF Row, Rows, Statements
<1> DEFINE has(i) == \E r \in rows : r.guid = s.guid /\ r.instance = i
<1>3. PICK others : others = {r \in rows : r.guid # s.guid \/ r.instance # s.old}
  OBVIOUS
<1>4. s.op \in {"insert", "update", "delete", "login"}
  BY DEF Statements
<1>5. CASE s.op = "insert"
  <2>1. Executed(rows, s) = IF has(s.new) THEN rows ELSE rows \cup {r0}
    BY <1>1, <1>5 DEF Executed
  <2>2. Enters(s)
    BY <1>5 DEF Enters
  <2> QED
    BY <1>1, <1>2, <1>5, <2>1, <2>2 DEF Key, RowsOf
<1>6. CASE s.op = "update"
  <2>1. Executed(rows, s) = IF has(s.old) /\ (s.new = s.old \/ ~has(s.new))
                            THEN others \cup {r0} ELSE rows
    BY <1>1, <1>3, <1>6 DEF Executed
  <2>2. Enters(s)
    BY <1>6 DEF Enters
  <2>3. CASE has(s.old) /\ (s.new = s.old \/ ~has(s.new))
    <3>1. \A r \in others : r.guid = s.guid => r.instance # s.new
      BY <1>3, <2>3
    <3> HIDE DEF has
    <3>2. Executed(rows, s) = others \cup {r0}
      BY <2>1, <2>3
    <3>3. others \subseteq rows
      BY <1>3
    <3>4. Key(rows) => Key(others \cup {r0})
      BY <1>2, <3>1, <3>3 DEF Key
    <3>5. \A p \in Players \ {s.guid} : RowsOf(others \cup {r0}, p) = RowsOf(rows, p)
      BY <1>2, <1>3 DEF RowsOf
    <3> QED
      BY <1>1, <1>2, <1>6, <2>2, <3>2, <3>3, <3>4, <3>5
  <2>4. CASE ~(has(s.old) /\ (s.new = s.old \/ ~has(s.new)))
    BY <1>6, <2>1, <2>4
  <2> QED
    BY <2>3, <2>4
<1>7. CASE s.op = "delete"
  <2>1. Executed(rows, s) = others
    BY <1>3, <1>7 DEF Executed
  <2> QED
    BY <1>3, <1>7, <2>1 DEF Key, RowsOf
<1>8. CASE s.op = "login"
  <2>1. Executed(rows, s) = rows
    BY <1>8 DEF Executed
  <2> QED
    BY <2>1
<1> QED
  BY <1>4, <1>5, <1>6, <1>7, <1>8

\* What the handlers do to the queue: statements of players online.
Extended ==
  /\ queue' \in Seq(Statements) /\ Len(queue) <= Len(queue')
  /\ \A n \in DOMAIN queue : queue'[n] = queue[n]
  /\ \A n \in DOMAIN queue' \ DOMAIN queue :
       /\ queue'[n].op # "login" /\ session'[queue'[n].guid] = "online"
       /\ Enters(queue'[n]) => queue'[n].new \in Ids

LEMMA SameQueue ==
  ASSUME TypeOK, queue' = queue
  PROVE  Extended
BY DEF TypeOK, QueueType, Extended

LEMMA AppendedQueue ==
  ASSUME TypeOK, NEW s \in Statements, queue' = Append(queue, s), s.op # "login",
         session'[s.guid] = "online", Enters(s) => s.new \in Ids
  PROVE  Extended
<1>1. queue \in Seq(Statements)
  BY DEF TypeOK, QueueType
<1>2. /\ queue' \in Seq(Statements) /\ Len(queue') = Len(queue) + 1
      /\ \A n \in 1..Len(queue) : queue'[n] = queue[n]
      /\ queue'[Len(queue) + 1] = s
  BY <1>1
<1>3. DOMAIN queue = 1..Len(queue) /\ DOMAIN queue' = 1..Len(queue) + 1 /\ Len(queue) \in Nat
  BY <1>1, <1>2
<1> QED
  BY <1>2, <1>3 DEF Extended

LEMMA QueueStep ==
  ASSUME BaseInv, Extended,
         \A q \in Players : session[q] = "loading" => session'[q] = "loading",
         \A q \in Players : session'[q] = "loaded" => session[q] = "loaded"
  PROVE  QueueType' /\ Queued'
<1>1. queue \in Seq(Statements) /\ queue' \in Seq(Statements) /\ Len(queue) <= Len(queue')
  BY DEF BaseInv, TypeOK, QueueType, Extended
<1>2. DOMAIN queue = 1..Len(queue) /\ DOMAIN queue' = 1..Len(queue')
      /\ Len(queue) \in Nat /\ Len(queue') \in Nat
  BY <1>1
<1>3. \A n \in DOMAIN queue' : queue'[n].guid \in Players
  <2> TAKE n \in DOMAIN queue'
  <2>1. queue'[n] \in Statements
    BY <1>1, <1>2
  <2> QED
    BY <2>1 DEF Statements
<1>4. \A n \in DOMAIN queue : queue'[n] = queue[n]
  BY DEF Extended
<1>5. \A n \in DOMAIN queue' \ DOMAIN queue :
        /\ queue'[n].op # "login" /\ session'[queue'[n].guid] = "online"
        /\ Enters(queue'[n]) => queue'[n].new \in Ids
  BY DEF Extended
<1>6. QueueType'
  <2>1. ASSUME NEW n \in DOMAIN queue', Enters(queue'[n]) PROVE queue'[n].new \in Ids
    <3>1. CASE n \in DOMAIN queue
      BY <1>4, <2>1, <3>1 DEF BaseInv, TypeOK, QueueType
    <3>2. CASE n \notin DOMAIN queue
      BY <1>5, <2>1, <3>2
    <3> QED
      BY <3>1, <3>2
  <2> QED
    BY <1>1, <2>1 DEF QueueType, Enters
<1>7. ASSUME NEW n \in DOMAIN queue', queue'[n].op = "login"
      PROVE  session'[queue'[n].guid] = "loading" /\ n \in DOMAIN queue
  <2>1. n \in DOMAIN queue /\ queue'[n] = queue[n]
    BY <1>4, <1>5, <1>7
  <2> QED
    BY <1>3, <1>7, <2>1 DEF BaseInv, Queued
<1>8. ASSUME NEW m \in DOMAIN queue', NEW n \in DOMAIN queue', m < n, queue'[m].op = "login"
      PROVE  queue'[n].guid # queue'[m].guid
  <2>1. m \in DOMAIN queue /\ session'[queue'[m].guid] = "loading"
    BY <1>7, <1>8
  <2>2. CASE n \in DOMAIN queue
    BY <1>4, <1>8, <2>1, <2>2 DEF BaseInv, Queued
  <2>3. CASE n \notin DOMAIN queue
    BY <1>5, <2>1, <2>3
  <2> QED
    BY <2>2, <2>3
<1>9. ASSUME NEW p \in Players, session'[p] = "loaded", NEW n \in DOMAIN queue'
      PROVE  queue'[n].guid # p
  <2>1. CASE n \in DOMAIN queue
    BY <1>4, <1>9, <2>1 DEF BaseInv, Queued
  <2>2. CASE n \notin DOMAIN queue
    BY <1>5, <1>9, <2>2
  <2> QED
    BY <2>1, <2>2
<1> QED
  BY <1>6, <1>7, <1>8, <1>9 DEF Queued

LEMMA Init_Base ==
  ASSUME Init
  PROVE  BaseInv
<1> USE DEF Init
<1>1. TableType /\ QueueType
  BY DEF TableType, QueueType, Nothing
<1>2. NoBinds \in [Difficulties -> {NoBind} \cup Binds]
  BY DEF NoBinds
<1>3. MemoryType
  BY <1>2 DEF MemoryType, SavesType, BoundType, Nothing
<1>4. MapsType /\ SessionType
  BY DEF MapsType, SessionType, Nothing
<1>5. TypeOK
  BY <1>1, <1>3, <1>4, SavesAssumption DEF TypeOK, Ids
<1>6. Matching(m_instanceSaveById, m_boundInstances)
  BY DEF Matching, Nothing, NoBinds
<1>7. Keys /\ OnlyOnline /\ Queued
  BY DEF Keys, Key, OnlyOnline, Queued
<1> QED
  BY <1>5, <1>6, <1>7 DEF BaseInv

LEMMA Work_Base ==
  ASSUME BaseInv, Work
  PROVE  BaseInv'
<1>1. PICK s : s = Head(queue)
  OBVIOUS
<1>2. /\ queue # <<>> /\ queue' = Tail(queue)
      /\ character_instance' = Executed(character_instance, s)
      /\ \/ /\ s.op = "login"
            /\ session' = [session EXCEPT ![s.guid] = "loaded"]
            /\ holder' = [holder EXCEPT ![s.guid] = LoginRows(s.guid)]
         \/ s.op # "login" /\ UNCHANGED <<session, holder>>
      /\ UNCHANGED <<instance, m_instanceSaveById, m_boundInstances, maps, m_mapRef,
                     away, used, prompt>>
  BY <1>1 DEF Work
<1>3. queue \in Seq(Statements)
  BY DEF BaseInv, TypeOK, QueueType
<1>4. /\ Len(queue) \in Nat \ {0} /\ s = queue[1] /\ s \in Statements
      /\ DOMAIN queue = 1..Len(queue)
      /\ queue' \in Seq(Statements) /\ DOMAIN queue' = 1..Len(queue) - 1
      /\ \A n \in DOMAIN queue' : n + 1 \in DOMAIN queue /\ queue'[n] = queue[n + 1]
  BY <1>1, <1>2, <1>3
<1>5. Enters(s) => s.new \in Ids
  BY <1>4 DEF BaseInv, TypeOK, QueueType
<1>6. character_instance' \in SUBSET Rows /\ Key(character_instance')
  BY <1>2, <1>4, <1>5, ExecutedFacts DEF BaseInv, TypeOK, TableType, Keys
<1>7. TableType'
  BY <1>2, <1>6 DEF BaseInv, TypeOK, TableType
<1>8. QueueType'
  <2>1. \A n \in DOMAIN queue' : Enters(queue'[n]) => queue'[n].new \in Ids
    BY <1>4 DEF BaseInv, TypeOK, QueueType
  <2> QED
    BY <1>4, <2>1 DEF QueueType, Enters
<1>9. MapsType' /\ MemoryType' /\ used' \subseteq Ids /\ prompt' \in BOOLEAN
      /\ Matching(m_instanceSaveById, m_boundInstances)'
  BY <1>2 DEF BaseInv, TypeOK, MapsType, MemoryType, SavesType, BoundType, Matching
<1>10. session \in [Players -> {"offline", "loading", "loaded", "online"}]
       /\ holder \in [Players -> SUBSET HolderRows]
  BY DEF BaseInv, TypeOK, SessionType
<1>11. CASE s.op = "login"
  <2>1. s.guid \in Players /\ session[s.guid] = "loading"
    BY <1>4, <1>11 DEF BaseInv, Queued, Statements
  <2>2. PICK found : found = LoginRows(s.guid)
    OBVIOUS
  <2>3. found \in SUBSET HolderRows
    <3>1. ASSUME NEW r \in character_instance, r.instance \in DOMAIN instance
          PROVE  [instance |-> r.instance, permanent |-> r.permanent,
                  difficulty |-> instance[r.instance]] \in HolderRows
      BY <3>1 DEF BaseInv, TypeOK, TableType, Rows, HolderRows
    <3> QED
      BY <2>2, <3>1 DEF LoginRows
  <2>4. \A r, t \in found : r.instance = t.instance => r = t
    BY <2>2 DEF LoginRows, BaseInv, Keys, Key
  <2>5. /\ session' = [session EXCEPT ![s.guid] = "loaded"]
        /\ holder' = [holder EXCEPT ![s.guid] = found]
    BY <1>2, <1>11, <2>2
  <2>6. SessionType'
    BY <1>10, <2>1, <2>3, <2>5 DEF SessionType
  <2>7. Keys'
    BY <1>6, <1>10, <2>1, <2>4, <2>5 DEF BaseInv, Keys, Key
  <2>8. OnlyOnline'
    BY <1>2, <1>10, <2>1, <2>5 DEF BaseInv, OnlyOnline
  <2>9. ASSUME NEW n \in DOMAIN queue', queue'[n].op = "login"
        PROVE  session'[queue'[n].guid] = "loading"
    <3>1. n + 1 \in DOMAIN queue /\ queue'[n] = queue[n + 1] /\ 1 \in DOMAIN queue /\ 1 < n + 1
      BY <1>4
    <3>2. session[queue'[n].guid] = "loading" /\ queue'[n].guid # s.guid
      BY <1>4, <1>11, <2>9, <3>1 DEF BaseInv, Queued
    <3>3. queue'[n].guid \in Players
      <4>1. queue'[n] \in Statements
        BY <1>3, <1>4, <3>1
      <4> QED
        BY <4>1 DEF Statements
    <3> QED
      BY <1>10, <2>5, <3>2, <3>3
  <2>10. \A m, n \in DOMAIN queue' : m < n /\ queue'[m].op = "login" => queue'[n].guid # queue'[m].guid
    <3> TAKE m, n \in DOMAIN queue'
    <3> HAVE m < n /\ queue'[m].op = "login"
    <3>1. /\ m + 1 \in DOMAIN queue /\ n + 1 \in DOMAIN queue /\ m + 1 < n + 1
          /\ queue'[m] = queue[m + 1] /\ queue'[n] = queue[n + 1]
      BY <1>4
    <3> QED
      BY <3>1 DEF BaseInv, Queued
  <2>11. ASSUME NEW p \in Players, session'[p] = "loaded", NEW n \in DOMAIN queue'
         PROVE  queue'[n].guid # p
    <3>1. n + 1 \in DOMAIN queue /\ queue'[n] = queue[n + 1] /\ 1 \in DOMAIN queue /\ 1 < n + 1
      BY <1>4
    <3>2. CASE p = s.guid
      BY <1>4, <1>11, <3>1, <3>2 DEF BaseInv, Queued
    <3>3. CASE p # s.guid
      BY <1>10, <2>5, <2>11, <3>1, <3>3 DEF BaseInv, Queued
    <3> QED
      BY <3>2, <3>3
  <2>12. Queued'
    BY <2>9, <2>10, <2>11 DEF Queued
  <2> QED
    BY <1>7, <1>8, <1>9, <2>6, <2>7, <2>8, <2>12 DEF BaseInv, TypeOK
<1>12. CASE s.op # "login"
  <2>1. session' = session /\ holder' = holder
    BY <1>2, <1>12
  <2>2. SessionType' /\ Keys' /\ OnlyOnline'
    BY <1>2, <1>6, <2>1 DEF BaseInv, TypeOK, SessionType, Keys, Key, OnlyOnline
  <2>3. \A n \in DOMAIN queue' : queue'[n].op = "login" => session'[queue'[n].guid] = "loading"
    BY <1>4, <2>1 DEF BaseInv, Queued
  <2>4. \A m, n \in DOMAIN queue' : m < n /\ queue'[m].op = "login" => queue'[n].guid # queue'[m].guid
    <3> TAKE m, n \in DOMAIN queue'
    <3> HAVE m < n /\ queue'[m].op = "login"
    <3>1. /\ m + 1 \in DOMAIN queue /\ n + 1 \in DOMAIN queue /\ m + 1 < n + 1
          /\ queue'[m] = queue[m + 1] /\ queue'[n] = queue[n + 1]
      BY <1>4
    <3> QED
      BY <3>1 DEF BaseInv, Queued
  <2>5. \A p \in Players : session'[p] = "loaded" => \A n \in DOMAIN queue' : queue'[n].guid # p
    BY <1>4, <2>1 DEF BaseInv, Queued
  <2> QED
    BY <1>7, <1>8, <1>9, <2>2, <2>3, <2>4, <2>5 DEF BaseInv, TypeOK, Queued
<1> QED
  BY <1>11, <1>12

-----------------------------------------------------------------------------
(* Resets and unbinds.                                                     *)

LEMMA ResetSavesFacts ==
  ASSUME BaseInv, NEW S, ResetSaves(S)
  PROVE  /\ MemoryType' /\ Matching(m_instanceSaveById, m_boundInstances)'
         /\ DOMAIN m_instanceSaveById' = DOMAIN m_instanceSaveById \ S
         /\ \A i \in DOMAIN m_instanceSaveById' : m_instanceSaveById'[i] = m_instanceSaveById[i]
         /\ \A p \in Players : \A d \in Difficulties : m_boundInstances'[p][d] =
              IF m_boundInstances[p][d] # NoBind /\ m_boundInstances[p][d].id \in S
              THEN NoBind ELSE m_boundInstances[p][d]
<1>1. PICK saves, bound : saves = m_instanceSaveById /\ bound = m_boundInstances
  OBVIOUS
<1>2. PICK left, after : left = m_instanceSaveById' /\ after = m_boundInstances'
  OBVIOUS
<1>3. SavesType(saves) /\ BoundType(bound) /\ Matching(saves, bound)
  BY <1>1 DEF BaseInv, TypeOK, MemoryType
<1>4. left = [i \in DOMAIN saves \ S |-> saves[i]]
  BY <1>1, <1>2 DEF ResetSaves
<1>5. after = [p \in Players |-> [d \in Difficulties |->
         IF \E i \in S \cap DOMAIN saves : p \in saves[i].players /\ saves[i].difficulty = d
         THEN NoBind ELSE bound[p][d]]]
  BY <1>1, <1>2 DEF ResetSaves
<1>6. \A p \in Players, d \in Difficulties :
        (\E i \in S \cap DOMAIN saves : p \in saves[i].players /\ saves[i].difficulty = d)
          <=> bound[p][d] # NoBind /\ bound[p][d].id \in S
  <2> TAKE p \in Players, d \in Difficulties
  <2>1. ASSUME NEW i \in S \cap DOMAIN saves, p \in saves[i].players, saves[i].difficulty = d
        PROVE  bound[p][d] # NoBind /\ bound[p][d].id \in S
    BY <1>3, <2>1 DEF Matching
  <2>2. ASSUME bound[p][d] # NoBind, bound[p][d].id \in S
        PROVE  \E i \in S \cap DOMAIN saves : p \in saves[i].players /\ saves[i].difficulty = d
    BY <1>3, <2>2 DEF Matching
  <2> QED
    BY <2>1, <2>2
<1>7. \A p \in Players : \A d \in Difficulties : after[p][d] =
        IF bound[p][d] # NoBind /\ bound[p][d].id \in S THEN NoBind ELSE bound[p][d]
  BY <1>5, <1>6
<1>8. BoundType(after)
  <2>1. \A p \in Players : \A d \in Difficulties : after[p][d] \in {NoBind} \cup Binds
    BY <1>3, <1>7 DEF BoundType
  <2> QED
    BY <1>5, <2>1 DEF BoundType
<1>9. /\ SavesType(left) /\ DOMAIN left = DOMAIN saves \ S
      /\ \A i \in DOMAIN left : left[i] = saves[i]
  BY <1>3, <1>4 DEF SavesType
<1>10. ASSUME NEW p \in Players, NEW d \in Difficulties, after[p][d] # NoBind
       PROVE  /\ after[p][d].id \in DOMAIN left
              /\ left[after[p][d].id].difficulty = d
              /\ p \in left[after[p][d].id].players
              /\ left[after[p][d].id].canReset => ~after[p][d].perm
  <2>1. after[p][d] = bound[p][d] /\ bound[p][d] # NoBind /\ bound[p][d].id \notin S
    BY <1>7, <1>10
  <2>2. /\ bound[p][d].id \in DOMAIN saves
        /\ saves[bound[p][d].id].difficulty = d
        /\ p \in saves[bound[p][d].id].players
        /\ saves[bound[p][d].id].canReset => ~bound[p][d].perm
    BY <1>3, <2>1 DEF Matching
  <2> QED
    BY <1>9, <2>1, <2>2
<1>11. ASSUME NEW i \in DOMAIN left, NEW p \in left[i].players
       PROVE  after[p][left[i].difficulty] # NoBind /\ after[p][left[i].difficulty].id = i
  <2>1. i \in DOMAIN saves /\ i \notin S /\ p \in saves[i].players /\ left[i] = saves[i]
    BY <1>9
  <2>2. bound[p][saves[i].difficulty] # NoBind /\ bound[p][saves[i].difficulty].id = i
    BY <1>3, <2>1 DEF Matching
  <2>3. p \in Players /\ saves[i].difficulty \in Difficulties
    BY <1>3, <2>1 DEF SavesType, Saves
  <2> QED
    BY <1>7, <2>1, <2>2, <2>3
<1>12. Matching(left, after)
  BY <1>10, <1>11 DEF Matching
<1> QED
  BY <1>1, <1>2, <1>7, <1>8, <1>9, <1>12 DEF MemoryType

LEMMA MapsResetFacts ==
  ASSUME MapsType, NEW S, maps' = MapsReset(S), UNCHANGED <<m_mapRef, away>>
  PROVE  /\ MapsType'
         /\ DOMAIN maps' = DOMAIN maps
         /\ \A i \in DOMAIN maps : maps'[i].difficulty = maps[i].difficulty
<1>1. DOMAIN maps' = DOMAIN maps /\ maps' = [i \in DOMAIN maps |-> maps'[i]]
  BY DEF MapsReset
<1>2. ASSUME NEW i \in DOMAIN maps
      PROVE  maps'[i] \in MapType /\ maps'[i].difficulty = maps[i].difficulty
  <2>1. maps[i] \in MapType
    BY DEF MapsType
  <2>2. PICK u \in BOOLEAN : u = (maps[i].unloading \/ (i \in S /\ ~HavePlayers(m_mapRef, i)))
    OBVIOUS
  <2>3. maps'[i] = [maps[i] EXCEPT !.unloading = u]
    BY <2>2 DEF MapsReset
  <2> QED
    BY <2>1, <2>3 DEF MapType
<1>3. maps' \in [DOMAIN maps' -> MapType]
  BY <1>1, <1>2
<1> QED
  BY <1>1, <1>2, <1>3 DEF MapsType

\* A player forgets its bind to the instance i, of difficulty d.
Unbinds(p, d, i) ==
  /\ i \in Ids
  /\ MemoryType' /\ Matching(m_instanceSaveById, m_boundInstances)'
  /\ DOMAIN m_instanceSaveById' \subseteq DOMAIN m_instanceSaveById
  /\ \A k \in DOMAIN m_instanceSaveById' :
       m_instanceSaveById'[k].difficulty = m_instanceSaveById[k].difficulty
  /\ \A q \in Players : \A e \in Difficulties : m_boundInstances'[q][e] =
       IF q = p /\ e = d THEN NoBind ELSE m_boundInstances[q][e]

LEMMA UnbindFacts ==
  ASSUME BaseInv, NEW p \in Players, NEW d \in Difficulties,
         m_boundInstances[p][d] # NoBind, NEW i, i = m_boundInstances[p][d].id,
         m_instanceSaveById' = RemovePlayer(m_instanceSaveById, p, i, m_mapRef),
         m_boundInstances' = [m_boundInstances EXCEPT ![p][d] = NoBind]
  PROVE  Unbinds(p, d, i)
<1>1. PICK saves, bound : saves = m_instanceSaveById /\ bound = m_boundInstances
  OBVIOUS
<1>2. PICK left, after : left = m_instanceSaveById' /\ after = m_boundInstances'
  OBVIOUS
<1>3. SavesType(saves) /\ BoundType(bound) /\ Matching(saves, bound)
  BY <1>1 DEF BaseInv, TypeOK, MemoryType
<1>4. PICK gone : gone = {<<p, i>>}
  OBVIOUS
<1>5. left = RemovePlayers(saves, gone, m_mapRef)
  BY <1>1, <1>2, <1>4 DEF RemovePlayer
<1>6. after = [bound EXCEPT ![p][d] = NoBind]
  BY <1>1, <1>2
<1>7. bound \in [Players -> [Difficulties -> {NoBind} \cup Binds]]
  BY <1>3 DEF BoundType
<1>8. \A q \in Players : \A e \in Difficulties :
        after[q][e] = IF q = p /\ e = d THEN NoBind ELSE bound[q][e]
  BY <1>6, <1>7
<1>9. BoundType(after)
  BY <1>6, <1>7 DEF BoundType
<1>10. \A q \in Players, e \in Difficulties : after[q][e] =
         IF bound[q][e] # NoBind /\ <<q, bound[q][e].id>> \in gone THEN NoBind ELSE bound[q][e]
  <2> TAKE q \in Players, e \in Difficulties
  <2>1. ASSUME bound[q][e] # NoBind, <<q, bound[q][e].id>> \in gone
        PROVE  q = p /\ e = d
    <3>1. q = p /\ bound[q][e].id = i
      BY <1>4, <2>1
    <3>2. saves[i].difficulty = e
      BY <1>3, <2>1, <3>1 DEF Matching
    <3>3. saves[i].difficulty = d
      BY <1>1, <1>3 DEF Matching
    <3> QED
      BY <3>1, <3>2, <3>3
  <2>2. bound[p][d] # NoBind /\ <<p, bound[p][d].id>> \in gone
    BY <1>1, <1>4
  <2> QED
    BY <1>8, <2>1, <2>2
<1>11. Matching(left, after)
  BY <1>3, <1>5, <1>9, <1>10, LeaveMatch
<1>12. /\ SavesType(left) /\ DOMAIN left \subseteq DOMAIN saves
       /\ \A k \in DOMAIN left : left[k].difficulty = saves[k].difficulty
  BY <1>3, <1>5, RemovePlayersFacts
<1>13. i \in Ids
  BY <1>1, <1>3 DEF Matching, SavesType
<1> QED
  BY <1>1, <1>2, <1>8, <1>9, <1>11, <1>12, <1>13 DEF MemoryType, Unbinds

\* Rows and instances may go, players who are not online stay without binds.
LEMMA ResetBase ==
  ASSUME BaseInv, MemoryType', Matching(m_instanceSaveById, m_boundInstances)', MapsType',
         DOMAIN instance' \subseteq DOMAIN instance,
         instance' = [i \in DOMAIN instance' |-> instance[i]],
         character_instance' \subseteq character_instance, used' \subseteq used,
         \A p \in Players : \A d \in Difficulties :
           m_boundInstances[p][d] = NoBind => m_boundInstances'[p][d] = NoBind,
         UNCHANGED <<queue, m_mapRef, away, session, holder, prompt>>
  PROVE  BaseInv'
<1>1. TableType'
  BY DEF BaseInv, TypeOK, TableType
<1>2. TypeOK'
  BY <1>1 DEF BaseInv, TypeOK, QueueType, Enters, SessionType
<1>3. Keys' /\ Queued'
  BY DEF BaseInv, Keys, Key, Queued
<1>4. OnlyOnline'
  <2>1. ASSUME NEW p \in Players, m_boundInstances[p] = NoBinds
        PROVE  m_boundInstances'[p] = NoBinds
    <3>1. \A d \in Difficulties : m_boundInstances'[p][d] = NoBind
      BY <2>1 DEF NoBinds
    <3>2. m_boundInstances'[p] \in [Difficulties -> {NoBind} \cup Binds]
      BY DEF MemoryType, BoundType
    <3> QED
      BY <3>1, <3>2 DEF NoBinds
  <2> QED
    BY <2>1 DEF BaseInv, OnlyOnline
<1> QED
  BY <1>2, <1>3, <1>4 DEF BaseInv

LEMMA DeleteFacts ==
  ASSUME TableType, NEW i, DeleteInstanceFromDB(i)
  PROVE  /\ DOMAIN instance' = DOMAIN instance \ {i}
         /\ instance' = [k \in DOMAIN instance' |-> instance[k]]
         /\ character_instance' = {r \in character_instance : r.instance # i}
BY DEF TableType, DeleteInstanceFromDB, Without

LEMMA ResetInstance_Base ==
  ASSUME BaseInv, NEW i \in Ids, ResetInstance(i)
  PROVE  BaseInv'
<1>1. MemoryType' /\ Matching(m_instanceSaveById, m_boundInstances)'
      /\ \A p \in Players : \A d \in Difficulties :
           m_boundInstances[p][d] = NoBind => m_boundInstances'[p][d] = NoBind
  BY ResetSavesFacts DEF ResetInstance
<1>2. MapsType'
  BY MapsResetFacts DEF ResetInstance, BaseInv, TypeOK
<1>3. /\ DOMAIN instance' \subseteq DOMAIN instance
      /\ instance' = [k \in DOMAIN instance' |-> instance[k]]
      /\ character_instance' \subseteq character_instance
  BY DeleteFacts DEF ResetInstance, BaseInv, TypeOK
<1>4. used' \subseteq used /\ UNCHANGED <<queue, m_mapRef, away, session, holder, prompt>>
  BY DEF ResetInstance
<1> QED
  BY <1>1, <1>2, <1>3, <1>4, ResetBase

LEMMA ResetAll_Base ==
  ASSUME BaseInv, ResetAll
  PROVE  BaseInv'
<1>1. MemoryType' /\ Matching(m_instanceSaveById, m_boundInstances)'
      /\ \A p \in Players : \A d \in Difficulties :
           m_boundInstances[p][d] = NoBind => m_boundInstances'[p][d] = NoBind
  BY ResetSavesFacts DEF ResetAll
<1>2. MapsType'
  BY MapsResetFacts DEF ResetAll, BaseInv, TypeOK
<1>3. /\ DOMAIN instance' \subseteq DOMAIN instance
      /\ instance' = [k \in DOMAIN instance' |-> instance[k]]
      /\ character_instance' \subseteq character_instance
  BY DEF ResetAll
<1>4. used' \subseteq used /\ UNCHANGED <<queue, m_mapRef, away, session, holder, prompt>>
  BY DEF ResetAll
<1> QED
  BY <1>1, <1>2, <1>3, <1>4, ResetBase

LEMMA ResetInstances_Base ==
  ASSUME BaseInv, NEW p \in Players, NEW d \in Difficulties, ResetInstances(p, d)
  PROVE  BaseInv'
<1>1. PICK i : i = m_boundInstances[p][d].id
  OBVIOUS
<1>2. MemoryType' /\ Matching(m_instanceSaveById, m_boundInstances)'
      /\ \A q \in Players : \A e \in Difficulties :
           m_boundInstances[q][e] = NoBind => m_boundInstances'[q][e] = NoBind
  <2>1. /\ m_boundInstances[p][d] # NoBind
        /\ m_instanceSaveById' = RemovePlayer(m_instanceSaveById, p, i, m_mapRef)
        /\ m_boundInstances' = [m_boundInstances EXCEPT ![p][d] = NoBind]
    BY <1>1 DEF ResetInstances
  <2>2. Unbinds(p, d, i)
    BY <1>1, <2>1, UnbindFacts
  <2> QED
    BY <2>2 DEF Unbinds
<1>3. MapsType'
  BY MapsResetFacts DEF ResetInstances, BaseInv, TypeOK
<1>4. /\ DOMAIN instance' \subseteq DOMAIN instance
      /\ instance' = [k \in DOMAIN instance' |-> instance[k]]
      /\ character_instance' \subseteq character_instance
  BY DeleteFacts DEF ResetInstances, BaseInv, TypeOK
<1>5. used' \subseteq used /\ UNCHANGED <<queue, m_mapRef, away, session, holder, prompt>>
  BY DEF ResetInstances
<1> QED
  BY <1>2, <1>3, <1>4, <1>5, ResetBase

LEMMA UnbindInstance_Base ==
  ASSUME BaseInv, NEW p \in Players, NEW d \in Difficulties, UnbindInstance(p, d)
  PROVE  BaseInv' /\ Extended
<1>1. PICK i : i = m_boundInstances[p][d].id
  OBVIOUS
<1>2. /\ session[p] = "online" /\ m_boundInstances[p][d] # NoBind
      /\ queue' = Append(queue, Statement("delete", p, i, NoId, FALSE))
      /\ m_instanceSaveById' = RemovePlayer(m_instanceSaveById, p, i, m_mapRef)
      /\ m_boundInstances' = [m_boundInstances EXCEPT ![p][d] = NoBind]
      /\ UNCHANGED <<instance, character_instance, maps, m_mapRef, away, session,
                     holder, used, prompt>>
  BY <1>1 DEF UnbindInstance
<1>3. Unbinds(p, d, i)
  BY <1>1, <1>2, UnbindFacts
<1>4. PICK s : s = Statement("delete", p, i, NoId, FALSE)
  OBVIOUS
<1>5. s \in Statements /\ s.op = "delete" /\ s.guid = p
  BY <1>3, <1>4 DEF Statement, Statements, Unbinds
<1>6. TypeOK
  BY DEF BaseInv
<1>7. Extended
  BY <1>2, <1>4, <1>5, <1>6, AppendedQueue DEF Enters
<1>8. QueueType' /\ Queued'
  BY <1>2, <1>7, QueueStep
<1>9. TableType' /\ MapsType' /\ SessionType' /\ used' \subseteq Ids /\ prompt' \in BOOLEAN
      /\ Keys'
  BY <1>2 DEF BaseInv, TypeOK, TableType, MapsType, SessionType, Keys, Key
<1>10. OnlyOnline'
  <2>1. \A q \in Players \ {p} : m_boundInstances'[q] = m_boundInstances[q]
    BY <1>2 DEF BaseInv, TypeOK, MemoryType, BoundType
  <2> QED
    BY <1>2, <2>1 DEF BaseInv, OnlyOnline
<1> QED
  BY <1>3, <1>7, <1>8, <1>9, <1>10 DEF BaseInv, TypeOK, Unbinds

-----------------------------------------------------------------------------
(* Maps and players.                                                       *)

LEMMA Away_Base ==
  ASSUME BaseInv, NEW p \in Players, TeleportOut(p) \/ Arrive(p)
  PROVE  BaseInv'
<1>1. UNCHANGED <<instance, character_instance, queue, m_instanceSaveById, m_boundInstances,
                  session, holder, used, prompt>>
  BY DEF TeleportOut, Arrive, tables, memory
<1>2. /\ TableType' /\ QueueType' /\ SessionType' /\ MemoryType'
      /\ used' \subseteq Ids /\ prompt' \in BOOLEAN
  BY <1>1 DEF BaseInv, TypeOK, TableType, QueueType, Enters, SessionType, MemoryType,
              SavesType, BoundType
<1>3. Matching(m_instanceSaveById, m_boundInstances)' /\ Keys' /\ Queued'
  BY <1>1 DEF BaseInv, Matching, Keys, Key, Queued
<1>4. MapsType
  BY DEF BaseInv, TypeOK
<1>5. CASE TeleportOut(p)
  <2>1. /\ m_mapRef[p] # NoId /\ away' = away \cup {p} /\ m_mapRef' = m_mapRef
        /\ maps' = [maps EXCEPT ![m_mapRef[p]].unloading =
                      @ \/ {q \in Players : m_mapRef[q] = m_mapRef[p]} = {p}]
    BY <1>5 DEF TeleportOut
  <2>2. DOMAIN maps' = DOMAIN maps /\ maps' \in [DOMAIN maps' -> MapType]
    BY <1>4, <2>1 DEF MapsType, MapType
  <2>3. MapsType'
    BY <1>4, <2>1, <2>2 DEF MapsType
  <2>4. OnlyOnline'
    BY <1>1, <2>1 DEF BaseInv, OnlyOnline
  <2> QED
    BY <1>2, <1>3, <2>3, <2>4 DEF BaseInv, TypeOK
<1>6. CASE Arrive(p)
  <2>1. away' = away \ {p} /\ m_mapRef' = [m_mapRef EXCEPT ![p] = NoId] /\ maps' = maps
    BY <1>6 DEF Arrive
  <2>2. MapsType'
    BY <1>4, <2>1 DEF MapsType
  <2>3. OnlyOnline'
    BY <1>1, <1>4, <2>1 DEF BaseInv, OnlyOnline, MapsType
  <2> QED
    BY <1>2, <1>3, <2>2, <2>3 DEF BaseInv, TypeOK
<1> QED
  BY <1>5, <1>6

LEMMA DestroyInstance_Base ==
  ASSUME BaseInv, NEW i \in DOMAIN maps, DestroyInstance(i)
  PROVE  BaseInv'
<1>1. UNCHANGED <<instance, character_instance, queue, m_instanceSaveById, m_boundInstances,
                  m_mapRef, away, session, holder, used, prompt>>
  BY DEF DestroyInstance, tables, memory
<1>2. /\ TableType' /\ QueueType' /\ SessionType' /\ MemoryType'
      /\ used' \subseteq Ids /\ prompt' \in BOOLEAN
  BY <1>1 DEF BaseInv, TypeOK, TableType, QueueType, Enters, SessionType, MemoryType,
              SavesType, BoundType
<1>3. Matching(m_instanceSaveById, m_boundInstances)' /\ Keys' /\ Queued' /\ OnlyOnline'
  BY <1>1 DEF BaseInv, Matching, Keys, Key, Queued, OnlyOnline
<1>4. maps' = [k \in DOMAIN maps \ {i} |-> maps[k]] /\ \A p \in Players : m_mapRef[p] # i
  BY DEF DestroyInstance, Without, HavePlayers
<1>5. MapsType'
  BY <1>1, <1>4 DEF BaseInv, TypeOK, MapsType
<1> QED
  BY <1>2, <1>3, <1>5 DEF BaseInv, TypeOK

LEMMA SoloQueue ==
  ASSUME TypeOK, NEW saves, NEW bound, BoundType(bound), NEW p \in Players, NEW i, NEW ms,
         Solos(saves, bound, p, i, ms), session'[p] = "online"
  PROVE  Extended
<1>1. i \in Ids
  BY DEF Solos
<1>2. PICK e \in Difficulties :
        \/ queue' = queue /\ bound[p][e] = [id |-> i, perm |-> FALSE]
        \/ /\ bound[p][e] = NoBind
           /\ queue' = Append(queue, Statement("insert", p, NoId, i, FALSE))
        \/ /\ bound[p][e] # NoBind
           /\ queue' = Append(queue, Statement("update", p, bound[p][e].id, i, FALSE))
  BY DEF Solos
<1>3. CASE queue' = queue
  BY <1>3, SameQueue
<1>4. CASE queue' = Append(queue, Statement("insert", p, NoId, i, FALSE))
  <2>1. PICK s : s = Statement("insert", p, NoId, i, FALSE)
    OBVIOUS
  <2>2. s \in Statements /\ s.op = "insert" /\ s.guid = p /\ s.new = i
    BY <1>1, <2>1 DEF Statement, Statements
  <2> QED
    BY <1>1, <1>4, <2>1, <2>2, AppendedQueue
<1>5. CASE /\ bound[p][e] # NoBind
           /\ queue' = Append(queue, Statement("update", p, bound[p][e].id, i, FALSE))
  <2>1. PICK s : s = Statement("update", p, bound[p][e].id, i, FALSE)
    OBVIOUS
  <2>2. bound[p][e] \in Binds
    BY <1>5 DEF BoundType
  <2>3. bound[p][e].id \in Ids
    BY <2>2 DEF Binds
  <2>4. s \in Statements /\ s.op = "update" /\ s.guid = p /\ s.new = i
    BY <1>1, <2>1, <2>3 DEF Statement, Statements
  <2> QED
    BY <1>1, <1>5, <2>1, <2>4, AppendedQueue
<1> QED
  BY <1>2, <1>3, <1>4, <1>5

\* AddPlayerToMap of a player who is online or gets online with it, from the
\* consistent memory of saves and bound.
Entering(saves, bound, p, i, ms) ==
  /\ SavesType(saves) /\ BoundType(bound) /\ Matching(saves, bound)
  /\ p \in Players /\ i \in Ids
  /\ Adds(saves, bound, p, i, ms)
  /\ DOMAIN ms \subseteq Ids
  /\ \/ Solos(saves, bound, p, i, ms)
     \/ queue' = queue /\ m_boundInstances' = bound
  /\ SessionType' /\ Keys' /\ used' \subseteq Ids
  /\ UNCHANGED <<character_instance, prompt>>
  /\ session[p] \in {"loaded", "online"} /\ session'[p] = "online" /\ holder'[p] = {}
  /\ \A q \in Players \ {p} : /\ session'[q] = session[q] /\ holder'[q] = holder[q]
                              /\ bound[q] = m_boundInstances[q]

LEMMA AddBase ==
  ASSUME BaseInv, NEW saves, NEW bound, NEW p, NEW i, NEW ms, Entering(saves, bound, p, i, ms)
  PROVE  BaseInv' /\ Extended
<1>1. TypeOK
  BY DEF BaseInv
<1>2. Extended
  <2>1. CASE Solos(saves, bound, p, i, ms)
    BY <1>1, <2>1, SoloQueue DEF Entering
  <2>2. CASE queue' = queue
    BY <1>1, <2>2, SameQueue
  <2> QED
    BY <2>1, <2>2 DEF Entering
<1>3. QueueType' /\ Queued'
  <2>1. \A q \in Players : session[q] = "loading" => session'[q] = "loading"
    BY DEF Entering
  <2>2. \A q \in Players : session'[q] = "loaded" => session[q] = "loaded"
    BY DEF Entering
  <2> QED
    BY <1>2, <2>1, <2>2, QueueStep
<1>4. MemoryType' /\ Matching(m_instanceSaveById, m_boundInstances)'
  BY DEF Entering, Adds, MemoryType
<1>5. TableType'
  <2>1. /\ DOMAIN instance' = DOMAIN instance \cup ({i} \ (DOMAIN saves \cup {0}))
        /\ instance' \in [DOMAIN instance' -> Difficulties]
    BY DEF Entering, Adds
  <2>2. DOMAIN instance' \subseteq Ids \ {0}
    BY <1>1, <2>1 DEF Entering, TypeOK, TableType
  <2> QED
    BY <1>1, <2>1, <2>2 DEF Entering, TypeOK, TableType
<1>6. MapsType'
  <2>1. /\ DOMAIN maps' = DOMAIN ms /\ maps' \in [DOMAIN maps' -> MapType]
        /\ m_mapRef' \in [Players -> DOMAIN ms \cup {NoId}]
        /\ away' \subseteq away \cup {p}
    BY DEF Entering, Adds
  <2> QED
    BY <1>1, <2>1 DEF Entering, TypeOK, MapsType
<1>7. prompt' \in BOOLEAN
  BY <1>1 DEF Entering, TypeOK
<1>8. OnlyOnline'
  <2>1. \A q \in Players \ {p} : m_boundInstances'[q] = m_boundInstances[q]
    <3> TAKE q \in Players \ {p}
    <3>1. CASE Solos(saves, bound, p, i, ms)
      <4>1. \A f \in Difficulties : m_boundInstances'[q][f] = bound[q][f]
        BY <3>1 DEF Solos
      <4>2. m_boundInstances'[q] \in [Difficulties -> {NoBind} \cup Binds]
            /\ bound[q] \in [Difficulties -> {NoBind} \cup Binds]
        BY <1>4 DEF MemoryType, BoundType, Entering
      <4> QED
        BY <4>1, <4>2 DEF Entering
    <3>2. CASE m_boundInstances' = bound
      BY <3>2 DEF Entering
    <3> QED
      BY <3>1, <3>2 DEF Entering
  <2>2. \A q \in Players \ {p} : m_mapRef'[q] = m_mapRef[q]
    BY DEF Entering, Adds
  <2>3. away' \subseteq away \cup {p}
    BY DEF Entering, Adds
  <2> QED
    BY <2>1, <2>2, <2>3 DEF Entering, BaseInv, OnlyOnline
<1> QED
  BY <1>2, <1>3, <1>4, <1>5, <1>6, <1>7, <1>8 DEF Entering, BaseInv, TypeOK

\* Enter: a player online, refused at the door or entering with its memory.
LEMMA EnterFacts ==
  ASSUME BaseInv, NEW p \in Players, NEW d \in Difficulties, Enter(p, d),
         NEW i, i = InstanceFor(m_boundInstances, p, d),
         NEW ms, ms = MapsWith(Mem, p, d, i)
  PROVE  /\ i \in Ids /\ i # NoId
         /\ FindsMap(m_instanceSaveById, m_boundInstances, p, d, i, ms)
         /\ used' = UsedWith(m_boundInstances, p, d, i) /\ used' \subseteq Ids
         /\ session[p] = "online"
         /\ UNCHANGED <<character_instance, session, holder, prompt>>
         /\ \/ Entering(m_instanceSaveById, m_boundInstances, p, i, ms)
            \/ /\ maps' = ms /\ away' = away \cup {p}
               /\ UNCHANGED <<instance, queue, m_instanceSaveById, m_boundInstances, m_mapRef>>
<1>1. PICK saves, bound : saves = m_instanceSaveById /\ bound = m_boundInstances
  OBVIOUS
<1>2. TypeOK /\ SavesType(saves) /\ BoundType(bound) /\ Matching(saves, bound)
  BY <1>1 DEF BaseInv, TypeOK, MemoryType
<1>3. /\ i # NoId /\ session[p] = "online" /\ used' = UsedWith(m_boundInstances, p, d, i)
      /\ UNCHANGED <<character_instance, session, holder, prompt>>
      /\ \/ AddPlayerToMap(Mem, p, i, ms, m_mapRef[p])
         \/ /\ maps' = ms /\ away' = away \cup {p}
            /\ UNCHANGED <<instance, queue, m_instanceSaveById, m_boundInstances, m_mapRef>>
  BY DEF Enter, memory
<1>4. /\ i \in Ids
      /\ bound[p][d] # NoBind => i = bound[p][d].id
  BY <1>1, <1>2, <1>3, InstanceForFacts
<1>5. Mem = [saves |-> saves, bound |-> bound]
  BY <1>1 DEF Mem
<1>10. FindsMap(saves, bound, p, d, i, ms)
  <2>1. ms = MapsWith([saves |-> saves, bound |-> bound], p, d, i)
    BY <1>5
  <2>2. bound[p][d] # NoBind => i = bound[p][d].id
    BY <1>4
  <2> QED
    BY <1>2, <1>4, <2>1, <2>2, MapsWithFacts
<1>6. /\ DOMAIN ms = DOMAIN maps \cup {i} /\ ms \in [DOMAIN ms -> MapType]
      /\ \A k \in DOMAIN maps : ms[k] = maps[k]
  BY <1>10 DEF FindsMap
<1>7. used' \subseteq Ids
  BY <1>2, <1>3, <1>4 DEF UsedWith, TypeOK
<1>8. m_mapRef[p] \in DOMAIN ms \cup {NoId} /\ DOMAIN ms \subseteq Ids
  BY <1>2, <1>4, <1>6 DEF TypeOK, MapsType
<1>9. ASSUME AddPlayerToMap(Mem, p, i, ms, m_mapRef[p])
      PROVE  Entering(saves, bound, p, i, ms)
  <2>1. AddPlayerToMap([saves |-> saves, bound |-> bound], p, i, ms, m_mapRef[p])
    BY <1>5, <1>9
  <2>2. /\ Adds(saves, bound, p, i, ms)
        /\ \/ Solos(saves, bound, p, i, ms)
           \/ queue' = queue /\ m_boundInstances' = bound
    BY <1>2, <1>4, <1>6, <1>8, <2>1, AddFacts
  <2>3. SessionType' /\ Keys'
    BY <1>2, <1>3 DEF TypeOK, SessionType, BaseInv, Keys, Key
  <2>4. holder[p] = {}
    BY <1>3 DEF BaseInv, OnlyOnline
  <2> QED
    BY <1>1, <1>2, <1>3, <1>4, <1>7, <1>8, <2>2, <2>3, <2>4 DEF Entering
<1> QED
  BY <1>1, <1>3, <1>4, <1>7, <1>9, <1>10

LEMMA Enter_Base ==
  ASSUME BaseInv, NEW p \in Players, NEW d \in Difficulties, Enter(p, d)
  PROVE  BaseInv' /\ Extended
<1>1. PICK i : i = InstanceFor(m_boundInstances, p, d)
  OBVIOUS
<1>2. PICK ms : ms = MapsWith(Mem, p, d, i)
  OBVIOUS
<1>3. /\ i \in Ids
      /\ FindsMap(m_instanceSaveById, m_boundInstances, p, d, i, ms)
      /\ used' \subseteq Ids
      /\ session[p] = "online"
      /\ UNCHANGED <<character_instance, session, holder, prompt>>
      /\ \/ Entering(m_instanceSaveById, m_boundInstances, p, i, ms)
         \/ /\ maps' = ms /\ away' = away \cup {p}
            /\ UNCHANGED <<instance, queue, m_instanceSaveById, m_boundInstances, m_mapRef>>
  BY <1>1, <1>2, EnterFacts
<1>4. CASE Entering(m_instanceSaveById, m_boundInstances, p, i, ms)
  BY <1>4, AddBase
<1>5. CASE /\ maps' = ms /\ away' = away \cup {p}
           /\ UNCHANGED <<instance, queue, m_instanceSaveById, m_boundInstances, m_mapRef>>
  <2>1. /\ TableType' /\ QueueType' /\ SessionType' /\ MemoryType' /\ prompt' \in BOOLEAN
    BY <1>3, <1>5 DEF BaseInv, TypeOK, TableType, QueueType, Enters, SessionType, MemoryType,
                      SavesType, BoundType
  <2>2. Matching(m_instanceSaveById, m_boundInstances)' /\ Keys' /\ Queued' /\ OnlyOnline'
    BY <1>3, <1>5 DEF BaseInv, Matching, Keys, Key, Queued, OnlyOnline
  <2>3. MapsType'
    BY <1>3, <1>5 DEF BaseInv, TypeOK, MapsType, FindsMap
  <2>4. Extended
    BY <1>5, SameQueue DEF BaseInv
  <2> QED
    BY <1>3, <2>1, <2>2, <2>3, <2>4 DEF BaseInv, TypeOK
<1> QED
  BY <1>3, <1>4, <1>5

\* The statements of PermBindAllPlayers, one for each player it binds.
Perms(i, d, binders, order, tail) ==
  /\ i \in DOMAIN m_instanceSaveById /\ d = m_instanceSaveById[i].difficulty
  /\ d \in Difficulties /\ i \in Ids
  /\ binders \subseteq Players
  /\ \A q \in binders : /\ m_mapRef[q] = i /\ session[q] = "online"
                        /\ m_boundInstances[q][d] = NoBind \/ ~m_boundInstances[q][d].perm
  /\ \E n \in Nat : order \in [1..n -> binders] /\ tail \in [1..n -> Statements]
  /\ \A k, l \in DOMAIN order : k # l => order[k] # order[l]
  /\ \A q \in binders : \E k \in DOMAIN order : order[k] = q
  /\ \A k \in DOMAIN tail : tail[k] =
       IF m_boundInstances[order[k]][d] = NoBind
       THEN Statement("insert", order[k], NoId, i, TRUE)
       ELSE Statement("update", order[k], m_boundInstances[order[k]][d].id, i, TRUE)
  /\ queue' = queue \o tail
  /\ MemoryType' /\ Matching(m_instanceSaveById, m_boundInstances)'
  /\ DOMAIN m_instanceSaveById' \subseteq DOMAIN m_instanceSaveById
  /\ \A k \in DOMAIN m_instanceSaveById' :
       m_instanceSaveById'[k].difficulty = m_instanceSaveById[k].difficulty
  /\ \A q \in Players : \A e \in Difficulties : m_boundInstances'[q][e] =
       IF q \in binders /\ e = d THEN [id |-> i, perm |-> TRUE] ELSE m_boundInstances[q][e]
  /\ UNCHANGED <<instance, character_instance, maps, m_mapRef, away, session, holder,
                 used, prompt>>

LEMMA OrderFacts ==
  ASSUME NEW S \in SUBSET Players, NEW order \in SetToSeqs(S)
  PROVE  \E n \in Nat : /\ order \in [1..n -> S]
                        /\ \A k, l \in 1..n : k # l => order[k] # order[l]
                        /\ \A q \in S : \E k \in 1..n : order[k] = q
<1>1. IsFiniteSet(S)
  BY SavesAssumption, FS_Subset
<1>2. PICK n : n = Cardinality(S)
  OBVIOUS
<1>3. n \in Nat
  BY <1>1, <1>2, FS_CardinalityType
<1>4. order \in [1..n -> S] /\ \A k, l \in 1..n : k # l => order[k] # order[l]
  BY <1>2 DEF SetToSeqs
<1>5. order \in Injection(1..n, S)
  BY <1>4 DEF Injection, IsInjective
<1>6. Cardinality(1..n) = n
  BY <1>3, FS_Interval
<1>7. order \in Surjection(1..n, S)
  BY <1>1, <1>2, <1>5, <1>6, FS_Injection
<1>8. \A q \in S : \E k \in 1..n : order[k] = q
  BY <1>7 DEF Surjection
<1> QED
  BY <1>3, <1>4, <1>8

IsConcat(S, s, t, st) ==
  /\ st \in Seq(S) /\ Len(st) = Len(s) + Len(t)
  /\ \A k \in 1..Len(s) : st[k] = s[k]
  /\ \A k \in 1..Len(t) : st[Len(s) + k] = t[k]

LEMMA ConcatFacts ==
  ASSUME NEW S, NEW s \in Seq(S), NEW t \in Seq(S)
  PROVE  IsConcat(S, s, t, s \o t)
<1>1. s \o t \in Seq(S) /\ Len(s \o t) = Len(s) + Len(t) /\ Len(s) \in Nat /\ Len(t) \in Nat
  OBVIOUS
<1>2. \A k \in 1..Len(s) : (s \o t)[k] = s[k]
  OBVIOUS
<1>3. ASSUME NEW k \in 1..Len(t) PROVE (s \o t)[Len(s) + k] = t[k]
  <2>1. Len(s) + k \in 1..Len(s) + Len(t) /\ Len(s) + k > Len(s) /\ Len(s) + k - Len(s) = k
    BY <1>1
  <2> QED
    BY <1>1, <2>1
<1> QED
  BY <1>1, <1>2, <1>3 DEF IsConcat

LEMMA PermFacts ==
  ASSUME BaseInv, NEW p \in Players, PermBind(p)
  PROVE  \E i, d, binders, order, tail : Perms(i, d, binders, order, tail)
<1>1. PICK saves, bound : saves = m_instanceSaveById /\ bound = m_boundInstances
  OBVIOUS
<1>2. PICK i : i = m_mapRef[p]
  OBVIOUS
<1>3. PICK d : d = m_instanceSaveById[i].difficulty
  OBVIOUS
<1>4. PICK binders : binders = {q \in Players :
        /\ m_mapRef[q] = i
        /\ m_boundInstances[q][d] = NoBind \/ ~m_boundInstances[q][d].perm}
  OBVIOUS
<1>5. /\ i # NoId /\ i \in DOMAIN m_instanceSaveById
      /\ Store(BindToInstance(Mem, binders, i, TRUE, m_mapRef))
      /\ \E o \in SetToSeqs(binders) :
           queue' = queue \o [k \in DOMAIN o |-> BindStatement(Mem, o[k], i, TRUE)]
      /\ UNCHANGED <<instance, character_instance, maps, m_mapRef, away, session, holder,
                     used, prompt>>
  BY <1>2, <1>3, <1>4 DEF PermBind, tables
<1>6. PICK order \in SetToSeqs(binders) :
        queue' = queue \o [k \in DOMAIN order |-> BindStatement(Mem, order[k], i, TRUE)]
  BY <1>5
<1>7. binders \in SUBSET Players
  BY <1>4
<1>8. PICK n \in Nat : /\ order \in [1..n -> binders]
                       /\ \A k, l \in 1..n : k # l => order[k] # order[l]
                       /\ \A q \in binders : \E k \in 1..n : order[k] = q
  BY <1>6, <1>7, OrderFacts
<1>9. PICK tail : tail = [k \in 1..n |-> BindStatement(Mem, order[k], i, TRUE)]
  OBVIOUS
<1>10. queue' = queue \o tail
  BY <1>6, <1>8, <1>9
<1>11. SavesType(saves) /\ BoundType(bound) /\ Matching(saves, bound)
  BY <1>1 DEF BaseInv, TypeOK, MemoryType
<1>12. d \in Difficulties /\ i \in Ids
  BY <1>1, <1>3, <1>5, <1>11 DEF SavesType, Saves
<1>13. \A k \in 1..n : tail[k] =
         IF m_boundInstances[order[k]][d] = NoBind
         THEN Statement("insert", order[k], NoId, i, TRUE)
         ELSE Statement("update", order[k], m_boundInstances[order[k]][d].id, i, TRUE)
  BY <1>3, <1>9 DEF BindStatement, Mem
<1>14. \A k \in 1..n : tail[k] \in Statements
  <2> TAKE k \in 1..n
  <2>1. order[k] \in Players
    BY <1>7, <1>8
  <2>2. CASE bound[order[k]][d] = NoBind
    <3>1. tail[k] = Statement("insert", order[k], NoId, i, TRUE)
      BY <1>1, <1>13, <2>2
    <3>2. Statement("insert", order[k], NoId, i, TRUE) \in Statements
      BY <1>12, <2>1 DEF Statement, Statements
    <3> QED
      BY <3>1, <3>2
  <2>3. CASE bound[order[k]][d] # NoBind
    <3>1. bound[order[k]][d] \in Binds
      BY <1>11, <1>12, <2>1, <2>3 DEF BoundType
    <3>2. bound[order[k]][d].id \in Ids
      BY <3>1 DEF Binds
    <3>3. tail[k] = Statement("update", order[k], bound[order[k]][d].id, i, TRUE)
      BY <1>1, <1>13, <2>3
    <3>4. Statement("update", order[k], bound[order[k]][d].id, i, TRUE) \in Statements
      BY <1>12, <2>1, <3>2 DEF Statement, Statements
    <3> QED
      BY <3>3, <3>4
  <2> QED
    BY <2>2, <2>3
<1>15. tail \in [1..n -> Statements]
  BY <1>9, <1>14
<1>16. PICK mem : mem = BindToInstance([saves |-> saves, bound |-> bound], binders, i, TRUE, m_mapRef)
  OBVIOUS
<1>17. BindsTo(saves, bound, binders, i, TRUE, mem)
  BY <1>1, <1>5, <1>7, <1>11, <1>16, BindFacts
<1>18. m_instanceSaveById' = mem.saves /\ m_boundInstances' = mem.bound
  BY <1>1, <1>5, <1>16 DEF Store, Mem
<1>19. /\ MemoryType' /\ Matching(m_instanceSaveById, m_boundInstances)'
       /\ DOMAIN m_instanceSaveById' \subseteq DOMAIN m_instanceSaveById
       /\ \A k \in DOMAIN m_instanceSaveById' :
            m_instanceSaveById'[k].difficulty = m_instanceSaveById[k].difficulty
       /\ \A q \in Players : \A e \in Difficulties : m_boundInstances'[q][e] =
            IF q \in binders /\ e = d THEN [id |-> i, perm |-> TRUE] ELSE m_boundInstances[q][e]
  BY <1>1, <1>3, <1>17, <1>18 DEF BindsTo, MemoryType
<1>20. \A q \in binders : /\ m_mapRef[q] = i /\ session[q] = "online"
                          /\ m_boundInstances[q][d] = NoBind \/ ~m_boundInstances[q][d].perm
  <2> TAKE q \in binders
  <2>1. m_mapRef[q] = i /\ q \in Players
    BY <1>4
  <2>2. session[q] = "online"
    BY <1>5, <2>1 DEF BaseInv, OnlyOnline
  <2>3. m_boundInstances[q][d] = NoBind \/ ~m_boundInstances[q][d].perm
    BY <1>4
  <2> QED
    BY <2>1, <2>2, <2>3
<1>21. DOMAIN order = 1..n /\ DOMAIN tail = 1..n
  BY <1>8, <1>9
<1>22. /\ \E m \in Nat : order \in [1..m -> binders] /\ tail \in [1..m -> Statements]
       /\ \A k, l \in DOMAIN order : k # l => order[k] # order[l]
       /\ \A q \in binders : \E k \in DOMAIN order : order[k] = q
       /\ \A k \in DOMAIN tail : tail[k] =
            IF m_boundInstances[order[k]][d] = NoBind
            THEN Statement("insert", order[k], NoId, i, TRUE)
            ELSE Statement("update", order[k], m_boundInstances[order[k]][d].id, i, TRUE)
  BY <1>8, <1>13, <1>15, <1>21
<1>23. Perms(i, d, binders, order, tail)
  BY <1>3, <1>5, <1>7, <1>10, <1>12, <1>19, <1>20, <1>22, Zenon DEF Perms
<1> QED
  BY <1>23

LEMMA PermExtended ==
  ASSUME BaseInv, NEW i, NEW d, NEW binders, NEW order, NEW tail,
         Perms(i, d, binders, order, tail)
  PROVE  /\ Extended
         /\ DOMAIN tail = DOMAIN order /\ tail \in Seq(Statements)
         /\ \A k \in DOMAIN tail : queue'[Len(queue) + k] = tail[k]
         /\ Len(queue') = Len(queue) + Len(tail)
<1>1. PICK n \in Nat : order \in [1..n -> binders] /\ tail \in [1..n -> Statements]
  BY DEF Perms
<1>2. tail \in Seq(Statements) /\ Len(tail) = n /\ DOMAIN tail = 1..n /\ DOMAIN order = 1..n
  BY <1>1
<1>3. queue \in Seq(Statements) /\ queue' = queue \o tail
  BY DEF BaseInv, TypeOK, QueueType, Perms
<1>4. /\ queue' \in Seq(Statements) /\ Len(queue') = Len(queue) + n /\ Len(queue) \in Nat
      /\ \A k \in 1..Len(queue) : queue'[k] = queue[k]
      /\ \A k \in 1..n : queue'[Len(queue) + k] = tail[k]
  <2>1. PICK q : q = queue \o tail
    OBVIOUS
  <2>2. IsConcat(Statements, queue, tail, q)
    BY <1>2, <1>3, <2>1, ConcatFacts
  <2>3. /\ q \in Seq(Statements) /\ Len(q) = Len(queue) + n
        /\ \A k \in 1..Len(queue) : q[k] = queue[k]
        /\ \A k \in 1..n : q[Len(queue) + k] = tail[k]
    BY <1>2, <2>2, Zenon DEF IsConcat
  <2>4. Len(queue) \in Nat /\ queue' = q
    BY <1>3, <2>1
  <2> QED
    BY <2>3, <2>4, Zenon
<1>5. DOMAIN queue = 1..Len(queue) /\ DOMAIN queue' = 1..Len(queue) + n
  BY <1>3, <1>4
<1>6. ASSUME NEW k \in 1..n
      PROVE  tail[k].op \in {"insert", "update"} /\ tail[k].new = i /\ tail[k].guid = order[k]
  <2>1. tail[k] = Statement("insert", order[k], NoId, i, TRUE)
        \/ tail[k] = Statement("update", order[k], m_boundInstances[order[k]][d].id, i, TRUE)
    BY <1>2 DEF Perms
  <2> QED
    BY <2>1 DEF Statement
<1>7. ASSUME NEW m \in DOMAIN queue' \ DOMAIN queue
      PROVE  /\ queue'[m].op # "login" /\ session'[queue'[m].guid] = "online"
             /\ Enters(queue'[m]) => queue'[m].new \in Ids
  <2>1. PICK k \in 1..n : m = Len(queue) + k
    <3>1. m - Len(queue) \in 1..n
      BY <1>4, <1>5
    <3> QED
      BY <1>4, <1>5, <3>1
  <2>2. queue'[m] = tail[k] /\ order[k] \in binders
    BY <1>1, <1>4, <2>1
  <2>3. session' = session /\ session[order[k]] = "online" /\ i \in Ids
    BY <2>2 DEF Perms
  <2> QED
    BY <1>6, <2>2, <2>3
<1> QED
  BY <1>2, <1>4, <1>5, <1>7 DEF Extended

LEMMA PermBind_Base ==
  ASSUME BaseInv, NEW p \in Players, PermBind(p)
  PROVE  BaseInv' /\ Extended
<1>1. PICK i, d, binders, order, tail : Perms(i, d, binders, order, tail)
  BY PermFacts
<1>2. Extended
  BY <1>1, PermExtended
<1>3. UNCHANGED <<instance, character_instance, maps, m_mapRef, away, session, holder, used, prompt>>
  BY <1>1 DEF Perms
<1>4. QueueType' /\ Queued'
  BY <1>2, <1>3, QueueStep
<1>5. TableType' /\ MapsType' /\ SessionType' /\ used' \subseteq Ids /\ prompt' \in BOOLEAN /\ Keys'
  BY <1>3 DEF BaseInv, TypeOK, TableType, MapsType, SessionType, Keys, Key
<1>6. MemoryType' /\ Matching(m_instanceSaveById, m_boundInstances)'
  BY <1>1 DEF Perms
<1>7. OnlyOnline'
  <2>1. ASSUME NEW q \in Players, session[q] # "online"
        PROVE  m_boundInstances'[q] = m_boundInstances[q]
    <3>1. \A e \in Difficulties : m_boundInstances'[q][e] = m_boundInstances[q][e]
      BY <1>1, <2>1 DEF Perms
    <3>2. m_boundInstances'[q] \in [Difficulties -> {NoBind} \cup Binds]
          /\ m_boundInstances[q] \in [Difficulties -> {NoBind} \cup Binds]
      BY <1>6 DEF MemoryType, BoundType, BaseInv, TypeOK
    <3> QED
      BY <3>1, <3>2
  <2> QED
    BY <1>3, <2>1 DEF BaseInv, OnlyOnline
<1> QED
  BY <1>2, <1>4, <1>5, <1>6, <1>7 DEF BaseInv, TypeOK

-----------------------------------------------------------------------------
(* Login, logout and restart.                                              *)

LEMMA RequestLogin_Base ==
  ASSUME BaseInv, NEW p \in Players, RequestLogin(p)
  PROVE  BaseInv'
<1>1. /\ session[p] = "offline" /\ session' = [session EXCEPT ![p] = "loading"]
      /\ queue' = Append(queue, Statement("login", p, NoId, NoId, FALSE))
      /\ UNCHANGED <<instance, character_instance, m_instanceSaveById, m_boundInstances, maps,
                     m_mapRef, away, holder, used, prompt>>
  BY DEF RequestLogin, tables, memory
<1>2. PICK s : s = Statement("login", p, NoId, NoId, FALSE)
  OBVIOUS
<1>3. s \in Statements /\ s.op = "login" /\ s.guid = p
  BY <1>2 DEF Statement, Statements
<1>4. queue \in Seq(Statements) /\ session \in [Players -> {"offline", "loading", "loaded", "online"}]
  BY DEF BaseInv, TypeOK, QueueType, SessionType
<1>5. /\ queue' \in Seq(Statements) /\ Len(queue) \in Nat
      /\ DOMAIN queue = 1..Len(queue) /\ DOMAIN queue' = 1..Len(queue) + 1
      /\ \A n \in DOMAIN queue : queue'[n] = queue[n]
      /\ queue'[Len(queue) + 1] = s
  <2>1. queue' = Append(queue, s)
    BY <1>1, <1>2
  <2>2. /\ queue' \in Seq(Statements) /\ Len(queue) \in Nat /\ Len(queue') = Len(queue) + 1
        /\ \A n \in 1..Len(queue) : queue'[n] = queue[n]
        /\ queue'[Len(queue) + 1] = s
    BY <1>3, <1>4, <2>1
  <2>3. DOMAIN queue = 1..Len(queue) /\ DOMAIN queue' = 1..Len(queue')
    BY <1>4, <2>2
  <2> QED
    BY <2>2, <2>3
<1>6. \A n \in DOMAIN queue : queue[n].guid \in Players
  <2> TAKE n \in DOMAIN queue
  <2>1. queue[n] \in Statements
    BY <1>4
  <2> QED
    BY <2>1 DEF Statements
<1>7. QueueType'
  <2>1. \A n \in DOMAIN queue' : Enters(queue'[n]) => queue'[n].new \in Ids
    BY <1>3, <1>5 DEF BaseInv, TypeOK, QueueType, Enters
  <2> QED
    BY <1>5, <2>1 DEF QueueType, Enters
<1>8. \A n \in DOMAIN queue : queue[n].op = "login" => queue[n].guid # p
  BY <1>1 DEF BaseInv, Queued
<1>9. Queued'
  <2>1. ASSUME NEW n \in DOMAIN queue', queue'[n].op = "login"
        PROVE  session'[queue'[n].guid] = "loading"
    <3>1. CASE n \in DOMAIN queue
      <4>1. session[queue[n].guid] = "loading"
        BY <1>5, <2>1, <3>1 DEF BaseInv, Queued
      <4> QED
        BY <1>1, <1>4, <1>5, <1>6, <3>1, <4>1
    <3>2. CASE n = Len(queue) + 1
      BY <1>1, <1>3, <1>4, <1>5, <3>2
    <3> QED
      BY <1>5, <3>1, <3>2
  <2>2. ASSUME NEW m \in DOMAIN queue', NEW n \in DOMAIN queue', m < n, queue'[m].op = "login"
        PROVE  queue'[n].guid # queue'[m].guid
    <3>1. m \in DOMAIN queue
      BY <1>5, <2>2
    <3>2. CASE n \in DOMAIN queue
      BY <1>5, <2>2, <3>1, <3>2 DEF BaseInv, Queued
    <3>3. CASE n = Len(queue) + 1
      BY <1>3, <1>5, <1>8, <2>2, <3>1, <3>3
    <3> QED
      BY <1>5, <3>2, <3>3
  <2>3. ASSUME NEW q \in Players, session'[q] = "loaded", NEW n \in DOMAIN queue'
        PROVE  queue'[n].guid # q
    <3>1. session[q] = "loaded" /\ q # p
      BY <1>1, <1>4, <2>3
    <3>2. CASE n \in DOMAIN queue
      BY <1>5, <3>1, <3>2 DEF BaseInv, Queued
    <3>3. CASE n = Len(queue) + 1
      BY <1>3, <1>5, <3>1, <3>3
    <3> QED
      BY <1>5, <3>2, <3>3
  <2> QED
    BY <2>1, <2>2, <2>3 DEF Queued
<1>10. TableType' /\ MapsType' /\ MemoryType' /\ used' \subseteq Ids /\ prompt' \in BOOLEAN
       /\ Matching(m_instanceSaveById, m_boundInstances)' /\ Keys'
  BY <1>1 DEF BaseInv, TypeOK, TableType, MapsType, MemoryType, SavesType, BoundType,
              Matching, Keys, Key
<1>11. SessionType' /\ OnlyOnline'
  BY <1>1, <1>4 DEF BaseInv, TypeOK, SessionType, OnlyOnline
<1> QED
  BY <1>7, <1>9, <1>10, <1>11 DEF BaseInv, TypeOK

\* The player gets online with the binds of its rows.
LEMMA StartedFacts ==
  ASSUME BaseInv, NEW p \in Players, Started(p), UNCHANGED character_instance
  PROVE  /\ SessionType' /\ Keys'
         /\ session[p] = "loaded" /\ session'[p] = "online" /\ holder'[p] = {}
         /\ \A q \in Players \ {p} : session'[q] = session[q] /\ holder'[q] = holder[q]
<1>1. /\ session[p] = "loaded" /\ session' = [session EXCEPT ![p] = "online"]
      /\ holder' = [holder EXCEPT ![p] = {}]
  BY DEF Started
<1>2. SessionType
  BY DEF BaseInv, TypeOK
<1>3. SessionType'
  BY <1>1, <1>2 DEF SessionType
<1>4. Keys'
  BY <1>1, <1>2 DEF BaseInv, Keys, Key, SessionType
<1> QED
  BY <1>1, <1>2, <1>3, <1>4 DEF SessionType

LoadsBinds(p, saves, bound) ==
  /\ Loaded(p) = [saves |-> saves, bound |-> bound]
  /\ SavesType(saves) /\ BoundType(bound) /\ Matching(saves, bound)
  /\ \A q \in Players \ {p} : bound[q] = m_boundInstances[q]
  /\ \A i \in DOMAIN saves :
       \/ /\ i \in DOMAIN m_instanceSaveById
          /\ saves[i].difficulty = m_instanceSaveById[i].difficulty
       \/ \E r \in holder[p] : r.instance = i /\ saves[i].difficulty = r.difficulty
  /\ \A d \in Difficulties : bound[p][d] # NoBind =>
       \E r \in LoadRows(p) : /\ RowDifficulty(r) = d
                              /\ bound[p][d] = [id |-> r.instance, perm |-> r.permanent]
  /\ \A r \in LastRows(p) :
       /\ RowDifficulty(r) \in Difficulties
       /\ bound[p][RowDifficulty(r)] = [id |-> r.instance, perm |-> r.permanent]

LEMMA LoadFacts ==
  ASSUME BaseInv, NEW p \in Players, session[p] = "loaded"
  PROVE  \E saves, bound : LoadsBinds(p, saves, bound)
<1>1. PICK mem : mem = Loaded(p)
  OBVIOUS
<1>2. PICK saves, bound : saves = mem.saves /\ bound = mem.bound
  OBVIOUS
<1>3. Loaded(p) = [saves |-> saves, bound |-> bound]
  BY <1>1, <1>2 DEF Loaded
<1>4. LoadsBinds(p, saves, bound)
  BY <1>1, <1>2, <1>3, LoadedFacts DEF LoadsBinds
<1> QED
  BY <1>4

LEMMA LoginOutside_Base ==
  ASSUME BaseInv, NEW p \in Players, LoginOutside(p)
  PROVE  BaseInv'
<1>1. /\ Started(p) /\ Store(Loaded(p))
      /\ UNCHANGED <<instance, character_instance, queue, maps, m_mapRef, away, used, prompt>>
  BY DEF LoginOutside, tables
<1>2. /\ SessionType' /\ Keys'
      /\ session[p] = "loaded" /\ session'[p] = "online" /\ holder'[p] = {}
      /\ \A q \in Players \ {p} : session'[q] = session[q] /\ holder'[q] = holder[q]
  BY <1>1, StartedFacts
<1>3. PICK saves, bound : LoadsBinds(p, saves, bound)
  BY <1>2, LoadFacts
<1>4. m_instanceSaveById' = saves /\ m_boundInstances' = bound
  BY <1>1, <1>3 DEF Store, LoadsBinds
<1>5. MemoryType' /\ Matching(m_instanceSaveById, m_boundInstances)'
  BY <1>3, <1>4 DEF MemoryType, LoadsBinds
<1>6. TypeOK
  BY DEF BaseInv
<1>7. Extended
  BY <1>1, <1>6, SameQueue
<1>8. QueueType' /\ Queued'
  BY <1>2, <1>7, QueueStep
<1>9. TableType' /\ MapsType' /\ used' \subseteq Ids /\ prompt' \in BOOLEAN
  BY <1>1, <1>6 DEF TypeOK, TableType, MapsType
<1>10. OnlyOnline'
  BY <1>1, <1>2, <1>3, <1>4 DEF BaseInv, OnlyOnline, LoadsBinds
<1> QED
  BY <1>2, <1>5, <1>8, <1>9, <1>10 DEF BaseInv, TypeOK

LEMMA LoginInsideFacts ==
  ASSUME BaseInv, NEW p \in Players, NEW d \in Difficulties, LoginInside(p, d)
  PROVE  \E saves, bound, i, ms :
           /\ LoadsBinds(p, saves, bound)
           /\ i = InstanceFor(bound, p, d) /\ i # NoId /\ i \in Ids
           /\ used' = UsedWith(bound, p, d, i)
           /\ FindsMap(saves, bound, p, d, i, ms)
           /\ Entering(saves, bound, p, i, ms)
<1>1. PICK i, ms : /\ i = InstanceFor(Loaded(p).bound, p, d) /\ i # NoId
                   /\ used' = UsedWith(Loaded(p).bound, p, d, i)
                   /\ ms = MapsWith(Loaded(p), p, d, i)
                   /\ AddPlayerToMap(Loaded(p), p, i, ms, i)
  BY DEF LoginInside
<1>2. Started(p) /\ UNCHANGED <<character_instance, prompt>>
  BY DEF LoginInside
<1>3. /\ SessionType' /\ Keys'
      /\ session[p] = "loaded" /\ session'[p] = "online" /\ holder'[p] = {}
      /\ \A q \in Players \ {p} : session'[q] = session[q] /\ holder'[q] = holder[q]
  BY <1>2, StartedFacts
<1>4. PICK saves, bound : LoadsBinds(p, saves, bound)
  BY <1>3, LoadFacts
<1>5. PICK mem : mem = [saves |-> saves, bound |-> bound]
  OBVIOUS
<1>6. Loaded(p) = mem /\ mem.bound = bound
  BY <1>4, <1>5 DEF LoadsBinds
<1>7. /\ i = InstanceFor(bound, p, d) /\ used' = UsedWith(bound, p, d, i)
      /\ ms = MapsWith(mem, p, d, i) /\ AddPlayerToMap(mem, p, i, ms, i)
  BY <1>1, <1>6
<1>8. SavesType(saves) /\ BoundType(bound) /\ Matching(saves, bound) /\ TypeOK
  BY <1>4 DEF LoadsBinds, BaseInv
<1>9. /\ i \in Ids
      /\ bound[p][d] # NoBind => i = bound[p][d].id
  BY <1>1, <1>7, <1>8, InstanceForFacts
<1>10. FindsMap(saves, bound, p, d, i, ms)
  <2>1. ms = MapsWith([saves |-> saves, bound |-> bound], p, d, i)
    BY <1>5, <1>7
  <2>2. bound[p][d] # NoBind => i = bound[p][d].id
    BY <1>9
  <2> QED
    BY <1>8, <1>9, <2>1, <2>2, MapsWithFacts
<1>11. /\ DOMAIN ms = DOMAIN maps \cup {i} /\ ms \in [DOMAIN ms -> MapType]
       /\ DOMAIN ms \subseteq Ids
  BY <1>8, <1>9, <1>10 DEF FindsMap, TypeOK, MapsType
<1>12. used' \subseteq Ids
  BY <1>7, <1>8, <1>9 DEF UsedWith, TypeOK
<1>13. /\ Adds(saves, bound, p, i, ms)
       /\ \/ Solos(saves, bound, p, i, ms)
          \/ queue' = queue /\ m_boundInstances' = bound
  <2>1. AddPlayerToMap([saves |-> saves, bound |-> bound], p, i, ms, i)
    BY <1>5, <1>7
  <2>2. i \in DOMAIN ms \cup {NoId} /\ i \in DOMAIN ms /\ DOMAIN maps \subseteq DOMAIN ms
    BY <1>11
  <2> QED
    BY <1>8, <1>9, <1>11, <2>1, <2>2, AddFacts
<1>14. Entering(saves, bound, p, i, ms)
  BY <1>2, <1>3, <1>4, <1>8, <1>9, <1>11, <1>12, <1>13 DEF Entering, LoadsBinds
<1> QED
  BY <1>1, <1>4, <1>7, <1>9, <1>10, <1>14

LEMMA LoginInside_Base ==
  ASSUME BaseInv, NEW p \in Players, NEW d \in Difficulties, LoginInside(p, d)
  PROVE  BaseInv' /\ Extended
<1>1. PICK saves, bound, i, ms : Entering(saves, bound, p, i, ms)
  BY LoginInsideFacts
<1> QED
  BY <1>1, AddBase

LEMMA UnloadFacts ==
  ASSUME NEW saves, SavesType(saves), NEW bound, Matching(saves, bound), NEW i, NEW ref,
         NEW left, left = UnloadIfEmpty(saves, i, ref)
  PROVE  /\ SavesType(left) /\ Matching(left, bound)
         /\ DOMAIN left \subseteq DOMAIN saves
         /\ \A k \in DOMAIN left : left[k] = saves[k]
<1>1. CASE i \in DOMAIN saves /\ saves[i].players = {} /\ ~HavePlayers(ref, i)
  <2>1. left = [k \in DOMAIN saves \ {i} |-> saves[k]]
    BY <1>1 DEF UnloadIfEmpty, Without
  <2>2. /\ SavesType(left) /\ DOMAIN left = DOMAIN saves \ {i}
        /\ \A k \in DOMAIN left : left[k] = saves[k]
    BY <2>1 DEF SavesType
  <2>3. ASSUME NEW p \in Players, NEW d \in Difficulties, bound[p][d] # NoBind
        PROVE  /\ bound[p][d].id \in DOMAIN left
               /\ left[bound[p][d].id].difficulty = d
               /\ p \in left[bound[p][d].id].players
               /\ left[bound[p][d].id].canReset => ~bound[p][d].perm
    <3>1. /\ bound[p][d].id \in DOMAIN saves
          /\ saves[bound[p][d].id].difficulty = d
          /\ p \in saves[bound[p][d].id].players
          /\ saves[bound[p][d].id].canReset => ~bound[p][d].perm
      BY <2>3 DEF Matching
    <3> QED
      BY <1>1, <2>2, <3>1
  <2>4. ASSUME NEW k \in DOMAIN left, NEW p \in left[k].players
        PROVE  bound[p][left[k].difficulty] # NoBind /\ bound[p][left[k].difficulty].id = k
    <3>1. k \in DOMAIN saves /\ left[k] = saves[k] /\ p \in saves[k].players
      BY <2>2
    <3>2. bound[p][saves[k].difficulty] # NoBind /\ bound[p][saves[k].difficulty].id = k
      BY <3>1 DEF Matching
    <3> QED
      BY <3>1, <3>2
  <2> QED
    BY <2>2, <2>3, <2>4 DEF Matching
<1>2. CASE ~(i \in DOMAIN saves /\ saves[i].players = {} /\ ~HavePlayers(ref, i))
  BY <1>2 DEF UnloadIfEmpty
<1> QED
  BY <1>1, <1>2

LEMMA LogoutFacts ==
  ASSUME BaseInv, NEW p \in Players, Logout(p)
  PROVE  /\ MemoryType' /\ Matching(m_instanceSaveById, m_boundInstances)'
         /\ DOMAIN m_instanceSaveById' \subseteq DOMAIN m_instanceSaveById
         /\ \A k \in DOMAIN m_instanceSaveById' :
              m_instanceSaveById'[k].difficulty = m_instanceSaveById[k].difficulty
         /\ m_boundInstances' = [m_boundInstances EXCEPT ![p] = NoBinds]
         /\ DOMAIN maps' = DOMAIN maps /\ MapsType'
         /\ \A k \in DOMAIN maps : maps'[k].difficulty = maps[k].difficulty
<1>1. PICK saves, bound : saves = m_instanceSaveById /\ bound = m_boundInstances
  OBVIOUS
<1>2. PICK left, after : left = m_instanceSaveById' /\ after = m_boundInstances'
  OBVIOUS
<1>3. SavesType(saves) /\ BoundType(bound) /\ Matching(saves, bound)
  BY <1>1 DEF BaseInv, TypeOK, MemoryType
<1>4. PICK binds : binds = {m_boundInstances[p][d].id : d \in
                              {e \in Difficulties : m_boundInstances[p][e] # NoBind}}
  OBVIOUS
<1>5. PICK gone : gone = {<<p, b>> : b \in binds}
  OBVIOUS
<1>6. PICK clean : clean = RemovePlayers(m_instanceSaveById, gone, m_mapRef)
  OBVIOUS
<1>7. PICK i, ref : i = m_mapRef[p] /\ ref = [m_mapRef EXCEPT ![p] = NoId]
  OBVIOUS
<1>8. /\ m_instanceSaveById' = UnloadIfEmpty(clean, i, ref)
      /\ m_boundInstances' = [m_boundInstances EXCEPT ![p] = NoBinds]
      /\ m_mapRef' = ref /\ away' = away
      /\ maps' = IF i # NoId /\ ~HavePlayers(ref, i) THEN [maps EXCEPT ![i].unloading = TRUE]
                 ELSE maps
  BY <1>4, <1>5, <1>6, <1>7 DEF Logout
<1>9. bound \in [Players -> [Difficulties -> {NoBind} \cup Binds]]
      /\ NoBinds \in [Difficulties -> {NoBind} \cup Binds]
  BY <1>3 DEF BoundType, NoBinds
<1>10. BoundType(after)
  BY <1>1, <1>2, <1>8, <1>9 DEF BoundType
<1>11. \A q \in Players, d \in Difficulties : after[q][d] =
         IF bound[q][d] # NoBind /\ <<q, bound[q][d].id>> \in gone THEN NoBind ELSE bound[q][d]
  <2> TAKE q \in Players, d \in Difficulties
  <2>1. CASE q = p
    <3>1. after[q][d] = NoBind
      BY <1>1, <1>2, <1>8, <1>9, <2>1 DEF NoBinds
    <3>2. bound[q][d] # NoBind => <<q, bound[q][d].id>> \in gone
      BY <1>1, <1>4, <1>5, <2>1
    <3> QED
      BY <3>1, <3>2
  <2>2. CASE q # p
    <3>1. after[q][d] = bound[q][d]
      BY <1>1, <1>2, <1>8, <1>9, <2>2
    <3>2. <<q, bound[q][d].id>> \notin gone
      BY <1>5, <2>2
    <3> QED
      BY <3>1, <3>2
  <2> QED
    BY <2>1, <2>2
<1>12. Matching(clean, after)
  BY <1>1, <1>3, <1>6, <1>10, <1>11, LeaveMatch
<1>13. /\ SavesType(clean) /\ DOMAIN clean \subseteq DOMAIN saves
       /\ \A k \in DOMAIN clean : clean[k].difficulty = saves[k].difficulty
  BY <1>1, <1>3, <1>6, RemovePlayersFacts
<1>14. /\ SavesType(left) /\ Matching(left, after) /\ DOMAIN left \subseteq DOMAIN clean
       /\ \A k \in DOMAIN left : left[k] = clean[k]
  <2>1. left = UnloadIfEmpty(clean, i, ref)
    BY <1>2, <1>8
  <2> QED
    BY <1>12, <1>13, <2>1, UnloadFacts
<1>15. MapsType
  BY DEF BaseInv, TypeOK
<1>16. /\ DOMAIN maps' = DOMAIN maps /\ maps' \in [DOMAIN maps' -> MapType]
       /\ \A k \in DOMAIN maps : maps'[k].difficulty = maps[k].difficulty
  <2>1. CASE i # NoId /\ ~HavePlayers(ref, i)
    <3>1. maps' = [maps EXCEPT ![i].unloading = TRUE] /\ i \in DOMAIN maps
      BY <1>7, <1>8, <1>15, <2>1 DEF MapsType
    <3> QED
      BY <1>15, <3>1 DEF MapsType, MapType
  <2>2. CASE ~(i # NoId /\ ~HavePlayers(ref, i))
    BY <1>8, <1>15, <2>2 DEF MapsType
  <2> QED
    BY <2>1, <2>2
<1>17. MapsType'
  BY <1>7, <1>8, <1>15, <1>16 DEF MapsType
<1> QED
  BY <1>1, <1>2, <1>8, <1>10, <1>13, <1>14, <1>16, <1>17 DEF MemoryType

LEMMA Logout_Base ==
  ASSUME BaseInv, NEW p \in Players, Logout(p)
  PROVE  BaseInv'
<1>1. /\ MemoryType' /\ Matching(m_instanceSaveById, m_boundInstances)' /\ MapsType'
      /\ m_boundInstances' = [m_boundInstances EXCEPT ![p] = NoBinds]
  BY LogoutFacts
<1>2. /\ session[p] = "online" /\ session' = [session EXCEPT ![p] = "offline"] /\ p \notin away
      /\ m_mapRef' = [m_mapRef EXCEPT ![p] = NoId]
      /\ UNCHANGED <<instance, character_instance, queue, away, holder, used, prompt>>
  BY DEF Logout, tables
<1>3. TypeOK
  BY DEF BaseInv
<1>4. SessionType'
  BY <1>2, <1>3 DEF TypeOK, SessionType
<1>5. QueueType' /\ Queued'
  <2>1. Extended
    BY <1>2, <1>3, SameQueue
  <2>2. /\ \A q \in Players : session[q] = "loading" => session'[q] = "loading"
        /\ \A q \in Players : session'[q] = "loaded" => session[q] = "loaded"
    BY <1>2, <1>3 DEF TypeOK, SessionType
  <2> QED
    BY <2>1, <2>2, QueueStep
<1>6. TableType' /\ used' \subseteq Ids /\ prompt' \in BOOLEAN /\ Keys'
  BY <1>2, <1>3 DEF TypeOK, TableType, BaseInv, Keys, Key
<1>7. OnlyOnline'
  BY <1>1, <1>2, <1>3 DEF BaseInv, OnlyOnline, TypeOK, SessionType, MapsType, MemoryType, BoundType
<1> QED
  BY <1>1, <1>4, <1>5, <1>6, <1>7 DEF BaseInv, TypeOK

LEMMA RestartFacts ==
  ASSUME BaseInv, Restart
  PROVE  \E bound \in SUBSET DOMAIN instance :
           /\ instance' = [i \in bound |-> instance[i]]
           /\ character_instance' = {r \in character_instance : r.instance \in bound}
           /\ used' = {0} \cup bound
           /\ queue' = <<>> /\ m_instanceSaveById' = Nothing
           /\ m_boundInstances' = [p \in Players |-> NoBinds]
           /\ maps' = Nothing /\ m_mapRef' = [p \in Players |-> NoId] /\ away' = {}
           /\ session' = [p \in Players |-> "offline"]
           /\ holder' = [p \in Players |-> {}] /\ prompt' = prompt
<1>1. PICK expired \in SUBSET DOMAIN instance :
        LET bound == {i \in DOMAIN instance \ expired : \E r \in character_instance : r.instance = i}
        IN  /\ instance' = [i \in bound |-> instance[i]]
            /\ character_instance' = {r \in character_instance : r.instance \in bound}
            /\ used' = {0} \cup bound
  BY DEF Restart
<1>2. PICK bound : bound = {i \in DOMAIN instance \ expired :
                              \E r \in character_instance : r.instance = i}
  OBVIOUS
<1> QED
  BY <1>1, <1>2 DEF Restart

LEMMA Restart_Base ==
  ASSUME BaseInv, Restart
  PROVE  BaseInv'
<1>1. PICK bound \in SUBSET DOMAIN instance :
        /\ instance' = [i \in bound |-> instance[i]]
        /\ character_instance' = {r \in character_instance : r.instance \in bound}
        /\ used' = {0} \cup bound
        /\ queue' = <<>> /\ m_instanceSaveById' = Nothing
        /\ m_boundInstances' = [p \in Players |-> NoBinds]
        /\ maps' = Nothing /\ m_mapRef' = [p \in Players |-> NoId] /\ away' = {}
        /\ session' = [p \in Players |-> "offline"]
        /\ holder' = [p \in Players |-> {}] /\ prompt' = prompt
  BY RestartFacts
<1>2. TableType
  BY DEF BaseInv, TypeOK
<1>3. TableType'
  BY <1>1, <1>2 DEF TableType
<1>4. QueueType' /\ MapsType' /\ SessionType' /\ Queued'
  BY <1>1 DEF QueueType, MapsType, SessionType, Nothing, Queued
<1>5. NoBinds \in [Difficulties -> {NoBind} \cup Binds]
  BY DEF NoBinds
<1>6. MemoryType'
  BY <1>1, <1>5 DEF MemoryType, SavesType, BoundType, Nothing
<1>7. used' \subseteq Ids /\ prompt' \in BOOLEAN
  BY <1>1, <1>2, SavesAssumption DEF TableType, Ids, BaseInv, TypeOK
<1>8. Matching(m_instanceSaveById, m_boundInstances)'
  BY <1>1 DEF Matching, Nothing, NoBinds
<1>9. Keys' /\ OnlyOnline'
  BY <1>1 DEF BaseInv, Keys, Key, OnlyOnline
<1> QED
  BY <1>3, <1>4, <1>6, <1>7, <1>8, <1>9 DEF BaseInv, TypeOK

LEMMA Base_Next ==
  ASSUME BaseInv, [Next]_vars
  PROVE  BaseInv'
<1>1. CASE UNCHANGED vars
  BY <1>1 DEF vars, BaseInv, TypeOK, TableType, QueueType, Enters, MapsType, SessionType, MemoryType,
              SavesType, BoundType, Matching, Keys, Key, OnlyOnline, Queued
<1>2. CASE Next
  BY <1>2, Work_Base, ResetAll_Base, Restart_Base, ResetInstance_Base, DestroyInstance_Base,
     Away_Base, PermBind_Base, RequestLogin_Base, LoginOutside_Base, Logout_Base,
     Enter_Base, LoginInside_Base, ResetInstances_Base, UnbindInstance_Base DEF Next
<1> QED
  BY <1>1, <1>2

\* Binds and saves refer to each other, whatever the worker does: no bind
\* names a save that is gone or does not list the player, and no save lists a
\* player without that bind (Player::BindToInstance, InstanceSave::RemovePlayer,
\* _ResetSave).  So the loop of _ResetSave ends and leaves nothing dangling.
THEOREM Binds_Match == Spec => []BindsMatch
<1>1. Init => BaseInv
  BY Init_Base
<1>2. BaseInv /\ [Next]_vars => BaseInv'
  BY Base_Next
<1>3. BaseInv => BindsMatch
  BY DEF BaseInv, Matching, BindsMatch
<1> QED
  BY <1>1, <1>2, <1>3, PTL DEF Spec

-----------------------------------------------------------------------------
(* Strangers share no instance.                                            *)

\* No id is freed, and nothing new is known of an instance, except that a
\* bind may become permanent.
Shrinks(saves, bound) ==
  /\ used \subseteq used'
  /\ DOMAIN m_instanceSaveById' \subseteq DOMAIN saves
  /\ \A k \in DOMAIN m_instanceSaveById' : m_instanceSaveById'[k].difficulty = saves[k].difficulty
  /\ DOMAIN maps' \subseteq DOMAIN maps
  /\ \A k \in DOMAIN maps' : maps'[k].difficulty = maps[k].difficulty
  /\ DOMAIN instance' \subseteq DOMAIN instance
  /\ \A k \in DOMAIN instance' : instance'[k] = instance[k]
  /\ character_instance' \subseteq character_instance
  /\ \A q \in Players : \A e \in Difficulties :
       m_boundInstances'[q][e] \in {NoBind, bound[q][e]} \/ m_boundInstances'[q][e].perm
  /\ \A n \in DOMAIN queue' : Enters(queue'[n]) =>
       \/ \E m \in DOMAIN queue : queue'[n] = queue[m]
       \/ queue'[n].permanent /\ queue'[n].new \in used
  /\ \A q \in Players : \A r \in holder'[q] : r \in holder[q] /\ r.instance \in DOMAIN instance'

LEMMA BindTemporary ==
  ASSUME NEW i \in Ids, NEW b, b = [id |-> i, perm |-> FALSE]
  PROVE  b # NoBind /\ b.id = i /\ ~b.perm /\ b \in Binds
<1>1. b \in Binds /\ b.id = i /\ ~b.perm
  BY DEF Binds
<1>2. NoBind \notin Binds
  BY SavesAssumption DEF Binds, Ids
<1> QED
  BY <1>1, <1>2

LEMMA ShrinkApart ==
  ASSUME NEW saves, NEW bound, Apart(saves, bound, maps), Shrinks(saves, bound)
  PROVE  Apart(m_instanceSaveById, m_boundInstances, maps)'
<1>1. IdsUsed(m_instanceSaveById)'
  <2>1. \A n \in DOMAIN queue' : Enters(queue'[n]) => queue'[n].new \in used'
    BY DEF Apart, IdsUsed, Shrinks
  <2> QED
    BY <2>1 DEF Apart, IdsUsed, Shrinks, Enters
<1>2. SameDifficulty(m_instanceSaveById, maps)'
  BY DEF Apart, SameDifficulty, Shrinks
<1>3. ASSUME NEW q \in Players, NEW i \in Ids, Temporary(m_boundInstances, q, i)'
      PROVE  Temporary(bound, q, i)
  <2>1. CASE \E e \in Difficulties : m_boundInstances'[q][e] = [id |-> i, perm |-> FALSE]
    <3>1. PICK e \in Difficulties : m_boundInstances'[q][e] = [id |-> i, perm |-> FALSE]
      BY <2>1
    <3>2. m_boundInstances'[q][e] # NoBind /\ ~m_boundInstances'[q][e].perm
      BY <3>1, BindTemporary
    <3>3. m_boundInstances'[q][e] = bound[q][e]
      BY <3>2 DEF Shrinks
    <3> QED
      BY <3>1, <3>3 DEF Temporary
  <2>2. CASE Row(q, i, FALSE) \in character_instance'
    BY <2>2 DEF Temporary, Shrinks
  <2>3. CASE \E n \in DOMAIN queue' :
               /\ Enters(queue'[n]) /\ queue'[n].guid = q /\ queue'[n].new = i
               /\ ~queue'[n].permanent
    <3>1. PICK n \in DOMAIN queue' :
            /\ Enters(queue'[n]) /\ queue'[n].guid = q /\ queue'[n].new = i
            /\ ~queue'[n].permanent
      BY <2>3
    <3>2. PICK m \in DOMAIN queue : queue'[n] = queue[m]
      BY <3>1 DEF Shrinks
    <3> QED
      BY <3>1, <3>2 DEF Temporary, Enters
  <2>4. CASE \E r \in holder'[q] : r.instance = i /\ ~r.permanent
    BY <2>4 DEF Temporary, Shrinks
  <2> QED
    BY <1>3, <2>1, <2>2, <2>3, <2>4 DEF Temporary, Enters
<1>4. Solo(m_boundInstances)'
  BY <1>3 DEF Apart, Solo
<1> QED
  BY <1>1, <1>2, <1>4 DEF Apart

\* The players who log in: their binds are what the query found.
LEMMA LoadApart ==
  ASSUME BaseInv, Apart(m_instanceSaveById, m_boundInstances, maps),
         NEW p \in Players, NEW saves, NEW bound, LoadsBinds(p, saves, bound)
  PROVE  Apart(saves, bound, maps)
<1>1. \A i \in DOMAIN saves :
        \/ i \in DOMAIN m_instanceSaveById /\ saves[i].difficulty = m_instanceSaveById[i].difficulty
        \/ i \in DOMAIN instance /\ saves[i].difficulty = instance[i]
  BY DEF LoadsBinds, Apart, SameDifficulty
<1>2. IdsUsed(saves)
  BY <1>1 DEF Apart, IdsUsed
<1>3. SameDifficulty(saves, maps)
  BY <1>1 DEF Apart, SameDifficulty
<1>4. ASSUME NEW q \in Players, NEW i \in Ids, Temporary(bound, q, i)
      PROVE  Temporary(m_boundInstances, q, i)
  <2>1. CASE \E e \in Difficulties : bound[q][e] = [id |-> i, perm |-> FALSE]
    <3>1. PICK e \in Difficulties : bound[q][e] = [id |-> i, perm |-> FALSE]
      BY <2>1
    <3>2. CASE q = p
      <4>1. PICK r \in LoadRows(p) : bound[q][e] = [id |-> r.instance, perm |-> r.permanent]
        BY <3>1, <3>2, BindTemporary DEF LoadsBinds
      <4>2. r.instance = i /\ ~r.permanent
        BY <3>1, <4>1
      <4> QED
        BY <3>2, <4>1, <4>2 DEF Temporary, LoadRows
    <3>3. CASE q # p
      BY <3>1, <3>3 DEF Temporary, LoadsBinds
    <3> QED
      BY <3>2, <3>3
  <2>2. CASE ~\E e \in Difficulties : bound[q][e] = [id |-> i, perm |-> FALSE]
    BY <1>4, <2>2 DEF Temporary
  <2> QED
    BY <2>1, <2>2
<1>5. Solo(bound)
  BY <1>4 DEF Apart, Solo
<1> QED
  BY <1>2, <1>3, <1>5 DEF Apart

\* The player finds its own instance, with its difficulty, or a fresh one.
Finds(saves, bound, p, d, i, ms) ==
  /\ FindsMap(saves, bound, p, d, i, ms)
  /\ bound[p][d] # NoBind =>
       /\ used' = used /\ i \in DOMAIN saves
       /\ i = bound[p][d].id /\ ms[i].difficulty = d
  /\ bound[p][d] = NoBind => used' = used \cup {i} /\ i \notin used

LEMMA FindsFacts ==
  ASSUME TypeOK, NEW saves, SavesType(saves), NEW bound, BoundType(bound), Matching(saves, bound),
         SameDifficulty(saves, maps),
         NEW p \in Players, NEW d \in Difficulties, NEW i, i = InstanceFor(bound, p, d), i # NoId,
         used' = UsedWith(bound, p, d, i), NEW ms, FindsMap(saves, bound, p, d, i, ms)
  PROVE  Finds(saves, bound, p, d, i, ms)
<1>1. /\ i \in Ids
      /\ bound[p][d] # NoBind => i = bound[p][d].id
      /\ bound[p][d] = NoBind => i \notin used
  BY InstanceForFacts
<1>2. ASSUME bound[p][d] # NoBind
      PROVE  i \in DOMAIN saves /\ ms[i].difficulty = d
  <2>1. i \in DOMAIN saves /\ saves[i].difficulty = d
    BY <1>1, <1>2 DEF Matching
  <2>2. CASE i \in DOMAIN maps
    BY <2>1, <2>2 DEF FindsMap, SameDifficulty
  <2>3. CASE i \notin DOMAIN maps
    BY <1>2, <2>1, <2>3 DEF FindsMap
  <2> QED
    BY <2>1, <2>2, <2>3
<1> QED
  BY <1>1, <1>2 DEF Finds, UsedWith

\* A fresh id is nobody's.
LEMMA FreshId ==
  ASSUME NEW saves, NEW bound, BoundType(bound), Matching(saves, bound), IdsUsed(saves),
         SameDifficulty(saves, maps), NEW i \in Ids \ used, NEW q \in Players
  PROVE  ~Temporary(bound, q, i)
<1>1. ASSUME NEW e \in Difficulties, bound[q][e] = [id |-> i, perm |-> FALSE]
      PROVE  FALSE
  <2>1. bound[q][e] # NoBind /\ bound[q][e].id = i
    BY <1>1, BindTemporary
  <2> QED
    BY <2>1 DEF Matching, IdsUsed
<1>2. Row(q, i, FALSE) \notin character_instance
  <2>1. Row(q, i, FALSE).instance = i
    BY DEF Row
  <2> QED
    BY <2>1 DEF IdsUsed
<1>3. \A r \in holder[q] : r.instance # i
  BY DEF SameDifficulty, IdsUsed
<1>4. \A n \in DOMAIN queue : Enters(queue[n]) => queue[n].new # i
  BY DEF IdsUsed
<1> QED
  BY <1>1, <1>2, <1>3, <1>4 DEF Temporary

\* AddPlayerToMap with the instance found.
LEMMA AddApart ==
  ASSUME BaseInv, NEW saves, NEW bound, Apart(saves, bound, maps),
         NEW p, NEW d \in Difficulties, NEW i, NEW ms,
         Entering(saves, bound, p, i, ms), Finds(saves, bound, p, d, i, ms)
  PROVE  Apart(m_instanceSaveById, m_boundInstances, maps)'
<1>1. /\ SavesType(saves) /\ BoundType(bound) /\ Matching(saves, bound)
      /\ p \in Players /\ i \in Ids /\ Adds(saves, bound, p, i, ms)
      /\ character_instance' = character_instance
      /\ \A q \in Players : holder'[q] \subseteq holder[q]
  BY DEF Entering
<1>2. IdsUsed(saves) /\ SameDifficulty(saves, maps) /\ Solo(bound)
  BY DEF Apart
<1>3. CASE bound[p][d] # NoBind
  <2>1. /\ used' = used /\ i \in DOMAIN saves /\ ms[i].difficulty = d /\ DOMAIN ms = DOMAIN maps \cup {i}
        /\ \A k \in DOMAIN maps : ms[k] = maps[k]
    BY <1>3 DEF Finds, FindsMap
  <2>2. queue' = queue /\ m_boundInstances' = bound
    BY <1>3, <2>1 DEF Entering, Solos
  <2>3. /\ DOMAIN m_instanceSaveById' \subseteq DOMAIN saves
        /\ \A k \in DOMAIN m_instanceSaveById' :
             m_instanceSaveById'[k].difficulty = saves[k].difficulty
        /\ DOMAIN instance' = DOMAIN instance
        /\ \A k \in DOMAIN instance : instance'[k] = instance[k]
        /\ DOMAIN maps' = DOMAIN maps \cup {i}
        /\ \A k \in DOMAIN maps : maps'[k].difficulty = maps[k].difficulty
        /\ maps'[i].difficulty = d
    BY <1>1, <2>1 DEF Adds
  <2>4. saves[i].difficulty = d
    BY <1>1, <1>3 DEF Finds, Matching
  <2>5. IdsUsed(m_instanceSaveById)'
    BY <1>1, <1>2, <2>1, <2>2, <2>3 DEF IdsUsed, Enters
  <2>6. SameDifficulty(m_instanceSaveById, maps)'
    BY <1>1, <1>2, <2>1, <2>3, <2>4 DEF SameDifficulty
  <2>7. ASSUME NEW q \in Players, NEW k \in Ids, Temporary(m_boundInstances, q, k)'
        PROVE  Temporary(bound, q, k)
    BY <1>1, <2>2, <2>7 DEF Temporary, Enters
  <2>8. Solo(m_boundInstances)'
    BY <1>2, <2>7 DEF Solo
  <2> QED
    BY <2>5, <2>6, <2>8 DEF Apart
<1>4. CASE bound[p][d] = NoBind
  <2>1. /\ used' = used \cup {i} /\ i \notin used /\ DOMAIN ms = DOMAIN maps \cup {i}
        /\ \A k \in DOMAIN maps : ms[k] = maps[k]
    BY <1>4 DEF Finds, FindsMap
  <2>2. i \notin DOMAIN saves /\ i \notin DOMAIN instance
    BY <1>2, <2>1 DEF IdsUsed
  <2>3. \A n \in DOMAIN queue' :
          \/ n \in DOMAIN queue /\ queue'[n] = queue[n]
          \/ queue'[n].guid = p /\ queue'[n].new = i
    <3>1. CASE queue' = queue
      <4>1. \A n \in DOMAIN queue' : n \in DOMAIN queue /\ queue'[n] = queue[n]
        BY <3>1, Zenon
      <4> QED
        BY <4>1
    <3>2. ASSUME NEW s \in Statements, s.guid = p, s.new = i, queue' = Append(queue, s)
          PROVE  \A n \in DOMAIN queue' :
                   \/ n \in DOMAIN queue /\ queue'[n] = queue[n]
                   \/ queue'[n].guid = p /\ queue'[n].new = i
      <4>1. queue \in Seq(Statements)
        BY DEF BaseInv, TypeOK, QueueType
      <4>2. /\ queue' \in Seq(Statements) /\ Len(queue) \in Nat /\ Len(queue') = Len(queue) + 1
            /\ \A n \in 1..Len(queue) : queue'[n] = queue[n]
            /\ queue'[Len(queue) + 1] = s
        BY <3>2, <4>1
      <4>3. DOMAIN queue = 1..Len(queue) /\ DOMAIN queue' = 1..Len(queue')
        BY <4>1, <4>2
      <4>4. ASSUME NEW n \in DOMAIN queue'
            PROVE  n \in DOMAIN queue \/ n = Len(queue) + 1
        BY <4>2, <4>3
      <4>5. ASSUME NEW n \in DOMAIN queue'
            PROVE  \/ n \in DOMAIN queue /\ queue'[n] = queue[n]
                   \/ queue'[n].guid = p /\ queue'[n].new = i
        <5>1. CASE n \in DOMAIN queue
          BY <4>2, <4>3, <5>1
        <5>2. CASE n = Len(queue) + 1
          BY <3>2, <4>2, <5>2
        <5> QED
          BY <4>4, <5>1, <5>2
      <4> QED
        BY <4>5
    <3>3. CASE queue' # queue
      <4>1. PICK s : queue' = Append(queue, s) /\ s \in Statements /\ s.guid = p /\ s.new = i
        <5>1. PICK e \in Difficulties :
                \/ /\ bound[p][e] = NoBind
                   /\ queue' = Append(queue, Statement("insert", p, NoId, i, FALSE))
                \/ /\ bound[p][e] # NoBind
                   /\ queue' = Append(queue, Statement("update", p, bound[p][e].id, i, FALSE))
          BY <3>3 DEF Entering, Solos
        <5>2. CASE bound[p][e] = NoBind
          <6>1. PICK s : s = Statement("insert", p, NoId, i, FALSE)
            OBVIOUS
          <6>2. s \in Statements /\ s.guid = p /\ s.new = i
            BY <1>1, <6>1 DEF Statement, Statements
          <6> QED
            BY <5>1, <5>2, <6>1, <6>2
        <5>3. CASE bound[p][e] # NoBind
          <6>1. bound[p][e].id \in Ids
            BY <1>1, <5>3 DEF BoundType, Binds
          <6>2. PICK s : s = Statement("update", p, bound[p][e].id, i, FALSE)
            OBVIOUS
          <6>3. s \in Statements /\ s.guid = p /\ s.new = i
            BY <1>1, <6>1, <6>2 DEF Statement, Statements
          <6> QED
            BY <5>1, <5>3, <6>2, <6>3
        <5> QED
          BY <5>2, <5>3
      <4> QED
        BY <3>2, <4>1
    <3> QED
      BY <3>1, <3>3
  <2>4. \A q \in Players : \A e \in Difficulties :
          \/ m_boundInstances'[q][e] = bound[q][e]
          \/ q = p /\ m_boundInstances'[q][e] = [id |-> i, perm |-> FALSE]
    <3>1. CASE m_boundInstances' = bound
      BY <3>1
    <3>2. CASE Solos(saves, bound, p, i, ms)
      BY <3>2 DEF Solos
    <3> QED
      BY <3>1, <3>2 DEF Entering
  <2>5. IdsUsed(m_instanceSaveById)'
    <3>1. /\ DOMAIN m_instanceSaveById' \subseteq used' /\ DOMAIN instance' \subseteq used'
          /\ \A r \in character_instance' : r.instance \in used'
      BY <1>1, <1>2, <2>1 DEF IdsUsed, Adds
    <3>2. \A n \in DOMAIN queue' : Enters(queue'[n]) => queue'[n].new \in used'
      BY <1>2, <2>1, <2>3 DEF IdsUsed, Enters
    <3> QED
      BY <3>1, <3>2 DEF IdsUsed, Enters
  <2>6. SameDifficulty(m_instanceSaveById, maps)'
    <3>1. /\ DOMAIN m_instanceSaveById' \subseteq DOMAIN saves \cup {i}
          /\ \A k \in DOMAIN m_instanceSaveById' : k # i =>
               m_instanceSaveById'[k].difficulty = saves[k].difficulty
          /\ i \in DOMAIN m_instanceSaveById' => m_instanceSaveById'[i].difficulty = ms[i].difficulty
          /\ DOMAIN instance' \subseteq DOMAIN instance \cup {i} /\ DOMAIN instance \subseteq DOMAIN instance'
          /\ \A k \in DOMAIN instance : instance'[k] = instance[k]
          /\ i \in DOMAIN instance' => instance'[i] = ms[i].difficulty
          /\ DOMAIN maps' = DOMAIN maps \cup {i}
          /\ \A k \in DOMAIN maps : maps'[k].difficulty = maps[k].difficulty
          /\ maps'[i].difficulty = ms[i].difficulty
      BY <1>1, <2>1, <2>2 DEF Adds
    <3>2. \A k \in DOMAIN m_instanceSaveById' \cap DOMAIN maps' :
            m_instanceSaveById'[k].difficulty = maps'[k].difficulty
      BY <1>2, <3>1 DEF SameDifficulty
    <3>3. \A k \in DOMAIN m_instanceSaveById' \cap DOMAIN instance' :
            m_instanceSaveById'[k].difficulty = instance'[k]
      BY <1>2, <3>1 DEF SameDifficulty
    <3>4. \A k \in DOMAIN maps' \cap DOMAIN instance' : maps'[k].difficulty = instance'[k]
      BY <1>2, <3>1 DEF SameDifficulty
    <3>5. \A q \in Players : \A r \in holder'[q] :
            r.instance \in DOMAIN instance' /\ instance'[r.instance] = r.difficulty
      BY <1>1, <1>2, <3>1 DEF SameDifficulty
    <3> QED
      BY <3>2, <3>3, <3>4, <3>5 DEF SameDifficulty
  <2>7. ASSUME NEW q \in Players, NEW k \in Ids, Temporary(m_boundInstances, q, k)'
        PROVE  Temporary(bound, q, k) \/ (q = p /\ k = i)
    <3>1. CASE \E e \in Difficulties : m_boundInstances'[q][e] = [id |-> k, perm |-> FALSE]
      <4>1. PICK e \in Difficulties : m_boundInstances'[q][e] = [id |-> k, perm |-> FALSE]
        BY <3>1
      <4>2. CASE m_boundInstances'[q][e] = bound[q][e]
        BY <4>1, <4>2 DEF Temporary
      <4>3. CASE q = p /\ m_boundInstances'[q][e] = [id |-> i, perm |-> FALSE]
        BY <4>1, <4>3
      <4> QED
        BY <2>4, <4>2, <4>3
    <3>2. CASE Row(q, k, FALSE) \in character_instance'
      BY <1>1, <3>2 DEF Temporary
    <3>3. CASE \E n \in DOMAIN queue' :
                 /\ Enters(queue'[n]) /\ queue'[n].guid = q /\ queue'[n].new = k
                 /\ ~queue'[n].permanent
      <4>1. PICK n \in DOMAIN queue' :
              /\ Enters(queue'[n]) /\ queue'[n].guid = q /\ queue'[n].new = k
              /\ ~queue'[n].permanent
        BY <3>3
      <4>2. CASE n \in DOMAIN queue /\ queue'[n] = queue[n]
        BY <4>1, <4>2 DEF Temporary, Enters
      <4> QED
        BY <2>3, <4>1, <4>2
    <3>4. CASE \E r \in holder'[q] : r.instance = k /\ ~r.permanent
      BY <1>1, <3>4 DEF Temporary
    <3> QED
      BY <2>7, <3>1, <3>2, <3>3, <3>4 DEF Temporary, Enters
  <2>8. \A q \in Players : ~Temporary(bound, q, i)
    BY <1>1, <1>2, <2>1, FreshId
  <2>9. Solo(m_boundInstances)'
    BY <1>2, <2>7, <2>8 DEF Solo
  <2> QED
    BY <2>5, <2>6, <2>9 DEF Apart
<1> QED
  BY <1>3, <1>4

LEMMA Init_Solo ==
  ASSUME Init
  PROVE  SoloInv
<1>1. /\ instance = Nothing /\ character_instance = {} /\ queue = <<>>
      /\ m_instanceSaveById = Nothing /\ maps = Nothing
      /\ m_boundInstances = [p \in Players |-> NoBinds]
      /\ holder = [p \in Players |-> {}]
  BY DEF Init
<1>2. DOMAIN Nothing = {} /\ DOMAIN queue = {}
  BY <1>1 DEF Nothing
<1>3. IdsUsed(m_instanceSaveById) /\ SameDifficulty(m_instanceSaveById, maps)
  BY <1>1, <1>2 DEF IdsUsed, SameDifficulty
<1>4. \A p \in Players, i \in Ids : ~Temporary(m_boundInstances, p, i)
  BY <1>1, <1>2, BindTemporary DEF Temporary, NoBinds
<1> QED
  BY <1>3, <1>4, Init_Base DEF SoloInv, Apart, Solo

LEMMA Work_Solo ==
  ASSUME BaseInv, Apart(m_instanceSaveById, m_boundInstances, maps), Work
  PROVE  Apart(m_instanceSaveById, m_boundInstances, maps)'
<1>1. PICK s : s = Head(queue)
  OBVIOUS
<1>2. /\ queue # <<>> /\ queue' = Tail(queue)
      /\ character_instance' = Executed(character_instance, s)
      /\ \/ s.op = "login" /\ holder' = [holder EXCEPT ![s.guid] = LoginRows(s.guid)]
         \/ s.op # "login" /\ holder' = holder
      /\ UNCHANGED <<instance, m_instanceSaveById, m_boundInstances, maps, used>>
  BY <1>1 DEF Work
<1>3. queue \in Seq(Statements)
  BY DEF BaseInv, TypeOK, QueueType
<1>4. /\ 1 \in DOMAIN queue /\ s = queue[1] /\ s \in Statements
      /\ \A n \in DOMAIN queue' : n + 1 \in DOMAIN queue /\ queue'[n] = queue[n + 1]
  BY <1>1, <1>2, <1>3
<1>5. /\ Enters(s) => s.new \in Ids /\ s.new \in used
      /\ s.guid \in Players
  BY <1>4 DEF BaseInv, TypeOK, QueueType, Apart, IdsUsed, Statements
<1>6. \A r \in character_instance' :
        r \in character_instance \/ (Enters(s) /\ r = Row(s.guid, s.new, s.permanent))
  BY <1>2, <1>4, <1>5, ExecutedFacts DEF BaseInv, TypeOK, TableType
<1>7. \A q \in Players : \A r \in holder'[q] :
        \/ r \in holder[q]
        \/ \E t \in character_instance :
             /\ t.guid = q /\ t.instance = r.instance /\ t.permanent = r.permanent
             /\ r.instance \in DOMAIN instance /\ r.difficulty = instance[r.instance]
  <2>1. ASSUME NEW r \in LoginRows(s.guid)
        PROVE  \E t \in character_instance :
                 /\ t.guid = s.guid /\ t.instance = r.instance /\ t.permanent = r.permanent
                 /\ r.instance \in DOMAIN instance /\ r.difficulty = instance[r.instance]
    BY DEF LoginRows
  <2>2. holder \in [Players -> SUBSET HolderRows]
    BY DEF BaseInv, TypeOK, SessionType
  <2>3. ASSUME NEW q \in Players, NEW r \in holder'[q]
        PROVE  r \in holder[q] \/ (q = s.guid /\ r \in LoginRows(s.guid))
    <3> HIDE DEF LoginRows
    <3> QED
      BY <1>2, <1>5, <2>2
  <2> QED
    BY <2>1, <2>3
<1>8. IdsUsed(m_instanceSaveById)'
  <2>1. \A r \in character_instance' : r.instance \in used'
    <3>1. ASSUME Enters(s)
          PROVE  Row(s.guid, s.new, s.permanent).instance \in used
      BY <1>5, <3>1 DEF Row
    <3> QED
      BY <1>2, <1>6, <3>1 DEF Apart, IdsUsed
  <2>2. \A n \in DOMAIN queue' : Enters(queue'[n]) => queue'[n].new \in used'
    BY <1>2, <1>4 DEF Apart, IdsUsed
  <2> QED
    BY <1>2, <2>1, <2>2 DEF Apart, IdsUsed, Enters
<1>9. SameDifficulty(m_instanceSaveById, maps)'
  BY <1>2, <1>7 DEF Apart, SameDifficulty
<1>10. ASSUME NEW q \in Players, NEW i \in Ids, Temporary(m_boundInstances, q, i)'
       PROVE  Temporary(m_boundInstances, q, i)
  <2>1. CASE \E e \in Difficulties : m_boundInstances'[q][e] = [id |-> i, perm |-> FALSE]
    BY <1>2, <2>1 DEF Temporary
  <2>2. CASE Row(q, i, FALSE) \in character_instance'
    <3>1. CASE Row(q, i, FALSE) \in character_instance
      BY <3>1 DEF Temporary
    <3>2. CASE Enters(s) /\ Row(q, i, FALSE) = Row(s.guid, s.new, s.permanent)
      <4>1. s.guid = q /\ s.new = i /\ ~s.permanent
        BY <3>2 DEF Row
      <4> QED
        BY <1>4, <3>2, <4>1 DEF Temporary
    <3> QED
      BY <1>6, <2>2, <3>1, <3>2
  <2>3. CASE \E n \in DOMAIN queue' :
               /\ Enters(queue'[n]) /\ queue'[n].guid = q /\ queue'[n].new = i
               /\ ~queue'[n].permanent
    <3>1. PICK n \in DOMAIN queue' :
            /\ Enters(queue'[n]) /\ queue'[n].guid = q /\ queue'[n].new = i
            /\ ~queue'[n].permanent
      BY <2>3
    <3>2. n + 1 \in DOMAIN queue /\ queue'[n] = queue[n + 1]
      BY <1>4
    <3> QED
      BY <3>1, <3>2 DEF Temporary, Enters
  <2>4. CASE \E r \in holder'[q] : r.instance = i /\ ~r.permanent
    <3>1. PICK r \in holder'[q] : r.instance = i /\ ~r.permanent
      BY <2>4
    <3>2. CASE r \in holder[q]
      BY <3>1, <3>2 DEF Temporary
    <3>3. ASSUME NEW t \in character_instance,
                 t.guid = q, t.instance = r.instance, t.permanent = r.permanent
          PROVE  Temporary(m_boundInstances, q, i)
      <4>1. t \in Rows
        BY DEF BaseInv, TypeOK, TableType
      <4>2. t = Row(q, i, FALSE)
        BY <3>1, <3>3, <4>1 DEF Rows, Row
      <4> QED
        BY <4>2 DEF Temporary
    <3> QED
      BY <1>7, <3>1, <3>2, <3>3
  <2> QED
    BY <1>10, <2>1, <2>2, <2>3, <2>4 DEF Temporary, Enters
<1>11. Solo(m_boundInstances)'
  BY <1>10 DEF Apart, Solo
<1> QED
  BY <1>8, <1>9, <1>11 DEF Apart

\* The only step that frees an id, and nobody is left who knows it.
LEMMA ResetInstance_Solo ==
  ASSUME BaseInv, Apart(m_instanceSaveById, m_boundInstances, maps), prompt,
         NEW i \in Ids, ResetInstance(i)
  PROVE  Apart(m_instanceSaveById, m_boundInstances, maps)'
<1>1. /\ DOMAIN m_instanceSaveById' = DOMAIN m_instanceSaveById \ {i}
      /\ \A k \in DOMAIN m_instanceSaveById' : m_instanceSaveById'[k] = m_instanceSaveById[k]
      /\ \A p \in Players : \A d \in Difficulties :
           m_boundInstances'[p][d] \in {NoBind, m_boundInstances[p][d]}
  BY ResetSavesFacts DEF ResetInstance
<1>2. /\ DOMAIN maps' = DOMAIN maps
      /\ \A k \in DOMAIN maps : maps'[k].difficulty = maps[k].difficulty
  BY MapsResetFacts DEF ResetInstance, BaseInv, TypeOK
<1>3. /\ DOMAIN instance' = DOMAIN instance \ {i}
      /\ \A k \in DOMAIN instance' : instance'[k] = instance[k]
      /\ character_instance' = {r \in character_instance : r.instance # i}
  BY DeleteFacts DEF ResetInstance, BaseInv, TypeOK
<1>4. /\ used' = used \ {i} /\ queue' = queue /\ holder' = holder
      /\ queue = <<>> /\ \A p \in Players : session[p] # "loaded"
  BY DEF ResetInstance, Settled
<1>5. /\ \A p \in Players : holder[p] = {}
      /\ DOMAIN queue = {}
  BY <1>4 DEF BaseInv, OnlyOnline
<1>6. IdsUsed(m_instanceSaveById)'
  BY <1>1, <1>3, <1>4, <1>5 DEF Apart, IdsUsed, Enters
<1>7. SameDifficulty(m_instanceSaveById, maps)'
  BY <1>1, <1>2, <1>3, <1>4, <1>5 DEF Apart, SameDifficulty
<1>8. ASSUME NEW q \in Players, NEW k \in Ids, Temporary(m_boundInstances, q, k)'
      PROVE  Temporary(m_boundInstances, q, k)
  <2>1. CASE \E e \in Difficulties : m_boundInstances'[q][e] = [id |-> k, perm |-> FALSE]
    BY <1>1, <2>1, BindTemporary DEF Temporary
  <2>2. CASE Row(q, k, FALSE) \in character_instance'
    BY <1>3, <2>2 DEF Temporary
  <2> QED
    BY <1>4, <1>5, <1>8, <2>1, <2>2 DEF Temporary, Enters
<1>9. Solo(m_boundInstances)'
  BY <1>8 DEF Apart, Solo
<1> QED
  BY <1>6, <1>7, <1>9 DEF Apart

\* Where a step leaves the queue alone.
LEMMA QueueShrinks ==
  ASSUME queue' = queue
  PROVE  \A n \in DOMAIN queue' : Enters(queue'[n]) =>
           \/ \E m \in DOMAIN queue : queue'[n] = queue[m]
           \/ queue'[n].permanent /\ queue'[n].new \in used
<1>1. \A n \in DOMAIN queue' : n \in DOMAIN queue /\ queue'[n] = queue[n]
  BY Zenon
<1> QED
  BY <1>1

LEMMA ResetAll_Solo ==
  ASSUME BaseInv, Apart(m_instanceSaveById, m_boundInstances, maps), prompt, ResetAll
  PROVE  Apart(m_instanceSaveById, m_boundInstances, maps)'
<1>1. /\ DOMAIN m_instanceSaveById' \subseteq DOMAIN m_instanceSaveById
      /\ \A k \in DOMAIN m_instanceSaveById' : m_instanceSaveById'[k] = m_instanceSaveById[k]
      /\ \A p \in Players : \A d \in Difficulties :
           m_boundInstances'[p][d] \in {NoBind, m_boundInstances[p][d]}
  BY ResetSavesFacts DEF ResetAll
<1>2. /\ DOMAIN maps' = DOMAIN maps
      /\ \A k \in DOMAIN maps : maps'[k].difficulty = maps[k].difficulty
  BY MapsResetFacts DEF ResetAll, BaseInv, TypeOK
<1>3. /\ DOMAIN instance' \subseteq DOMAIN instance
      /\ \A k \in DOMAIN instance' : instance'[k] = instance[k]
      /\ character_instance' \subseteq character_instance
  BY DEF ResetAll
<1>4. /\ used' = used /\ queue' = queue /\ holder' = holder
      /\ \A p \in Players : session[p] # "loaded"
  BY DEF ResetAll, Settled
<1>5. \A p \in Players : holder[p] = {}
  BY <1>4 DEF BaseInv, OnlyOnline
<1>6. Shrinks(m_instanceSaveById, m_boundInstances)
  BY <1>1, <1>2, <1>3, <1>4, <1>5, QueueShrinks DEF Shrinks
<1> QED
  BY <1>6, ShrinkApart

LEMMA ResetInstances_Solo ==
  ASSUME BaseInv, Apart(m_instanceSaveById, m_boundInstances, maps), prompt,
         NEW p \in Players, NEW d \in Difficulties, ResetInstances(p, d)
  PROVE  Apart(m_instanceSaveById, m_boundInstances, maps)'
<1>1. PICK i : i = m_boundInstances[p][d].id
  OBVIOUS
<1>2. /\ m_boundInstances[p][d] # NoBind
      /\ m_instanceSaveById' = RemovePlayer(m_instanceSaveById, p, i, m_mapRef)
      /\ m_boundInstances' = [m_boundInstances EXCEPT ![p][d] = NoBind]
  BY <1>1 DEF ResetInstances
<1>3. Unbinds(p, d, i)
  BY <1>1, <1>2, UnbindFacts
<1>4. /\ DOMAIN maps' = DOMAIN maps
      /\ \A k \in DOMAIN maps : maps'[k].difficulty = maps[k].difficulty
  BY MapsResetFacts DEF ResetInstances, BaseInv, TypeOK
<1>5. /\ DOMAIN instance' \subseteq DOMAIN instance
      /\ \A k \in DOMAIN instance' : instance'[k] = instance[k]
      /\ character_instance' \subseteq character_instance
  BY DeleteFacts DEF ResetInstances, BaseInv, TypeOK
<1>6. /\ used' = used /\ queue' = queue /\ holder' = holder
      /\ \A q \in Players : session[q] # "loaded"
  BY DEF ResetInstances, Settled
<1>7. \A q \in Players : holder[q] = {}
  BY <1>6 DEF BaseInv, OnlyOnline
<1>8. Shrinks(m_instanceSaveById, m_boundInstances)
  BY <1>3, <1>4, <1>5, <1>6, <1>7, QueueShrinks DEF Shrinks, Unbinds
<1> QED
  BY <1>8, ShrinkApart

\* Where it queues a statement that binds nobody.
LEMMA AppendShrinks ==
  ASSUME TypeOK, NEW s \in Statements, queue' = Append(queue, s), ~Enters(s)
  PROVE  \A n \in DOMAIN queue' : Enters(queue'[n]) =>
           \/ \E m \in DOMAIN queue : queue'[n] = queue[m]
           \/ queue'[n].permanent /\ queue'[n].new \in used
<1>1. queue \in Seq(Statements)
  BY DEF TypeOK, QueueType
<1>2. /\ queue' \in Seq(Statements) /\ Len(queue) \in Nat /\ Len(queue') = Len(queue) + 1
      /\ \A n \in 1..Len(queue) : queue'[n] = queue[n]
      /\ queue'[Len(queue) + 1] = s
  BY <1>1
<1>3. DOMAIN queue = 1..Len(queue) /\ DOMAIN queue' = 1..Len(queue')
  BY <1>1, <1>2
<1>4. ASSUME NEW n \in DOMAIN queue'
      PROVE  n \in DOMAIN queue \/ n = Len(queue) + 1
  BY <1>2, <1>3
<1>5. ASSUME NEW n \in DOMAIN queue', Enters(queue'[n])
      PROVE  n \in DOMAIN queue /\ queue'[n] = queue[n]
  BY <1>2, <1>3, <1>4, <1>5
<1> QED
  BY <1>5

LEMMA UnbindInstance_Solo ==
  ASSUME BaseInv, Apart(m_instanceSaveById, m_boundInstances, maps),
         NEW p \in Players, NEW d \in Difficulties, UnbindInstance(p, d)
  PROVE  Apart(m_instanceSaveById, m_boundInstances, maps)'
<1>1. PICK i : i = m_boundInstances[p][d].id
  OBVIOUS
<1>2. /\ m_boundInstances[p][d] # NoBind
      /\ queue' = Append(queue, Statement("delete", p, i, NoId, FALSE))
      /\ m_instanceSaveById' = RemovePlayer(m_instanceSaveById, p, i, m_mapRef)
      /\ m_boundInstances' = [m_boundInstances EXCEPT ![p][d] = NoBind]
      /\ UNCHANGED <<instance, character_instance, maps, holder, used>>
  BY <1>1 DEF UnbindInstance
<1>3. Unbinds(p, d, i)
  BY <1>1, <1>2, UnbindFacts
<1>4. PICK s : s = Statement("delete", p, i, NoId, FALSE)
  OBVIOUS
<1>5. s \in Statements /\ ~Enters(s)
  BY <1>3, <1>4 DEF Statement, Statements, Unbinds, Enters
<1>6. TypeOK
  BY DEF BaseInv
<1>7. \A n \in DOMAIN queue' : Enters(queue'[n]) =>
        \/ \E m \in DOMAIN queue : queue'[n] = queue[m]
        \/ queue'[n].permanent /\ queue'[n].new \in used
  BY <1>2, <1>4, <1>5, <1>6, AppendShrinks
<1>8. \A q \in Players : \A r \in holder[q] : r.instance \in DOMAIN instance
  BY DEF Apart, SameDifficulty
<1>9. Shrinks(m_instanceSaveById, m_boundInstances)
  <2>1. /\ DOMAIN m_instanceSaveById' \subseteq DOMAIN m_instanceSaveById
        /\ \A k \in DOMAIN m_instanceSaveById' :
             m_instanceSaveById'[k].difficulty = m_instanceSaveById[k].difficulty
        /\ \A q \in Players : \A e \in Difficulties :
             m_boundInstances'[q][e] \in {NoBind, m_boundInstances[q][e]}
    BY <1>3 DEF Unbinds
  <2>2. UNCHANGED <<instance, character_instance, maps, holder, used>>
    BY <1>2
  <2> QED
    BY <1>7, <1>8, <2>1, <2>2 DEF Shrinks
<1> QED
  BY <1>9, ShrinkApart

LEMMA Away_Solo ==
  ASSUME BaseInv, Apart(m_instanceSaveById, m_boundInstances, maps),
         \/ \E p \in Players : TeleportOut(p) \/ Arrive(p)
         \/ \E i \in DOMAIN maps : DestroyInstance(i)
  PROVE  Apart(m_instanceSaveById, m_boundInstances, maps)'
<1>1. UNCHANGED <<instance, character_instance, queue, m_instanceSaveById, m_boundInstances,
                  holder, used>>
  BY DEF TeleportOut, Arrive, DestroyInstance, tables, memory
<1>2. /\ DOMAIN maps' \subseteq DOMAIN maps
      /\ \A k \in DOMAIN maps' : maps'[k].difficulty = maps[k].difficulty
  <2>1. ASSUME NEW p \in Players, TeleportOut(p)
        PROVE  /\ DOMAIN maps' = DOMAIN maps
               /\ \A k \in DOMAIN maps : maps'[k].difficulty = maps[k].difficulty
    <3>1. maps' = [maps EXCEPT ![m_mapRef[p]].unloading =
                     @ \/ {q \in Players : m_mapRef[q] = m_mapRef[p]} = {p}]
      BY <2>1 DEF TeleportOut
    <3>2. maps \in [DOMAIN maps -> MapType]
      BY DEF BaseInv, TypeOK, MapsType
    <3> QED
      BY <3>1, <3>2 DEF MapType
  <2>2. ASSUME NEW p \in Players, Arrive(p)
        PROVE  maps' = maps
    BY <2>2 DEF Arrive
  <2>3. ASSUME NEW i \in DOMAIN maps, DestroyInstance(i)
        PROVE  maps' = [k \in DOMAIN maps \ {i} |-> maps[k]]
    BY <2>3 DEF DestroyInstance, Without
  <2> QED
    BY <2>1, <2>2, <2>3
<1>3. \A q \in Players : \A r \in holder[q] : r.instance \in DOMAIN instance
  BY DEF Apart, SameDifficulty
<1>4. Shrinks(m_instanceSaveById, m_boundInstances)
  BY <1>1, <1>2, <1>3, QueueShrinks DEF Shrinks
<1> QED
  BY <1>4, ShrinkApart

LEMMA Enter_Solo ==
  ASSUME BaseInv, Apart(m_instanceSaveById, m_boundInstances, maps),
         NEW p \in Players, NEW d \in Difficulties, Enter(p, d)
  PROVE  Apart(m_instanceSaveById, m_boundInstances, maps)'
<1>1. PICK i : i = InstanceFor(m_boundInstances, p, d)
  OBVIOUS
<1>2. PICK ms : ms = MapsWith(Mem, p, d, i)
  OBVIOUS
<1>3. /\ i \in Ids /\ i # NoId
      /\ FindsMap(m_instanceSaveById, m_boundInstances, p, d, i, ms)
      /\ used' = UsedWith(m_boundInstances, p, d, i)
      /\ UNCHANGED <<character_instance, holder>>
      /\ \/ Entering(m_instanceSaveById, m_boundInstances, p, i, ms)
         \/ /\ maps' = ms
            /\ UNCHANGED <<instance, queue, m_instanceSaveById, m_boundInstances>>
  BY <1>1, <1>2, EnterFacts
<1>4. PICK saves, bound : saves = m_instanceSaveById /\ bound = m_boundInstances
  OBVIOUS
<1>5. /\ TypeOK /\ SavesType(saves) /\ BoundType(bound) /\ Matching(saves, bound)
      /\ SameDifficulty(saves, maps)
  BY <1>4 DEF BaseInv, TypeOK, MemoryType, Apart
<1>6. Finds(saves, bound, p, d, i, ms)
  <2>1. i = InstanceFor(bound, p, d) /\ used' = UsedWith(bound, p, d, i)
        /\ FindsMap(saves, bound, p, d, i, ms)
    BY <1>1, <1>3, <1>4
  <2> QED
    BY <1>3, <1>5, <2>1, FindsFacts
<1>7. CASE Entering(m_instanceSaveById, m_boundInstances, p, i, ms)
  BY <1>4, <1>6, <1>7, AddApart
<1>8. CASE /\ maps' = ms
           /\ UNCHANGED <<instance, queue, m_instanceSaveById, m_boundInstances>>
  <2>1. used \subseteq used'
    BY <1>6 DEF Finds
  <2>2. IdsUsed(m_instanceSaveById)'
    BY <1>3, <1>8, <2>1 DEF Apart, IdsUsed, Enters
  <2>3. SameDifficulty(m_instanceSaveById, maps)'
    <3>1. /\ DOMAIN maps' = DOMAIN maps \cup {i}
          /\ \A k \in DOMAIN maps : maps'[k] = maps[k]
      BY <1>3, <1>8 DEF FindsMap
    <3>2. i \in DOMAIN saves => saves[i].difficulty = maps'[i].difficulty
      <4>2. CASE bound[p][d] = NoBind
        BY <1>4, <1>6, <4>2 DEF Finds, Apart, IdsUsed
      <4>3. bound[p][d] # NoBind => saves[i].difficulty = d /\ ms[i].difficulty = d
        BY <1>5, <1>6 DEF Matching, Finds
      <4> QED
        BY <1>8, <4>2, <4>3
    <3>3. i \in DOMAIN instance => instance[i] = maps'[i].difficulty
      <4>1. CASE bound[p][d] # NoBind
        <5>1. i \in DOMAIN saves
          BY <1>6, <4>1 DEF Finds
        <5> QED
          BY <1>5, <3>2, <5>1 DEF SameDifficulty
      <4>2. CASE bound[p][d] = NoBind
        BY <1>4, <1>6, <4>2 DEF Finds, Apart, IdsUsed
      <4> QED
        BY <4>1, <4>2
    <3>4. SameDifficulty(m_instanceSaveById, maps)
      BY DEF Apart
    <3> QED
      BY <1>3, <1>4, <1>8, <3>1, <3>2, <3>3, <3>4 DEF SameDifficulty
  <2>4. ASSUME NEW q \in Players, NEW k \in Ids, Temporary(m_boundInstances, q, k)'
        PROVE  Temporary(m_boundInstances, q, k)
    BY <1>3, <1>8, <2>4 DEF Temporary, Enters
  <2>5. Solo(m_boundInstances)'
    BY <2>4 DEF Apart, Solo
  <2> QED
    BY <2>2, <2>3, <2>5 DEF Apart
<1> QED
  BY <1>3, <1>7, <1>8

LEMMA PermBind_Solo ==
  ASSUME BaseInv, Apart(m_instanceSaveById, m_boundInstances, maps),
         NEW p \in Players, PermBind(p)
  PROVE  Apart(m_instanceSaveById, m_boundInstances, maps)'
<1>1. PICK i, d, binders, order, tail : Perms(i, d, binders, order, tail)
  BY PermFacts
<1>2. /\ Extended /\ DOMAIN tail = DOMAIN order /\ tail \in Seq(Statements)
      /\ \A k \in DOMAIN tail : queue'[Len(queue) + k] = tail[k]
      /\ Len(queue') = Len(queue) + Len(tail)
  BY <1>1, PermExtended
<1>3. i \in used
  BY <1>1 DEF Perms, Apart, IdsUsed
<1>4. \A k \in DOMAIN tail : tail[k].permanent /\ tail[k].new = i
  BY <1>1 DEF Perms, Statement
<1>5. ASSUME NEW n \in DOMAIN queue'
      PROVE  \/ \E m \in DOMAIN queue : queue'[n] = queue[m]
             \/ queue'[n].permanent /\ queue'[n].new \in used
  <2>1. queue \in Seq(Statements) /\ queue' \in Seq(Statements)
    BY <1>2 DEF BaseInv, TypeOK, QueueType, Extended
  <2>2. /\ DOMAIN queue = 1..Len(queue) /\ DOMAIN queue' = 1..Len(queue')
        /\ Len(queue) \in Nat /\ Len(tail) \in Nat /\ DOMAIN tail = 1..Len(tail)
    BY <1>2, <2>1
  <2>3. CASE n \in DOMAIN queue
    BY <1>2, <2>3 DEF Extended
  <2>4. CASE n \notin DOMAIN queue
    <3>1. PICK k \in DOMAIN tail : n = Len(queue) + k
      <4>1. n - Len(queue) \in DOMAIN tail /\ n = Len(queue) + (n - Len(queue))
        BY <1>2, <1>5, <2>2, <2>4
      <4> QED
        BY <4>1
    <3> QED
      BY <1>2, <1>3, <1>4, <3>1
  <2> QED
    BY <2>3, <2>4
<1>6. \A q \in Players : \A e \in Difficulties :
        m_boundInstances'[q][e] \in {NoBind, m_boundInstances[q][e]} \/ m_boundInstances'[q][e].perm
  <2>1. PICK b : b = [id |-> i, perm |-> TRUE]
    OBVIOUS
  <2>2. b.perm
    BY <2>1
  <2>3. \A q \in Players : \A e \in Difficulties :
          m_boundInstances'[q][e] = b \/ m_boundInstances'[q][e] = m_boundInstances[q][e]
    <3>1. \A q \in Players : \A e \in Difficulties : m_boundInstances'[q][e] =
            IF q \in binders /\ e = d THEN [id |-> i, perm |-> TRUE] ELSE m_boundInstances[q][e]
      BY <1>1 DEF Perms
    <3> QED
      BY <2>1, <3>1
  <2> QED
    BY <2>2, <2>3
<1>7. \A q \in Players : \A r \in holder[q] : r.instance \in DOMAIN instance
  BY DEF Apart, SameDifficulty
<1>8. Shrinks(m_instanceSaveById, m_boundInstances)
  BY <1>1, <1>5, <1>6, <1>7 DEF Shrinks, Perms
<1> QED
  BY <1>8, ShrinkApart

LEMMA RequestLogin_Solo ==
  ASSUME BaseInv, Apart(m_instanceSaveById, m_boundInstances, maps),
         NEW p \in Players, RequestLogin(p)
  PROVE  Apart(m_instanceSaveById, m_boundInstances, maps)'
<1>1. /\ queue' = Append(queue, Statement("login", p, NoId, NoId, FALSE))
      /\ UNCHANGED <<instance, character_instance, m_instanceSaveById, m_boundInstances, maps,
                     holder, used>>
  BY DEF RequestLogin, tables, memory
<1>2. PICK s : s = Statement("login", p, NoId, NoId, FALSE)
  OBVIOUS
<1>3. s \in Statements /\ ~Enters(s)
  BY <1>2 DEF Statement, Statements, Enters
<1>4. TypeOK
  BY DEF BaseInv
<1>5. \A n \in DOMAIN queue' : Enters(queue'[n]) =>
        \/ \E m \in DOMAIN queue : queue'[n] = queue[m]
        \/ queue'[n].permanent /\ queue'[n].new \in used
  BY <1>1, <1>2, <1>3, <1>4, AppendShrinks
<1>6. \A q \in Players : \A r \in holder[q] : r.instance \in DOMAIN instance
  BY DEF Apart, SameDifficulty
<1>7. Shrinks(m_instanceSaveById, m_boundInstances)
  BY <1>1, <1>5, <1>6 DEF Shrinks
<1> QED
  BY <1>7, ShrinkApart

LEMMA LoginOutside_Solo ==
  ASSUME BaseInv, Apart(m_instanceSaveById, m_boundInstances, maps),
         NEW p \in Players, LoginOutside(p)
  PROVE  Apart(m_instanceSaveById, m_boundInstances, maps)'
<1>1. /\ Started(p) /\ Store(Loaded(p))
      /\ UNCHANGED <<instance, character_instance, queue, maps, used>>
  BY DEF LoginOutside, tables
<1>2. /\ session[p] = "loaded" /\ holder'[p] = {}
      /\ \A q \in Players \ {p} : holder'[q] = holder[q]
  BY <1>1, StartedFacts
<1>3. PICK saves, bound : LoadsBinds(p, saves, bound)
  BY <1>2, LoadFacts
<1>4. m_instanceSaveById' = saves /\ m_boundInstances' = bound
  BY <1>1, <1>3 DEF LoadsBinds, Store
<1>5. Apart(saves, bound, maps)
  BY <1>3, LoadApart
<1>6. \A q \in Players : \A r \in holder'[q] : r \in holder[q] /\ r.instance \in DOMAIN instance'
  BY <1>1, <1>2 DEF Apart, SameDifficulty
<1>7. Shrinks(saves, bound)
  BY <1>1, <1>4, <1>6, QueueShrinks DEF Shrinks
<1> QED
  BY <1>5, <1>7, ShrinkApart

LEMMA LoginInside_Solo ==
  ASSUME BaseInv, Apart(m_instanceSaveById, m_boundInstances, maps),
         NEW p \in Players, NEW d \in Difficulties, LoginInside(p, d)
  PROVE  Apart(m_instanceSaveById, m_boundInstances, maps)'
<1>1. PICK saves, bound, i, ms :
        /\ LoadsBinds(p, saves, bound)
        /\ i = InstanceFor(bound, p, d) /\ i # NoId
        /\ used' = UsedWith(bound, p, d, i)
        /\ FindsMap(saves, bound, p, d, i, ms)
        /\ Entering(saves, bound, p, i, ms)
  BY LoginInsideFacts
<1>2. Apart(saves, bound, maps)
  BY <1>1, LoadApart
<1>3. Finds(saves, bound, p, d, i, ms)
  BY <1>1, <1>2, FindsFacts DEF LoadsBinds, BaseInv, Apart
<1> QED
  BY <1>1, <1>2, <1>3, AddApart

LEMMA Logout_Solo ==
  ASSUME BaseInv, Apart(m_instanceSaveById, m_boundInstances, maps),
         NEW p \in Players, Logout(p)
  PROVE  Apart(m_instanceSaveById, m_boundInstances, maps)'
<1>1. UNCHANGED <<instance, character_instance, queue, holder, used>>
  BY DEF Logout, tables
<1>2. /\ DOMAIN m_instanceSaveById' \subseteq DOMAIN m_instanceSaveById
      /\ \A k \in DOMAIN m_instanceSaveById' :
           m_instanceSaveById'[k].difficulty = m_instanceSaveById[k].difficulty
      /\ m_boundInstances' = [m_boundInstances EXCEPT ![p] = NoBinds]
      /\ DOMAIN maps' = DOMAIN maps
      /\ \A k \in DOMAIN maps : maps'[k].difficulty = maps[k].difficulty
  BY LogoutFacts
<1>3. \A q \in Players : \A e \in Difficulties :
        m_boundInstances'[q][e] \in {NoBind, m_boundInstances[q][e]}
  BY <1>2 DEF NoBinds, BaseInv, TypeOK, MemoryType, BoundType
<1>4. \A q \in Players : \A r \in holder[q] : r.instance \in DOMAIN instance
  BY DEF Apart, SameDifficulty
<1>5. Shrinks(m_instanceSaveById, m_boundInstances)
  BY <1>1, <1>2, <1>3, <1>4, QueueShrinks DEF Shrinks
<1> QED
  BY <1>5, ShrinkApart

LEMMA Restart_Solo ==
  ASSUME BaseInv, Apart(m_instanceSaveById, m_boundInstances, maps), Restart
  PROVE  Apart(m_instanceSaveById, m_boundInstances, maps)'
<1>1. PICK kept \in SUBSET DOMAIN instance :
        /\ instance' = [i \in kept |-> instance[i]]
        /\ character_instance' = {r \in character_instance : r.instance \in kept}
        /\ used' = {0} \cup kept
        /\ queue' = <<>> /\ m_instanceSaveById' = Nothing
        /\ m_boundInstances' = [p \in Players |-> NoBinds]
        /\ maps' = Nothing
        /\ holder' = [p \in Players |-> {}]
  BY RestartFacts
<1>2. DOMAIN Nothing = {} /\ DOMAIN queue' = {}
  BY <1>1 DEF Nothing
<1>3. IdsUsed(m_instanceSaveById)'
  BY <1>1, <1>2 DEF IdsUsed
<1>4. SameDifficulty(m_instanceSaveById, maps)'
  BY <1>1, <1>2 DEF SameDifficulty
<1>5. ASSUME NEW q \in Players, NEW k \in Ids, Temporary(m_boundInstances, q, k)'
      PROVE  Temporary(m_boundInstances, q, k)
  <2>1. \A e \in Difficulties : m_boundInstances'[q][e] # [id |-> k, perm |-> FALSE]
    BY <1>1, BindTemporary DEF NoBinds
  <2>2. Row(q, k, FALSE) \in character_instance'
    BY <1>1, <1>2, <1>5, <2>1 DEF Temporary
  <2> QED
    BY <1>1, <2>2 DEF Temporary
<1>6. Solo(m_boundInstances)'
  BY <1>5 DEF Apart, Solo
<1> QED
  BY <1>3, <1>4, <1>6 DEF Apart

\* A run of the system is prompt or not from the start.
LEMMA Prompt_Next ==
  ASSUME [Next]_vars
  PROVE  prompt' = prompt
<1>1. CASE UNCHANGED vars
  BY <1>1 DEF vars
<1>2. CASE Work \/ ResetAll \/ Restart
  BY <1>2 DEF Work, ResetAll, Restart
<1>3. CASE \E i \in Ids : ResetInstance(i)
  BY <1>3 DEF ResetInstance
<1>4. CASE \E i \in DOMAIN maps : DestroyInstance(i)
  BY <1>4 DEF DestroyInstance
<1>5. ASSUME NEW p \in Players,
             \/ TeleportOut(p) \/ Arrive(p) \/ PermBind(p)
             \/ RequestLogin(p) \/ LoginOutside(p) \/ Logout(p)
      PROVE  prompt' = prompt
  BY <1>5 DEF TeleportOut, Arrive, PermBind, RequestLogin, LoginOutside, Logout
<1>6. ASSUME NEW p \in Players, NEW d \in Difficulties,
             Enter(p, d) \/ LoginInside(p, d) \/ ResetInstances(p, d) \/ UnbindInstance(p, d)
      PROVE  prompt' = prompt
  BY <1>6 DEF Enter, LoginInside, ResetInstances, UnbindInstance
<1> QED
  BY <1>1, <1>2, <1>3, <1>4, <1>5, <1>6 DEF Next

LEMMA Solo_Next ==
  ASSUME SoloInv, [Next]_vars
  PROVE  SoloInv'
<1>1. BaseInv'
  BY Base_Next DEF SoloInv
<1>2. prompt' = prompt
  BY Prompt_Next
<1>3. ASSUME prompt
      PROVE  Apart(m_instanceSaveById, m_boundInstances, maps)'
  <2>1. BaseInv /\ Apart(m_instanceSaveById, m_boundInstances, maps)
    BY <1>3 DEF SoloInv
  <2>2. CASE UNCHANGED vars
    <3>1. UNCHANGED <<instance, character_instance, queue, m_instanceSaveById, m_boundInstances,
                      maps, holder, used>>
      BY <2>2 DEF vars
    <3>2. \A q \in Players : \A r \in holder[q] : r.instance \in DOMAIN instance
      BY <2>1 DEF Apart, SameDifficulty
    <3>3. Shrinks(m_instanceSaveById, m_boundInstances)
      BY <3>1, <3>2, QueueShrinks DEF Shrinks
    <3> QED
      BY <2>1, <3>3, ShrinkApart
  <2>3. CASE Work \/ ResetAll \/ Restart
    BY <1>3, <2>1, <2>3, Work_Solo, ResetAll_Solo, Restart_Solo
  <2>4. ASSUME NEW i \in Ids, ResetInstance(i)
        PROVE  Apart(m_instanceSaveById, m_boundInstances, maps)'
    BY <1>3, <2>1, <2>4, ResetInstance_Solo
  <2>5. CASE \/ \E p \in Players : TeleportOut(p) \/ Arrive(p)
             \/ \E i \in DOMAIN maps : DestroyInstance(i)
    BY <2>1, <2>5, Away_Solo
  <2>6. ASSUME NEW p \in Players, PermBind(p) \/ RequestLogin(p) \/ LoginOutside(p) \/ Logout(p)
        PROVE  Apart(m_instanceSaveById, m_boundInstances, maps)'
    BY <2>1, <2>6, PermBind_Solo, RequestLogin_Solo, LoginOutside_Solo, Logout_Solo
  <2>7. ASSUME NEW p \in Players, NEW d \in Difficulties,
               Enter(p, d) \/ LoginInside(p, d) \/ ResetInstances(p, d) \/ UnbindInstance(p, d)
        PROVE  Apart(m_instanceSaveById, m_boundInstances, maps)'
    BY <1>3, <2>1, <2>7, Enter_Solo, LoginInside_Solo, ResetInstances_Solo, UnbindInstance_Solo
  <2> QED
    BY <2>2, <2>3, <2>4, <2>5, <2>6, <2>7 DEF Next
<1> QED
  BY <1>1, <1>2, <1>3 DEF SoloInv

\* As long as the worker keeps up with the resets, two players without a group
\* never hold temporary binds to one instance, in memory or in the table, in
\* whatever order they enter, log in and out, are unbound and reset their
\* instances, and however often ids are freed and handed out again.
THEOREM Solo_Is_Solo == Spec => []SoloIsSolo
<1>1. Init => SoloInv
  BY Init_Solo
<1>2. SoloInv /\ [Next]_vars => SoloInv'
  BY Solo_Next
<1>3. SoloInv => SoloIsSolo
  <2> SUFFICES ASSUME SoloInv, prompt
               PROVE  SoloIsSolo
    BY DEF SoloIsSolo
  <2>1. BaseInv /\ Solo(m_boundInstances)
    BY DEF SoloInv, Apart
  <2>2. ASSUME NEW p \in Players, NEW q \in Players, NEW d \in Difficulties, p # q,
               m_boundInstances[p][d] # NoBind, m_boundInstances[q][d] # NoBind,
               m_boundInstances[p][d].id = m_boundInstances[q][d].id
        PROVE  m_boundInstances[p][d].perm \/ m_boundInstances[q][d].perm
    <3>1. m_boundInstances[p][d] \in Binds /\ m_boundInstances[q][d] \in Binds
      BY <2>1, <2>2 DEF BaseInv, TypeOK, MemoryType, BoundType
    <3>2. PICK i \in Ids : i = m_boundInstances[p][d].id
      BY <3>1 DEF Binds
    <3>3. ASSUME NEW b \in Binds, b.id = i, ~b.perm
          PROVE  b = [id |-> i, perm |-> FALSE]
      BY <3>3 DEF Binds
    <3>4. ASSUME ~m_boundInstances[p][d].perm, ~m_boundInstances[q][d].perm
          PROVE  FALSE
      <4>1. Temporary(m_boundInstances, p, i) /\ Temporary(m_boundInstances, q, i)
        BY <2>2, <3>1, <3>2, <3>3, <3>4 DEF Temporary
      <4> QED
        BY <2>1, <2>2, <4>1 DEF Solo
    <3> QED
      BY <3>4
  <2>3. ASSUME NEW r \in character_instance, NEW s \in character_instance,
               r.guid # s.guid, r.instance = s.instance
        PROVE  r.permanent \/ s.permanent
    <3>1. r \in Rows /\ s \in Rows
      BY <2>1 DEF BaseInv, TypeOK, TableType
    <3>2. PICK i \in Ids : i = r.instance
      BY <3>1 DEF Rows
    <3>3. ASSUME NEW t \in Rows, t.instance = i, ~t.permanent
          PROVE  t = Row(t.guid, i, FALSE) /\ t.guid \in Players
      BY <3>3 DEF Rows, Row
    <3>4. ASSUME ~r.permanent, ~s.permanent
          PROVE  FALSE
      <4>1. Temporary(m_boundInstances, r.guid, i) /\ Temporary(m_boundInstances, s.guid, i)
        BY <2>3, <3>1, <3>2, <3>3, <3>4 DEF Temporary
      <4> QED
        BY <2>1, <2>3, <3>1, <3>2, <3>3, <3>4, <4>1 DEF Solo
    <3> QED
      BY <3>4
  <2> QED
    BY <2>2, <2>3 DEF SoloIsSolo
<1> QED
  BY <1>1, <1>2, <1>3, PTL DEF Spec

-----------------------------------------------------------------------------
(* The tables hold the binds.                                              *)

Grows ==
  /\ DOMAIN instance \subseteq DOMAIN instance'
  /\ \A k \in DOMAIN instance : instance'[k] = instance[k]

LEMMA OrderlyGrows ==
  ASSUME NEW rows, Orderly(rows), Grows
  PROVE  Orderly(rows)'
BY DEF Orderly, Grows

\* A player keeps what its query found until it is online.
KeepsFound ==
  \A q \in Players : session'[q] = "loaded" => session[q] = "loaded" /\ holder'[q] = holder[q]

LEMMA SameTables ==
  ASSUME NEW table, Recorded(table), KeepsFound, Grows,
         queue' = queue, character_instance' = character_instance
  PROVE  Recorded(table)'
<1> USE DEF Recorded
<1>1. Future(table)'
  BY DEF Future
<1>2. \A q \in Players : session'[q] = "loaded" => Found(q)' = Found(q)
  BY DEF KeepsFound, Found
<1>3. \A q \in Players : session'[q] = "loaded" =>
        \A n \in 0..Len(queue') : RowsOf(table[n], q) = Found(q)'
  BY <1>2 DEF KeepsFound, Steady
<1>4. Steady(table)'
  BY <1>3 DEF Steady
<1>5. \A n \in 0..Len(queue') : Orderly(table[n])'
  BY OrderlyGrows
<1> QED
  BY <1>1, <1>4, <1>5

\* The operations of tail are queued; T[k]: the rows after k of them.
Continues(table, tail, T) ==
  /\ tail \in Seq(Statements) /\ IsConcat(Statements, queue, tail, queue')
  /\ T \in [0..Len(tail) -> SUBSET Rows] /\ T[0] = table[Len(queue)]
  /\ \A k \in 1..Len(tail) : T[k] = Executed(T[k - 1], tail[k])
  /\ \A k \in 1..Len(tail) : tail[k].op = "login" =>
       \A n \in k..Len(tail) : RowsOf(T[n], tail[k].guid) = RowsOf(T[k - 1], tail[k].guid)
  /\ \A q \in Players : session[q] = "loading" \/ session'[q] = "loaded" =>
       \A k \in 0..Len(tail) : RowsOf(T[k], q) = RowsOf(T[0], q)

\* The tables of the queue, followed by those of what is queued.
Follows(table, tail, T, after) ==
  /\ \A n \in 0..Len(queue) : after[n] = table[n]
  /\ \A k \in 0..Len(tail) : after[Len(queue) + k] = T[k]

LEMMA ExtendTables ==
  ASSUME BaseInv, NEW table, Future(table), Steady(table), KeepsFound,
         character_instance' = character_instance,
         NEW tail, NEW T, Continues(table, tail, T)
  PROVE  \E after : Future(after)' /\ Steady(after)' /\ Follows(table, tail, T, after)
<1>1. PICK after : after = [n \in 0..Len(queue') |->
                              IF n \in 0..Len(queue) THEN table[n] ELSE T[n - Len(queue)]]
  OBVIOUS
<1>2. PICK L, M : L = Len(queue) /\ M = Len(tail)
  OBVIOUS
<1>3. L \in Nat /\ M \in Nat /\ Len(queue') = L + M
  BY <1>2 DEF Continues, IsConcat, BaseInv, TypeOK, QueueType
<1>4. /\ table \in [0..L -> SUBSET Rows] /\ T \in [0..M -> SUBSET Rows] /\ T[0] = table[L]
  BY <1>2 DEF Continues, Future
<1>5. \A n \in 0..L : after[n] = table[n]
  BY <1>1, <1>2, <1>3
<1>6. \A k \in 0..M : after[L + k] = T[k]
  <2> TAKE k \in 0..M
  <2>1. CASE k = 0
    BY <1>3, <1>4, <1>5, <2>1
  <2>2. CASE k # 0
    <3>1. L + k \in 0..(L + M) /\ L + k \notin 0..L /\ (L + k) - L = k
      BY <1>3, <2>2
    <3> QED
      BY <1>1, <1>2, <1>3, <3>1
  <2> QED
    BY <2>1, <2>2
<1>7. \A n \in 0..(L + M) : n \in 0..L \/ \E k \in 1..M : n = L + k
  <2> TAKE n \in 0..(L + M)
  <2>1. n \in 0..L \/ (n - L \in 1..M /\ n = L + (n - L))
    BY <1>3
  <2> QED
    BY <2>1
<1>8. after \in [0..Len(queue') -> SUBSET Rows]
  <2>1. ASSUME NEW n \in 0..(L + M)
        PROVE  after[n] \in SUBSET Rows
    <3>1. CASE n \in 0..L
      BY <1>4, <1>5, <3>1
    <3>2. ASSUME NEW k \in 1..M, n = L + k
          PROVE  after[n] \in SUBSET Rows
      <4>1. k \in 0..M
        BY <1>3
      <4> QED
        BY <1>4, <1>6, <3>2, <4>1
    <3> QED
      BY <1>7, <3>1, <3>2
  <2> QED
    BY <1>1, <1>3, <2>1
<1>9. /\ \A k \in 1..L : queue'[k] = queue[k]
      /\ \A k \in 1..M : queue'[L + k] = tail[k]
  BY <1>2 DEF Continues, IsConcat
<1>10. Future(after)'
  <2>1. after[0] = character_instance'
    BY <1>3, <1>5 DEF Future
  <2>2. ASSUME NEW n \in 1..(L + M)
        PROVE  after[n] = Executed(after[n - 1], queue'[n])
    <3>1. CASE n \in 0..L
      <4>1. n \in 1..L /\ n - 1 \in 0..L
        BY <1>3, <3>1
      <4>2. table[n] = Executed(table[n - 1], queue[n])
        BY <1>2, <4>1 DEF Future
      <4> QED
        BY <1>5, <1>9, <3>1, <4>1, <4>2
    <3>2. ASSUME NEW k \in 1..M, n = L + k
          PROVE  after[n] = Executed(after[n - 1], queue'[n])
      <4>1. k \in 0..M /\ k - 1 \in 0..M /\ n - 1 = L + (k - 1)
        BY <1>3, <3>2
      <4>2. T[k] = Executed(T[k - 1], tail[k])
        BY <1>2 DEF Continues
      <4>3. after[n] = T[k] /\ after[n - 1] = T[k - 1] /\ queue'[n] = tail[k]
        BY <1>6, <1>9, <3>2, <4>1
      <4> QED
        BY <4>2, <4>3
    <3>3. n \in 0..(L + M)
      BY <1>3
    <3> QED
      BY <1>7, <3>1, <3>2, <3>3
  <2> QED
    BY <1>3, <1>8, <2>1, <2>2 DEF Future
<1>11. ASSUME NEW q \in Players, session[q] = "loading" \/ session'[q] = "loaded", NEW k \in 0..M
       PROVE  RowsOf(T[k], q) = RowsOf(table[L], q)
  BY <1>2, <1>4, <1>11 DEF Continues
<1>12. ASSUME NEW k \in 1..(L + M), queue'[k].op = "login", NEW n \in k..(L + M)
       PROVE  RowsOf(after[n], queue'[k].guid) = RowsOf(after[k - 1], queue'[k].guid)
  <2>1. CASE k \in 1..L
    <3>1. queue'[k] = queue[k] /\ k \in DOMAIN queue
      BY <1>2, <1>9, <2>1 DEF BaseInv, TypeOK, QueueType
    <3>2. queue[k] \in Statements
      BY <3>1 DEF BaseInv, TypeOK, QueueType
    <3>3. queue[k].guid \in Players /\ session[queue[k].guid] = "loading"
      BY <1>12, <3>1, <3>2 DEF BaseInv, Queued, Statements
    <3>4. \A m \in k..L : RowsOf(table[m], queue[k].guid) = RowsOf(table[k - 1], queue[k].guid)
      BY <1>2, <1>12, <2>1, <3>1 DEF Steady
    <3>5. k - 1 \in 0..L /\ L \in k..L /\ n \in 0..(L + M)
      BY <1>3, <2>1
    <3>6. CASE n \in 0..L
      <4>1. n \in k..L
        BY <1>3, <2>1, <3>6
      <4> QED
        BY <1>5, <3>1, <3>4, <3>5, <3>6, <4>1
    <3>7. ASSUME NEW m \in 1..M, n = L + m
          PROVE  RowsOf(after[n], queue'[k].guid) = RowsOf(after[k - 1], queue'[k].guid)
      <4>1. m \in 0..M
        BY <1>3
      <4>2. after[n] = T[m]
        BY <1>6, <3>7, <4>1
      <4> QED
        BY <1>5, <1>11, <3>1, <3>3, <3>4, <3>5, <4>1, <4>2
    <3> QED
      BY <1>7, <3>5, <3>6, <3>7
  <2>2. CASE k \notin 1..L
    <3>1. PICK j \in 1..M, m \in 1..M : k = L + j /\ n = L + m /\ m \in j..M
      <4>1. /\ k - L \in 1..M /\ n - L \in 1..M /\ k = L + (k - L) /\ n = L + (n - L)
            /\ n - L \in (k - L)..M
        BY <1>3, <2>2
      <4> QED
        BY <4>1
    <3>2. j \in 0..M /\ m \in 0..M /\ j - 1 \in 0..M /\ k - 1 = L + (j - 1)
      BY <1>3, <3>1
    <3>3. after[n] = T[m] /\ after[k - 1] = T[j - 1] /\ queue'[k] = tail[j]
      BY <1>6, <1>9, <3>1, <3>2
    <3>4. RowsOf(T[m], tail[j].guid) = RowsOf(T[j - 1], tail[j].guid)
      BY <1>2, <1>12, <3>1, <3>3 DEF Continues
    <3> QED
      BY <3>3, <3>4
  <2> QED
    BY <2>1, <2>2
<1>13. ASSUME NEW p \in Players, session'[p] = "loaded", NEW n \in 0..(L + M)
       PROVE  RowsOf(after[n], p) = Found(p)'
  <2>1. session[p] = "loaded" /\ Found(p)' = Found(p)
    BY <1>13 DEF KeepsFound, Found
  <2>2. \A m \in 0..L : RowsOf(table[m], p) = Found(p)
    BY <1>2, <2>1 DEF Steady
  <2>3. CASE n \in 0..L
    BY <1>5, <2>1, <2>2, <2>3
  <2>4. ASSUME NEW m \in 1..M, n = L + m
        PROVE  RowsOf(after[n], p) = Found(p)'
    <3>1. m \in 0..M /\ L \in 0..L
      BY <1>3
    <3>2. after[n] = T[m]
      BY <1>6, <2>4, <3>1
    <3> QED
      BY <1>11, <1>13, <2>1, <2>2, <3>1, <3>2
  <2> QED
    BY <1>7, <2>3, <2>4
<1>14. Steady(after)'
  BY <1>3, <1>12, <1>13 DEF Steady
<1>15. Follows(table, tail, T, after)
  BY <1>2, <1>5, <1>6 DEF Follows
<1> QED
  BY <1>10, <1>14, <1>15

\* One statement is queued, of a player who is not logging in, or a login.
LEMMA AppendTables ==
  ASSUME BaseInv, NEW table, Recorded(table), KeepsFound, Grows,
         character_instance' = character_instance,
         NEW s \in Statements, queue' = Append(queue, s), Enters(s) => s.new \in Ids,
         s.op = "login" \/ (session[s.guid] # "loading" /\ session'[s.guid] # "loaded"),
         NEW F, F = table[Len(queue)], NEW G, G = Executed(F, s), Orderly(G)'
  PROVE  \E after : Recorded(after)' /\ after[Len(queue')] = G
<1>1. queue \in Seq(Statements) /\ Len(queue) \in Nat
  BY DEF BaseInv, TypeOK, QueueType
<1>2. PICK tail : tail = <<s>>
  OBVIOUS
<1>3. tail \in Seq(Statements) /\ Len(tail) = 1 /\ tail[1] = s
  BY <1>2
<1>4. IsConcat(Statements, queue, tail, queue')
  BY <1>1, <1>3 DEF IsConcat
<1>5. F \in SUBSET Rows
  BY <1>1 DEF Recorded, Future
<1>6. /\ G \in SUBSET Rows
      /\ s.op = "login" => G = F
      /\ \A p \in Players \ {s.guid} : RowsOf(G, p) = RowsOf(F, p)
  BY <1>5, ExecutedFacts
<1>7. PICK T : T = [k \in 0..1 |-> IF k = 0 THEN F ELSE G]
  OBVIOUS
<1>8. T \in [0..1 -> SUBSET Rows] /\ T[0] = F /\ T[1] = G
  BY <1>5, <1>6, <1>7
<1>9. Continues(table, tail, T)
  <2>1. ASSUME NEW q \in Players, session[q] = "loading" \/ session'[q] = "loaded"
        PROVE  RowsOf(G, q) = RowsOf(F, q)
    <3>1. CASE s.op = "login"
      BY <1>6, <3>1
    <3>2. CASE s.op # "login"
      BY <1>6, <2>1, <3>2
    <3> QED
      BY <3>1, <3>2
  <2>2. ASSUME NEW q \in Players, session[q] = "loading" \/ session'[q] = "loaded",
               NEW k \in 0..1
        PROVE  RowsOf(T[k], q) = RowsOf(T[0], q)
    <3>1. k = 0 \/ k = 1
      BY <2>2
    <3> QED
      BY <1>8, <2>1, <2>2, <3>1
  <2>3. ASSUME NEW k \in 1..1
        PROVE  /\ T[k] = Executed(T[k - 1], tail[k])
               /\ tail[k].op = "login" =>
                    \A n \in k..1 : RowsOf(T[n], tail[k].guid) = RowsOf(T[k - 1], tail[k].guid)
    <3>1. k = 1 /\ k - 1 = 0 /\ \A n \in k..1 : n = 1
      BY <2>3
    <3> QED
      BY <1>3, <1>6, <1>8, <3>1
  <2> QED
    BY <1>3, <1>4, <1>8, <2>2, <2>3 DEF Continues
<1>10. PICK after : Future(after)' /\ Steady(after)' /\ Follows(table, tail, T, after)
  BY <1>9, ExtendTables DEF Recorded
<1>11. Len(queue') = Len(queue) + 1 /\ after[Len(queue')] = G
  BY <1>1, <1>3, <1>8, <1>10 DEF Follows
<1>12. ASSUME NEW n \in 0..Len(queue')
       PROVE  Orderly(after[n])'
  <2>1. CASE n \in 0..Len(queue)
    <3>1. after[n] = table[n] /\ Orderly(table[n])
      BY <1>10, <2>1 DEF Follows, Recorded
    <3> QED
      BY <3>1, OrderlyGrows
  <2>2. CASE n = Len(queue')
    BY <1>11, <2>2
  <2> QED
    BY <1>1, <1>11, <2>1, <2>2
<1> QED
  BY <1>10, <1>11, <1>12 DEF Recorded

\* The binds of a player and its rows in an orderly table.
LEMMA BindRow ==
  ASSUME NEW bound, BoundType(bound), NEW p \in Players, NEW d \in Difficulties,
         bound[p][d] # NoBind, NEW rows, RowsOf(rows, p) = BindRows(bound, p)
  PROVE  /\ Row(p, bound[p][d].id, bound[p][d].perm) \in rows
         /\ Row(p, bound[p][d].id, bound[p][d].perm) \in Rows
<1>1. Row(p, bound[p][d].id, bound[p][d].perm) \in BindRows(bound, p)
  BY DEF BindRows
<1>2. bound[p][d] \in Binds
  BY DEF BoundType
<1> QED
  BY <1>1, <1>2 DEF RowsOf, Row, Rows, Binds

LEMMA RowBind ==
  ASSUME NEW bound, NEW p \in Players, NEW rows, RowsOf(rows, p) = BindRows(bound, p),
         NEW r \in rows, r.guid = p
  PROVE  \E d \in Difficulties : /\ bound[p][d] # NoBind
                                 /\ r = Row(p, bound[p][d].id, bound[p][d].perm)
                                 /\ r.instance = bound[p][d].id
                                 /\ r.permanent = bound[p][d].perm
<1>1. r \in BindRows(bound, p)
  BY DEF RowsOf
<1>2. PICK d \in Difficulties : /\ bound[p][d] # NoBind
                                /\ r = Row(p, bound[p][d].id, bound[p][d].perm)
  BY <1>1 DEF BindRows
<1> QED
  BY <1>2 DEF Row

\* Binds to one save are of its difficulty, which the table knows.
LEMMA BindInstance ==
  ASSUME NEW saves, NEW bound, Matching(saves, bound), SameDifficulty(saves, maps),
         DOMAIN saves \subseteq DOMAIN instance,
         NEW p \in Players, NEW d \in Difficulties, bound[p][d] # NoBind
  PROVE  /\ bound[p][d].id \in DOMAIN saves
         /\ bound[p][d].id \in DOMAIN instance /\ instance[bound[p][d].id] = d
         /\ \A e \in Difficulties : bound[p][e] # NoBind /\ bound[p][e].id = bound[p][d].id => e = d
<1>1. \A e \in Difficulties : bound[p][e] # NoBind =>
        bound[p][e].id \in DOMAIN saves /\ saves[bound[p][e].id].difficulty = e
  BY DEF Matching
<1> QED
  BY <1>1 DEF SameDifficulty

LEMMA Init_Rows ==
  ASSUME Init
  PROVE  RowsInv
<1>1. SoloInv /\ TypeOK
  BY Init_Solo DEF SoloInv, BaseInv
<1>2. /\ character_instance = {} /\ queue = <<>> /\ m_instanceSaveById = Nothing
      /\ session = [p \in Players |-> "offline"]
  BY DEF Init
<1>3. PICK table : table = [n \in 0..0 |-> {}]
  OBVIOUS
<1>4. Len(queue) = 0 /\ DOMAIN m_instanceSaveById = {} /\ Online = {}
  BY <1>2 DEF Nothing, Online
<1>5. table \in [0..0 -> SUBSET Rows] /\ \A n \in 0..0 : table[n] = {}
  BY <1>3
<1>6. Future(table) /\ Steady(table)
  BY <1>2, <1>4, <1>5 DEF Future, Steady
<1>7. Recorded(table) /\ Holds(table[Len(queue)], m_boundInstances, Online)
  BY <1>4, <1>5, <1>6 DEF Recorded, Orderly, Holds
<1>8. TablesInv
  BY <1>4, <1>7 DEF TablesInv
<1> QED
  BY <1>1, <1>8 DEF RowsInv

LEMMA Work_Rows ==
  ASSUME BaseInv, TablesInv, Work
  PROVE  TablesInv'
<1>1. PICK s : s = Head(queue)
  OBVIOUS
<1>2. /\ queue # <<>> /\ queue' = Tail(queue)
      /\ character_instance' = Executed(character_instance, s)
      /\ \/ /\ s.op = "login"
            /\ session' = [session EXCEPT ![s.guid] = "loaded"]
            /\ holder' = [holder EXCEPT ![s.guid] = LoginRows(s.guid)]
         \/ s.op # "login" /\ session' = session /\ holder' = holder
      /\ UNCHANGED <<instance, m_instanceSaveById, m_boundInstances>>
  BY <1>1 DEF Work
<1>3. queue \in Seq(Statements)
  BY DEF BaseInv, TypeOK, QueueType
<1>4. PICK L : L = Len(queue')
  OBVIOUS
<1>5. /\ L \in Nat /\ Len(queue) = L + 1 /\ s = queue[1] /\ s \in Statements
      /\ \A n \in 1..L : queue'[n] = queue[n + 1]
      /\ 1 \in DOMAIN queue
  BY <1>1, <1>2, <1>3, <1>4
<1>6. PICK table : Recorded(table) /\ Holds(table[Len(queue)], m_boundInstances, Online)
  BY DEF TablesInv
<1>7. /\ table \in [0..(L + 1) -> SUBSET Rows] /\ table[0] = character_instance
      /\ \A n \in 1..(L + 1) : table[n] = Executed(table[n - 1], queue[n])
      /\ \A n \in 0..(L + 1) : Orderly(table[n])
  BY <1>5, <1>6 DEF Recorded, Future
<1>8. PICK after : after = [n \in 0..L |-> table[n + 1]]
  OBVIOUS
<1>9. \A n \in 0..L : n + 1 \in 0..(L + 1) /\ after[n] = table[n + 1]
  BY <1>5, <1>8
<1>10. Future(after)'
  <2>1. after \in [0..L -> SUBSET Rows]
    BY <1>7, <1>8, <1>9
  <2>2. after[0] = character_instance'
    <3>1. 1 \in 1..(L + 1) /\ 0 \in 0..L /\ 1 - 1 = 0 /\ 0 + 1 = 1
      BY <1>5
    <3>2. table[1] = Executed(table[0], queue[1])
      BY <1>7, <3>1
    <3>3. after[0] = table[1]
      BY <1>9, <3>1
    <3> QED
      BY <1>2, <1>5, <1>7, <3>2, <3>3
  <2>3. ASSUME NEW n \in 1..L
        PROVE  after[n] = Executed(after[n - 1], queue'[n])
    <3>1. n \in 0..L /\ n - 1 \in 0..L /\ n + 1 \in 1..(L + 1) /\ (n + 1) - 1 = n /\ (n - 1) + 1 = n
      BY <1>5
    <3>2. table[n + 1] = Executed(table[n], queue[n + 1])
      BY <1>7, <3>1
    <3>3. after[n] = table[n + 1] /\ after[n - 1] = table[n] /\ queue'[n] = queue[n + 1]
      BY <1>5, <1>9, <3>1
    <3> QED
      BY <3>2, <3>3
  <2> QED
    BY <1>4, <2>1, <2>2, <2>3 DEF Future
<1>11. /\ \A k \in 1..(L + 1) : queue[k].op = "login" => \A n \in k..(L + 1) :
            RowsOf(table[n], queue[k].guid) = RowsOf(table[k - 1], queue[k].guid)
       /\ \A p \in Players : session[p] = "loaded" =>
            \A n \in 0..(L + 1) : RowsOf(table[n], p) = Found(p)
  BY <1>5, <1>6 DEF Recorded, Steady
<1>12. ASSUME NEW k \in 1..L, queue'[k].op = "login", NEW n \in k..L
       PROVE  RowsOf(after[n], queue'[k].guid) = RowsOf(after[k - 1], queue'[k].guid)
  <2>1. /\ k + 1 \in 1..(L + 1) /\ n + 1 \in (k + 1)..(L + 1) /\ n \in 0..L /\ k - 1 \in 0..L
        /\ (k + 1) - 1 = k /\ (k - 1) + 1 = k
    BY <1>5
  <2>2. queue'[k] = queue[k + 1] /\ after[n] = table[n + 1] /\ after[k - 1] = table[k]
    BY <1>5, <1>9, <2>1
  <2>3. RowsOf(table[n + 1], queue[k + 1].guid) = RowsOf(table[k], queue[k + 1].guid)
    BY <1>11, <1>12, <2>1, <2>2
  <2> QED
    BY <2>2, <2>3
<1>13. session \in [Players -> {"offline", "loading", "loaded", "online"}]
       /\ holder \in [Players -> SUBSET HolderRows] /\ s.guid \in Players
  BY <1>5 DEF BaseInv, TypeOK, SessionType, Statements
<1>14. ASSUME NEW p \in Players, session'[p] = "loaded", NEW n \in 0..L
       PROVE  RowsOf(after[n], p) = Found(p)'
  <2>1. CASE session[p] = "loaded" /\ holder'[p] = holder[p]
    <3>1. Found(p)' = Found(p)
      BY <2>1 DEF Found
    <3> QED
      BY <1>9, <1>11, <2>1, <3>1
  <2>2. CASE s.op = "login" /\ p = s.guid
    <3>1. holder'[p] = LoginRows(p)
      BY <1>2, <1>13, <2>2
    <3>2. 1 \in 1..(L + 1) /\ n + 1 \in 1..(L + 1) /\ L + 1 \in 1..(L + 1) /\ L + 1 \in 0..(L + 1)
          /\ 1 - 1 = 0
      BY <1>5
    <3>3. \A m \in 1..(L + 1) : RowsOf(table[m], p) = RowsOf(character_instance, p)
      BY <1>5, <1>7, <1>11, <2>2, <3>2
    <3>4. \A r \in RowsOf(character_instance, p) : r.instance \in DOMAIN instance
      <4>1. RowsOf(table[L + 1], p) = RowsOf(character_instance, p) /\ Orderly(table[L + 1])
        BY <1>7, <3>2, <3>3
      <4> QED
        BY <4>1 DEF Orderly, RowsOf
    <3>5. RowsOf(character_instance, p) = Found(p)'
      <4>1. ASSUME NEW r \in RowsOf(character_instance, p)
            PROVE  r \in Found(p)'
        <5>1. r \in character_instance /\ r.guid = p /\ r.instance \in DOMAIN instance /\ r \in Rows
          BY <3>4 DEF RowsOf, BaseInv, TypeOK, TableType
        <5>2. PICK t : t = [instance |-> r.instance, permanent |-> r.permanent,
                            difficulty |-> instance[r.instance]]
          OBVIOUS
        <5>3. t \in LoginRows(p) /\ t.instance = r.instance /\ t.permanent = r.permanent
          BY <5>1, <5>2 DEF LoginRows
        <5>4. r = Row(p, t.instance, t.permanent)
          BY <5>1, <5>3 DEF Rows, Row
        <5> QED
          BY <3>1, <5>3, <5>4 DEF Found
      <4>2. ASSUME NEW r \in Found(p)'
            PROVE  r \in RowsOf(character_instance, p)
        <5>1. PICK t \in LoginRows(p) : r = Row(p, t.instance, t.permanent)
          BY <3>1 DEF Found
        <5>2. PICK c \in character_instance :
                c.guid = p /\ t.instance = c.instance /\ t.permanent = c.permanent
          BY <5>1 DEF LoginRows
        <5>3. c \in Rows
          BY DEF BaseInv, TypeOK, TableType
        <5>4. c = r
          BY <5>1, <5>2, <5>3 DEF Rows, Row
        <5> QED
          BY <5>2, <5>4 DEF RowsOf
      <4> QED
        BY <4>1, <4>2
    <3> QED
      BY <1>9, <3>2, <3>3, <3>5
  <2>3. (session[p] = "loaded" /\ holder'[p] = holder[p]) \/ (s.op = "login" /\ p = s.guid)
    BY <1>2, <1>13, <1>14
  <2> QED
    BY <2>1, <2>2, <2>3
<1>15. Steady(after)'
  BY <1>4, <1>12, <1>14 DEF Steady
<1>16. \A n \in 0..Len(queue') : Orderly(after[n])'
  <2>1. \A n \in 0..L : Orderly(after[n])
    BY <1>7, <1>9
  <2> QED
    BY <1>2, <1>4, <2>1 DEF Orderly
<1>17. Online' = Online
  <2>1. s.op = "login" => session[s.guid] = "loading"
    BY <1>5 DEF BaseInv, Queued
  <2> QED
    BY <1>2, <1>13, <2>1 DEF Online
<1>18. Holds(after[Len(queue)], m_boundInstances, Online)'
  <2>1. after[L] = table[L + 1]
    BY <1>5, <1>9
  <2>2. \A p \in Online : RowsOf(after[L], p) = BindRows(m_boundInstances, p)
    BY <1>5, <1>6, <2>1 DEF Holds
  <2>3. \A p \in Online : BindRows(m_boundInstances, p)' = BindRows(m_boundInstances, p)
    BY <1>2 DEF BindRows
  <2> QED
    BY <1>4, <1>17, <2>2, <2>3 DEF Holds
<1>19. DOMAIN m_instanceSaveById' \subseteq DOMAIN instance'
  BY <1>2 DEF TablesInv
<1>20. Recorded(after)'
  BY <1>10, <1>15, <1>16 DEF Recorded
<1> QED
  BY <1>18, <1>19, <1>20 DEF TablesInv

\* The resets wait until the queue is empty and nobody logs in.
LEMMA SettledTables ==
  ASSUME BaseInv, TablesInv, Settled,
         queue' = queue, session' = session, character_instance' \subseteq character_instance,
         DOMAIN m_instanceSaveById' \subseteq DOMAIN instance',
         Orderly(character_instance)',
         Holds(character_instance, m_boundInstances, Online)'
  PROVE  TablesInv'
<1>1. PICK table : table = [n \in 0..0 |-> character_instance']
  OBVIOUS
<1>2. Len(queue') = 0 /\ character_instance' \in SUBSET Rows
  BY DEF Settled, BaseInv, TypeOK, TableType
<1>3. table \in [0..0 -> SUBSET Rows] /\ \A n \in 0..0 : table[n] = character_instance'
  BY <1>1, <1>2
<1>4. Future(table)' /\ Steady(table)'
  BY <1>2, <1>3 DEF Future, Steady, Settled
<1>5. \A n \in 0..Len(queue') : Orderly(table[n])'
  BY <1>2, <1>3 DEF Orderly
<1>6. Holds(table[Len(queue)], m_boundInstances, Online)'
  BY <1>2, <1>3 DEF Holds
<1> QED
  BY <1>4, <1>5, <1>6 DEF TablesInv, Recorded

LEMMA SettledHolds ==
  ASSUME BaseInv, TablesInv, Settled
  PROVE  /\ Orderly(character_instance)
         /\ Holds(character_instance, m_boundInstances, Online)
<1>1. PICK table : Recorded(table) /\ Holds(table[Len(queue)], m_boundInstances, Online)
  BY DEF TablesInv
<1>2. Len(queue) = 0 /\ 0 \in 0..0
  BY DEF Settled
<1> QED
  BY <1>1, <1>2 DEF Recorded, Future

\* The instances of gone are deleted with their rows, and forgotten.
LEMMA ForgottenHolds ==
  ASSUME BaseInv, TablesInv, Settled, queue' = queue, session' = session, NEW gone,
         DOMAIN instance' = DOMAIN instance \ gone,
         \A k \in DOMAIN instance' : instance'[k] = instance[k],
         character_instance' = {r \in character_instance : r.instance \notin gone},
         DOMAIN m_instanceSaveById' \subseteq DOMAIN instance',
         \A p \in Online : \A d \in Difficulties : m_boundInstances'[p][d] =
           IF m_boundInstances[p][d] # NoBind /\ m_boundInstances[p][d].id \in gone
           THEN NoBind ELSE m_boundInstances[p][d]
  PROVE  TablesInv'
<1>1. /\ Orderly(character_instance)
      /\ Holds(character_instance, m_boundInstances, Online)
  BY SettledHolds
<1>2. Orderly(character_instance)'
  BY <1>1 DEF Orderly
<1>3. ASSUME NEW p \in Online
      PROVE  RowsOf(character_instance', p) = BindRows(m_boundInstances, p)'
  <2>1. p \in Players /\ RowsOf(character_instance, p) = BindRows(m_boundInstances, p)
    BY <1>1 DEF Online, Holds
  <2>2. BoundType(m_boundInstances)
    BY DEF BaseInv, TypeOK, MemoryType
  <2>3. ASSUME NEW r \in RowsOf(character_instance', p)
        PROVE  r \in BindRows(m_boundInstances, p)'
    <3>1. r \in character_instance /\ r.guid = p /\ r.instance \notin gone
      BY <2>3 DEF RowsOf
    <3>2. PICK d \in Difficulties : /\ m_boundInstances[p][d] # NoBind
                                    /\ r = Row(p, m_boundInstances[p][d].id, m_boundInstances[p][d].perm)
                                    /\ r.instance = m_boundInstances[p][d].id
      BY <2>1, <3>1, RowBind
    <3>3. m_boundInstances'[p][d] = m_boundInstances[p][d]
      BY <1>3, <3>1, <3>2
    <3> QED
      BY <3>2, <3>3 DEF BindRows
  <2>4. ASSUME NEW r \in BindRows(m_boundInstances, p)'
        PROVE  r \in RowsOf(character_instance', p)
    <3>1. PICK d \in Difficulties : /\ m_boundInstances'[p][d] # NoBind
                                    /\ r = Row(p, m_boundInstances'[p][d].id, m_boundInstances'[p][d].perm)
      BY <2>4 DEF BindRows
    <3>2. /\ m_boundInstances'[p][d] = m_boundInstances[p][d] /\ m_boundInstances[p][d] # NoBind
          /\ m_boundInstances[p][d].id \notin gone
      BY <1>3, <3>1
    <3>3. r \in character_instance
      BY <2>1, <2>2, <3>1, <3>2, BindRow
    <3>4. r.guid = p /\ r.instance = m_boundInstances[p][d].id
      BY <3>1, <3>2 DEF Row
    <3> QED
      BY <3>2, <3>3, <3>4 DEF RowsOf
  <2> QED
    BY <2>3, <2>4
<1>4. Online' = Online
  BY DEF Online
<1>5. Holds(character_instance, m_boundInstances, Online)'
  BY <1>3, <1>4 DEF Holds
<1> QED
  BY <1>2, <1>5, SettledTables

LEMMA ResetInstance_Rows ==
  ASSUME SoloInv, prompt, TablesInv, NEW i \in Ids, ResetInstance(i)
  PROVE  TablesInv'
<1>1. BaseInv /\ Settled
  BY DEF SoloInv, ResetInstance
<1>2. /\ DOMAIN m_instanceSaveById' = DOMAIN m_instanceSaveById \ {i}
      /\ \A p \in Players : \A d \in Difficulties : m_boundInstances'[p][d] =
           IF m_boundInstances[p][d] # NoBind /\ m_boundInstances[p][d].id \in {i}
           THEN NoBind ELSE m_boundInstances[p][d]
  BY <1>1, ResetSavesFacts DEF ResetInstance
<1>3. /\ DOMAIN instance' = DOMAIN instance \ {i}
      /\ \A k \in DOMAIN instance' : instance'[k] = instance[k]
      /\ character_instance' = {r \in character_instance : r.instance \notin {i}}
  BY <1>1, DeleteFacts DEF ResetInstance, BaseInv, TypeOK
<1>4. queue' = queue /\ session' = session
  BY DEF ResetInstance
<1>5. DOMAIN m_instanceSaveById' \subseteq DOMAIN instance'
  BY <1>2, <1>3 DEF TablesInv
<1>6. \A p \in Online : \A d \in Difficulties : m_boundInstances'[p][d] =
        IF m_boundInstances[p][d] # NoBind /\ m_boundInstances[p][d].id \in {i}
        THEN NoBind ELSE m_boundInstances[p][d]
  BY <1>2 DEF Online
<1> QED
  BY <1>1, <1>3, <1>4, <1>5, <1>6, ForgottenHolds

LEMMA ResetAll_Rows ==
  ASSUME SoloInv, prompt, TablesInv, ResetAll
  PROVE  TablesInv'
<1>1. /\ BaseInv /\ Settled /\ SameDifficulty(m_instanceSaveById, maps)
      /\ Matching(m_instanceSaveById, m_boundInstances)
      /\ DOMAIN m_instanceSaveById \subseteq DOMAIN instance
  BY DEF SoloInv, BaseInv, ResetAll, Apart, TablesInv
<1>2. PICK S : S = {i \in DOMAIN m_instanceSaveById : m_instanceSaveById[i].difficulty = Heroic}
  OBVIOUS
<1>3. PICK gone : gone = {i \in DOMAIN instance : instance[i] = Heroic}
  OBVIOUS
<1>4. /\ DOMAIN instance' = DOMAIN instance \ gone
      /\ \A k \in DOMAIN instance' : instance'[k] = instance[k]
      /\ character_instance' = {r \in character_instance : r.instance \notin gone}
      /\ queue' = queue /\ session' = session /\ ResetSaves(S)
  BY <1>2, <1>3 DEF ResetAll
<1>5. /\ DOMAIN m_instanceSaveById' = DOMAIN m_instanceSaveById \ S
      /\ \A p \in Players : \A d \in Difficulties : m_boundInstances'[p][d] =
           IF m_boundInstances[p][d] # NoBind /\ m_boundInstances[p][d].id \in S
           THEN NoBind ELSE m_boundInstances[p][d]
  BY <1>1, <1>4, ResetSavesFacts
<1>6. \A i \in DOMAIN m_instanceSaveById : i \in S <=> i \in gone
  BY <1>1, <1>2, <1>3 DEF SameDifficulty
<1>7. DOMAIN m_instanceSaveById' \subseteq DOMAIN instance'
  BY <1>1, <1>4, <1>5, <1>6
<1>8. \A p \in Online : \A d \in Difficulties : m_boundInstances'[p][d] =
        IF m_boundInstances[p][d] # NoBind /\ m_boundInstances[p][d].id \in gone
        THEN NoBind ELSE m_boundInstances[p][d]
  <2> TAKE p \in Online
  <2> TAKE d \in Difficulties
  <2>1. p \in Players
    BY DEF Online
  <2>2. m_boundInstances[p][d] # NoBind => m_boundInstances[p][d].id \in DOMAIN m_instanceSaveById
    BY <1>1, <2>1 DEF Matching
  <2> QED
    BY <1>5, <1>6, <2>1, <2>2
<1> QED
  BY <1>1, <1>4, <1>7, <1>8, ForgottenHolds

LEMMA ResetInstances_Rows ==
  ASSUME SoloInv, prompt, TablesInv, NEW p \in Players, NEW d \in Difficulties,
         ResetInstances(p, d)
  PROVE  TablesInv'
<1>1. PICK i : i = m_boundInstances[p][d].id
  OBVIOUS
<1>2. /\ Settled /\ m_boundInstances[p][d] # NoBind
      /\ m_instanceSaveById[i].canReset /\ ~HavePlayers(m_mapRef, i)
      /\ DeleteInstanceFromDB(i)
      /\ m_instanceSaveById' = RemovePlayer(m_instanceSaveById, p, i, m_mapRef)
      /\ m_boundInstances' = [m_boundInstances EXCEPT ![p][d] = NoBind]
      /\ queue' = queue /\ session' = session
  BY <1>1 DEF ResetInstances
<1>3. PICK saves, bound : saves = m_instanceSaveById /\ bound = m_boundInstances
  OBVIOUS
<1>4. /\ BaseInv /\ TypeOK /\ SavesType(saves) /\ BoundType(bound) /\ Matching(saves, bound)
      /\ Solo(bound) /\ DOMAIN saves \subseteq DOMAIN instance
  BY <1>3 DEF SoloInv, BaseInv, TypeOK, MemoryType, Apart, TablesInv
<1>5. /\ i \in DOMAIN saves /\ saves[i].difficulty = d /\ i \in Ids
  BY <1>1, <1>2, <1>3, <1>4 DEF Matching, SavesType
<1>6. \A q \in saves[i].players : q = p
  <2> TAKE q \in saves[i].players
  <2>1. q \in Players /\ bound[q][d] # NoBind /\ bound[q][d].id = i
    BY <1>4, <1>5 DEF Matching, SavesType, Saves
  <2>2. ~bound[q][d].perm /\ ~bound[p][d].perm
    BY <1>1, <1>2, <1>3, <1>4, <2>1 DEF Matching
  <2>3. bound[q][d] \in Binds /\ bound[p][d] \in Binds
    BY <1>2, <1>3, <1>4, <2>1 DEF BoundType
  <2>4. ASSUME NEW b \in Binds, b.id = i, ~b.perm
        PROVE  b = [id |-> i, perm |-> FALSE]
    BY <2>4 DEF Binds
  <2>5. Temporary(bound, q, i) /\ Temporary(bound, p, i)
    BY <1>1, <1>3, <2>1, <2>2, <2>3, <2>4 DEF Temporary
  <2> QED
    BY <1>4, <1>5, <2>1, <2>5 DEF Solo
<1>7. Unbinds(p, d, i)
  BY <1>1, <1>2, <1>4, UnbindFacts
<1>8. i \notin DOMAIN m_instanceSaveById'
  <2>1. m_instanceSaveById' = RemovePlayers(saves, {<<p, i>>}, m_mapRef)
    BY <1>2, <1>3 DEF RemovePlayer
  <2>2. {q \in saves[i].players : <<q, i>> \notin {<<p, i>>}} = {}
    BY <1>6
  <2>3. \E q \in Players : <<q, i>> \in {<<p, i>>}
    OBVIOUS
  <2> QED
    BY <1>2, <1>5, <2>1, <2>2, <2>3 DEF RemovePlayers
<1>9. /\ DOMAIN instance' = DOMAIN instance \ {i}
      /\ \A k \in DOMAIN instance' : instance'[k] = instance[k]
      /\ character_instance' = {r \in character_instance : r.instance \notin {i}}
  BY <1>2, <1>4, DeleteFacts DEF TypeOK
<1>10. DOMAIN m_instanceSaveById' \subseteq DOMAIN instance'
  BY <1>3, <1>4, <1>7, <1>8, <1>9 DEF Unbinds
<1>11. \A q \in Online : \A e \in Difficulties : m_boundInstances'[q][e] =
         IF m_boundInstances[q][e] # NoBind /\ m_boundInstances[q][e].id \in {i}
         THEN NoBind ELSE m_boundInstances[q][e]
  <2> TAKE q \in Online
  <2> TAKE e \in Difficulties
  <2>1. q \in Players
    BY DEF Online
  <2>2. m_boundInstances'[q][e] = IF q = p /\ e = d THEN NoBind ELSE m_boundInstances[q][e]
    BY <1>7, <2>1 DEF Unbinds
  <2>3. ASSUME m_boundInstances[q][e] # NoBind, m_boundInstances[q][e].id = i
        PROVE  q = p /\ e = d
    BY <1>3, <1>4, <1>5, <1>6, <2>1, <2>3 DEF Matching
  <2> QED
    BY <1>1, <1>2, <2>2, <2>3
<1> QED
  BY <1>2, <1>4, <1>9, <1>10, <1>11, ForgottenHolds

\* The rows are those of before, and so are the binds of the players online.
LEMMA SameRows ==
  ASSUME NEW table, Recorded(table), KeepsFound, Grows, queue' = queue,
         character_instance' = character_instance,
         DOMAIN m_instanceSaveById' \subseteq DOMAIN instance',
         NEW bound, NEW who, Holds(table[Len(queue)], bound, who), Online' \subseteq who,
         \A q \in Online' : m_boundInstances'[q] = bound[q]
  PROVE  TablesInv'
<1>1. Recorded(table)'
  BY SameTables
<1>2. \A q \in Online' : BindRows(m_boundInstances, q)' = BindRows(bound, q)
  BY DEF BindRows
<1>3. Holds(table[Len(queue)], m_boundInstances, Online)'
  BY <1>2 DEF Holds
<1> QED
  BY <1>1, <1>3 DEF TablesInv

LEMMA UnbindInstance_Rows ==
  ASSUME SoloInv, prompt, TablesInv, NEW p \in Players, NEW d \in Difficulties,
         UnbindInstance(p, d)
  PROVE  TablesInv'
<1>1. PICK i : i = m_boundInstances[p][d].id
  OBVIOUS
<1>2. /\ session[p] = "online" /\ m_boundInstances[p][d] # NoBind
      /\ queue' = Append(queue, Statement("delete", p, i, NoId, FALSE))
      /\ m_instanceSaveById' = RemovePlayer(m_instanceSaveById, p, i, m_mapRef)
      /\ m_boundInstances' = [m_boundInstances EXCEPT ![p][d] = NoBind]
      /\ UNCHANGED <<instance, character_instance, session, holder>>
  BY <1>1 DEF UnbindInstance
<1>3. /\ BaseInv /\ BoundType(m_boundInstances)
      /\ Matching(m_instanceSaveById, m_boundInstances)
      /\ DOMAIN m_instanceSaveById \subseteq DOMAIN instance
  BY DEF SoloInv, BaseInv, TypeOK, MemoryType, TablesInv
<1>4. Unbinds(p, d, i)
  BY <1>1, <1>2, <1>3, UnbindFacts
<1>5. PICK s : s = Statement("delete", p, i, NoId, FALSE)
  OBVIOUS
<1>6. s \in Statements /\ s.op = "delete" /\ s.guid = p /\ s.old = i /\ ~Enters(s)
  BY <1>4, <1>5 DEF Statement, Statements, Unbinds, Enters
<1>7. PICK table : Recorded(table) /\ Holds(table[Len(queue)], m_boundInstances, Online)
  BY DEF TablesInv
<1>8. PICK F, G : F = table[Len(queue)] /\ G = Executed(F, s)
  OBVIOUS
<1>9. G = {r \in F : r.guid # p \/ r.instance # i}
  BY <1>6, <1>8 DEF Executed
<1>10. Orderly(F) /\ Holds(F, m_boundInstances, Online)
  <2>1. Len(queue) \in 0..Len(queue)
    BY <1>3 DEF BaseInv, TypeOK, QueueType
  <2> QED
    BY <1>7, <1>8, <2>1 DEF Recorded
<1>11. Orderly(G)'
  BY <1>2, <1>9, <1>10 DEF Orderly
<1>12. KeepsFound /\ Grows
  BY <1>2 DEF KeepsFound, Grows
<1>13. PICK after : Recorded(after)' /\ after[Len(queue')] = G
  <2>1. queue' = Append(queue, s) /\ character_instance' = character_instance
    BY <1>2, <1>5
  <2>2. session[s.guid] # "loading" /\ session'[s.guid] # "loaded"
    BY <1>2, <1>6
  <2> QED
    BY <1>3, <1>6, <1>7, <1>8, <1>11, <1>12, <2>1, <2>2, AppendTables
<1>14. Online' = Online
  BY <1>2 DEF Online
<1>15. ASSUME NEW q \in Online
       PROVE  RowsOf(G, q) = BindRows(m_boundInstances, q)'
  <2>1. q \in Players /\ RowsOf(F, q) = BindRows(m_boundInstances, q)
    BY <1>10 DEF Online, Holds
  <2>2. \A e \in Difficulties : m_boundInstances'[q][e] =
          IF q = p /\ e = d THEN NoBind ELSE m_boundInstances[q][e]
    BY <1>4, <2>1 DEF Unbinds
  <2>3. \A e \in Difficulties : m_boundInstances[p][e] # NoBind /\ m_boundInstances[p][e].id = i => e = d
    BY <1>1, <1>2, <1>3 DEF Matching
  <2>4. ASSUME NEW r \in RowsOf(G, q)
        PROVE  r \in BindRows(m_boundInstances, q)'
    <3>1. r \in F /\ r.guid = q /\ (q # p \/ r.instance # i)
      BY <1>9, <2>4 DEF RowsOf
    <3>2. PICK e \in Difficulties : /\ m_boundInstances[q][e] # NoBind
                                    /\ r = Row(q, m_boundInstances[q][e].id, m_boundInstances[q][e].perm)
                                    /\ r.instance = m_boundInstances[q][e].id
      BY <2>1, <3>1, RowBind
    <3>3. m_boundInstances'[q][e] = m_boundInstances[q][e]
      BY <1>1, <2>2, <3>1, <3>2
    <3> QED
      BY <3>2, <3>3 DEF BindRows
  <2>5. ASSUME NEW r \in BindRows(m_boundInstances, q)'
        PROVE  r \in RowsOf(G, q)
    <3>1. PICK e \in Difficulties : /\ m_boundInstances'[q][e] # NoBind
                                    /\ r = Row(q, m_boundInstances'[q][e].id, m_boundInstances'[q][e].perm)
      BY <2>5 DEF BindRows
    <3>2. /\ m_boundInstances'[q][e] = m_boundInstances[q][e] /\ m_boundInstances[q][e] # NoBind
          /\ ~(q = p /\ e = d)
      BY <2>2, <3>1
    <3>3. r \in F
      BY <1>3, <2>1, <3>1, <3>2, BindRow
    <3>4. r.guid = q /\ r.instance = m_boundInstances[q][e].id
      BY <3>1, <3>2 DEF Row
    <3> QED
      BY <1>9, <2>3, <3>2, <3>3, <3>4 DEF RowsOf
  <2> QED
    BY <2>4, <2>5
<1>16. Holds(after[Len(queue)], m_boundInstances, Online)'
  BY <1>13, <1>14, <1>15 DEF Holds
<1>17. DOMAIN m_instanceSaveById' \subseteq DOMAIN instance'
  BY <1>2, <1>3, <1>4 DEF Unbinds
<1> QED
  BY <1>13, <1>16, <1>17 DEF TablesInv

LEMMA Away_Rows ==
  ASSUME TablesInv,
         \/ \E p \in Players : TeleportOut(p) \/ Arrive(p)
         \/ \E i \in DOMAIN maps : DestroyInstance(i)
         \/ UNCHANGED vars
  PROVE  TablesInv'
<1>1. UNCHANGED <<instance, character_instance, queue, m_instanceSaveById, m_boundInstances,
                  session, holder>>
  BY DEF TeleportOut, Arrive, DestroyInstance, tables, memory, vars
<1>2. PICK table : Recorded(table) /\ Holds(table[Len(queue)], m_boundInstances, Online)
  BY DEF TablesInv
<1>3. PICK bound, who : bound = m_boundInstances /\ who = Online
  OBVIOUS
<1>4. KeepsFound /\ Grows /\ Online' = Online
  BY <1>1 DEF KeepsFound, Grows, Online
<1>5. DOMAIN m_instanceSaveById' \subseteq DOMAIN instance'
  BY <1>1 DEF TablesInv
<1>6. Holds(table[Len(queue)], bound, who) /\ Online' \subseteq who
      /\ \A q \in Online' : m_boundInstances'[q] = bound[q]
  BY <1>1, <1>2, <1>3, <1>4
<1> QED
  BY <1>1, <1>2, <1>4, <1>5, <1>6, SameRows

LEMMA Logout_Rows ==
  ASSUME SoloInv, TablesInv, NEW p \in Players, Logout(p)
  PROVE  TablesInv'
<1>1. /\ session' = [session EXCEPT ![p] = "offline"]
      /\ UNCHANGED <<instance, character_instance, queue, holder>>
  BY DEF Logout, tables
<1>2. BaseInv
  BY DEF SoloInv
<1>3. /\ DOMAIN m_instanceSaveById' \subseteq DOMAIN m_instanceSaveById
      /\ m_boundInstances' = [m_boundInstances EXCEPT ![p] = NoBinds]
  BY <1>2, LogoutFacts
<1>4. /\ session \in [Players -> {"offline", "loading", "loaded", "online"}]
      /\ m_boundInstances \in [Players -> [Difficulties -> {NoBind} \cup Binds]]
  BY <1>2 DEF BaseInv, TypeOK, SessionType, MemoryType, BoundType
<1>5. PICK table : Recorded(table) /\ Holds(table[Len(queue)], m_boundInstances, Online)
  BY DEF TablesInv
<1>6. PICK bound, who : bound = m_boundInstances /\ who = Online
  OBVIOUS
<1>7. KeepsFound /\ Grows
  BY <1>1, <1>4 DEF KeepsFound, Grows
<1>8. DOMAIN m_instanceSaveById' \subseteq DOMAIN instance'
  BY <1>1, <1>3 DEF TablesInv
<1>9. Online' = who \ {p}
  BY <1>1, <1>4, <1>6 DEF Online
<1>10. Holds(table[Len(queue)], bound, who) /\ Online' \subseteq who
  BY <1>5, <1>6, <1>9
<1>11. \A q \in Online' : m_boundInstances'[q] = bound[q]
  <2>1. \A q \in Players \ {p} : m_boundInstances'[q] = bound[q]
    BY <1>3, <1>4, <1>6
  <2> QED
    BY <1>6, <1>9, <2>1 DEF Online
<1> QED
  BY <1>1, <1>5, <1>7, <1>8, <1>10, <1>11, SameRows

LEMMA Restart_Rows ==
  ASSUME SoloInv, TablesInv, Restart
  PROVE  TablesInv'
<1>1. BaseInv
  BY DEF SoloInv
<1>2. PICK kept \in SUBSET DOMAIN instance :
        /\ instance' = [i \in kept |-> instance[i]]
        /\ character_instance' = {r \in character_instance : r.instance \in kept}
        /\ queue' = <<>> /\ m_instanceSaveById' = Nothing
        /\ session' = [p \in Players |-> "offline"]
  BY <1>1, RestartFacts
<1>3. PICK table : Recorded(table)
  BY DEF TablesInv
<1>4. Orderly(character_instance)
  <2>1. 0 \in 0..Len(queue)
    BY <1>1 DEF BaseInv, TypeOK, QueueType
  <2> QED
    BY <1>3, <2>1 DEF Recorded, Future
<1>5. Orderly(character_instance)'
  BY <1>2, <1>4 DEF Orderly
<1>6. Len(queue') = 0 /\ DOMAIN m_instanceSaveById' = {} /\ Online' = {}
      /\ character_instance' \in SUBSET Rows
  BY <1>1, <1>2 DEF Nothing, Online, BaseInv, TypeOK, TableType
<1>7. PICK after : after = [n \in 0..0 |-> character_instance']
  OBVIOUS
<1>8. after \in [0..0 -> SUBSET Rows] /\ \A n \in 0..0 : after[n] = character_instance'
  BY <1>6, <1>7
<1>9. Future(after)' /\ Steady(after)'
  BY <1>2, <1>6, <1>8 DEF Future, Steady
<1>10. \A n \in 0..Len(queue') : Orderly(after[n])'
  BY <1>5, <1>6, <1>8 DEF Orderly
<1>11. Holds(after[Len(queue)], m_boundInstances, Online)'
  BY <1>6 DEF Holds
<1> QED
  BY <1>6, <1>9, <1>10, <1>11 DEF TablesInv, Recorded

LEMMA RequestLogin_Rows ==
  ASSUME SoloInv, TablesInv, NEW p \in Players, RequestLogin(p)
  PROVE  TablesInv'
<1>1. /\ session[p] = "offline" /\ session' = [session EXCEPT ![p] = "loading"]
      /\ queue' = Append(queue, Statement("login", p, NoId, NoId, FALSE))
      /\ UNCHANGED <<instance, character_instance, m_instanceSaveById, m_boundInstances, holder>>
  BY DEF RequestLogin, tables, memory
<1>2. BaseInv /\ session \in [Players -> {"offline", "loading", "loaded", "online"}]
  BY DEF SoloInv, BaseInv, TypeOK, SessionType
<1>3. PICK s : s = Statement("login", p, NoId, NoId, FALSE)
  OBVIOUS
<1>4. s \in Statements /\ s.op = "login" /\ ~Enters(s)
  BY <1>3 DEF Statement, Statements, Enters
<1>5. PICK table : Recorded(table) /\ Holds(table[Len(queue)], m_boundInstances, Online)
  BY DEF TablesInv
<1>6. PICK F : F = table[Len(queue)]
  OBVIOUS
<1>7. F = Executed(F, s)
  BY <1>4 DEF Executed
<1>8. KeepsFound /\ Grows
  BY <1>1, <1>2 DEF KeepsFound, Grows
<1>9. Orderly(F)'
  <2>1. Len(queue) \in 0..Len(queue)
    BY <1>2 DEF BaseInv, TypeOK, QueueType
  <2>2. Orderly(F)
    BY <1>5, <1>6, <2>1 DEF Recorded
  <2> QED
    BY <1>8, <2>2, OrderlyGrows
<1>10. PICK after : Recorded(after)' /\ after[Len(queue')] = F
  <2>1. queue' = Append(queue, s) /\ character_instance' = character_instance
    BY <1>1, <1>3
  <2> QED
    BY <1>2, <1>4, <1>5, <1>6, <1>7, <1>8, <1>9, <2>1, AppendTables
<1>11. Online' = Online
  BY <1>1, <1>2 DEF Online
<1>12. \A q \in Online : BindRows(m_boundInstances, q)' = BindRows(m_boundInstances, q)
  BY <1>1 DEF BindRows
<1>13. Holds(after[Len(queue)], m_boundInstances, Online)'
  BY <1>5, <1>6, <1>10, <1>11, <1>12 DEF Holds
<1>14. DOMAIN m_instanceSaveById' \subseteq DOMAIN instance'
  BY <1>1 DEF TablesInv
<1> QED
  BY <1>10, <1>13, <1>14 DEF TablesInv

\* The binds of the player who logs in are the rows its query found.
LEMMA LoadTables ==
  ASSUME BaseInv, Apart(m_instanceSaveById, m_boundInstances, maps),
         DOMAIN m_instanceSaveById \subseteq DOMAIN instance,
         NEW table, Recorded(table), NEW F, F = table[Len(queue)],
         Holds(F, m_boundInstances, Online),
         NEW p \in Players, session[p] = "loaded",
         NEW saves, NEW bound, LoadsBinds(p, saves, bound)
  PROVE  DOMAIN saves \subseteq DOMAIN instance /\ Holds(F, bound, Online \cup {p})
<1>1. SameDifficulty(m_instanceSaveById, maps)
  BY DEF Apart
<1>2. DOMAIN saves \subseteq DOMAIN instance
  BY <1>1 DEF LoadsBinds, SameDifficulty
<1>3. Orderly(F) /\ RowsOf(F, p) = Found(p)
  <2>1. Len(queue) \in 0..Len(queue)
    BY DEF BaseInv, TypeOK, QueueType
  <2> QED
    BY <2>1 DEF Recorded, Steady
<1>4. LoadRows(p) = holder[p]
  BY <1>1 DEF LoadRows, SameDifficulty, BaseInv, TypeOK, TableType
<1>5. \A r \in holder[p] : RowDifficulty(r) = instance[r.instance]
  BY <1>1 DEF SameDifficulty, RowDifficulty
<1>6. ASSUME NEW r \in holder[p], NEW s \in holder[p], RowDifficulty(r) = RowDifficulty(s)
      PROVE  r.instance = s.instance
  <2>1. PICK a, b : a = Row(p, r.instance, r.permanent) /\ b = Row(p, s.instance, s.permanent)
    OBVIOUS
  <2>2. a \in F /\ b \in F
    BY <1>3, <2>1 DEF Found, RowsOf
  <2>3. a.guid = b.guid /\ a.instance = r.instance /\ b.instance = s.instance
    BY <2>1 DEF Row
  <2> QED
    BY <1>3, <1>5, <1>6, <2>2, <2>3 DEF Orderly
<1>7. \A r \in holder[p] : r \in LastRows(p)
  <2>1. \A r \in holder[p] : r.instance \in Nat
    BY SavesAssumption DEF BaseInv, TypeOK, SessionType, HolderRows, Ids
  <2> QED
    BY <1>4, <1>6, <2>1 DEF LastRows
<1>8. ASSUME NEW r \in Found(p)
      PROVE  r \in BindRows(bound, p)
  <2>1. PICK t \in holder[p] : r = Row(p, t.instance, t.permanent)
    BY DEF Found
  <2>2. PICK b : b = [id |-> t.instance, perm |-> t.permanent]
    OBVIOUS
  <2>3. RowDifficulty(t) \in Difficulties /\ bound[p][RowDifficulty(t)] = b
    BY <1>7, <2>1, <2>2 DEF LoadsBinds
  <2>4. b \in Binds /\ b.id = t.instance /\ b.perm = t.permanent
    BY <2>1, <2>2 DEF BaseInv, TypeOK, SessionType, HolderRows, Binds
  <2>5. b # NoBind
    BY <2>4, SavesAssumption DEF Binds, Ids
  <2> QED
    BY <2>1, <2>3, <2>4, <2>5 DEF BindRows
<1>9. ASSUME NEW r \in BindRows(bound, p)
      PROVE  r \in Found(p)
  <2>1. PICK d \in Difficulties : /\ bound[p][d] # NoBind
                                  /\ r = Row(p, bound[p][d].id, bound[p][d].perm)
    BY DEF BindRows
  <2>2. PICK t \in LoadRows(p) : bound[p][d] = [id |-> t.instance, perm |-> t.permanent]
    BY <2>1 DEF LoadsBinds
  <2> QED
    BY <1>4, <2>1, <2>2 DEF Found
<1>10. ASSUME NEW q \in Online
       PROVE  RowsOf(F, q) = BindRows(bound, q)
  <2>1. q \in Players \ {p}
    BY DEF Online
  <2>2. bound[q] = m_boundInstances[q]
    BY <2>1 DEF LoadsBinds
  <2> QED
    BY <2>2 DEF Holds, BindRows
<1>11. Found(p) = BindRows(bound, p)
  BY <1>8, <1>9
<1> QED
  BY <1>2, <1>3, <1>10, <1>11 DEF Holds

LEMMA LoginOutside_Rows ==
  ASSUME SoloInv, prompt, TablesInv, NEW p \in Players, LoginOutside(p)
  PROVE  TablesInv'
<1>1. /\ Started(p) /\ Store(Loaded(p))
      /\ UNCHANGED <<instance, character_instance, queue>>
  BY DEF LoginOutside, tables
<1>2. /\ BaseInv /\ Apart(m_instanceSaveById, m_boundInstances, maps)
      /\ DOMAIN m_instanceSaveById \subseteq DOMAIN instance
  BY DEF SoloInv, TablesInv
<1>3. /\ session[p] = "loaded" /\ session'[p] = "online" /\ holder'[p] = {}
      /\ \A q \in Players \ {p} : session'[q] = session[q] /\ holder'[q] = holder[q]
  BY <1>1, <1>2, StartedFacts
<1>4. PICK saves, bound : LoadsBinds(p, saves, bound)
  BY <1>2, <1>3, LoadFacts
<1>5. m_instanceSaveById' = saves /\ m_boundInstances' = bound
  BY <1>1, <1>4 DEF LoadsBinds, Store
<1>6. PICK table : Recorded(table) /\ Holds(table[Len(queue)], m_boundInstances, Online)
  BY DEF TablesInv
<1>7. PICK who : who = Online \cup {p}
  OBVIOUS
<1>8. DOMAIN saves \subseteq DOMAIN instance /\ Holds(table[Len(queue)], bound, who)
  BY <1>2, <1>3, <1>4, <1>6, <1>7, LoadTables
<1>9. KeepsFound /\ Grows
  BY <1>1, <1>3 DEF KeepsFound, Grows
<1>10. Online' \subseteq who
  BY <1>3, <1>7 DEF Online
<1>11. DOMAIN m_instanceSaveById' \subseteq DOMAIN instance'
  BY <1>1, <1>5, <1>8
<1>12. \A q \in Online' : m_boundInstances'[q] = bound[q]
  BY <1>5
<1> QED
  BY <1>1, <1>6, <1>8, <1>9, <1>10, <1>11, <1>12, SameRows

\* AddPlayerToMap: an instance that is new has its row in both tables.
LEMMA AddTables ==
  ASSUME BaseInv, NEW saves, NEW bound, Apart(saves, bound, maps),
         DOMAIN saves \subseteq DOMAIN instance,
         NEW table, Recorded(table), NEW F, F = table[Len(queue)],
         NEW who, who = Online', Holds(F, bound, who),
         NEW p, NEW d \in Difficulties, NEW i, NEW ms,
         Entering(saves, bound, p, i, ms), Finds(saves, bound, p, d, i, ms)
  PROVE  TablesInv'
<1>1. /\ SavesType(saves) /\ BoundType(bound) /\ Matching(saves, bound)
      /\ p \in Players /\ i \in Ids /\ Adds(saves, bound, p, i, ms)
      /\ character_instance' = character_instance
      /\ session[p] \in {"loaded", "online"} /\ session'[p] = "online" /\ holder'[p] = {}
      /\ \A q \in Players \ {p} : session'[q] = session[q] /\ holder'[q] = holder[q]
  BY DEF Entering
<1>2. IdsUsed(saves) /\ SameDifficulty(saves, maps)
  BY DEF Apart
<1>3. KeepsFound /\ Grows
  BY <1>1 DEF KeepsFound, Grows, Adds
<1>4. DOMAIN m_instanceSaveById' \subseteq DOMAIN instance'
  <2>1. /\ DOMAIN m_instanceSaveById' \subseteq (DOMAIN saves \cup {i}) \ {0}
        /\ DOMAIN instance' = DOMAIN instance \cup ({i} \ (DOMAIN saves \cup {0}))
    BY <1>1 DEF Adds, SavesType
  <2> QED
    BY <2>1
<1>5. CASE queue' = queue /\ m_boundInstances' = bound
  <2>1. /\ \A q \in Online' : m_boundInstances'[q] = bound[q]
        /\ Holds(table[Len(queue)], bound, who) /\ Online' \subseteq who
    BY <1>5
  <2> QED
    BY <1>1, <1>3, <1>4, <1>5, <2>1, SameRows
<1>6. CASE Solos(saves, bound, p, i, ms)
  <2>1. bound[p][d] = NoBind
    BY <1>6 DEF Solos, Finds
  <2>2. i \notin used /\ i \notin DOMAIN saves /\ i \notin DOMAIN instance /\ i # 0
    BY <1>2, <1>6, <2>1 DEF Finds, IdsUsed, Solos
  <2>3. PICK e \in Difficulties :
          /\ e = ms[i].difficulty /\ bound[p][e] = NoBind
          /\ \A q \in Players : \A f \in Difficulties : m_boundInstances'[q][f] =
               IF q = p /\ f = e THEN [id |-> i, perm |-> FALSE] ELSE bound[q][f]
          /\ \/ bound[p][e] = [id |-> i, perm |-> FALSE]
             \/ queue' = Append(queue, Statement("insert", p, NoId, i, FALSE))
    BY <1>6, <2>2 DEF Solos
  <2>4. PICK b : b = [id |-> i, perm |-> FALSE]
    OBVIOUS
  <2>5. b # NoBind /\ b.id = i /\ b.perm = FALSE
    <3>1. b # NoBind /\ b.id = i
      BY <1>1, <2>4, BindTemporary
    <3>2. b.perm = FALSE
      BY <2>4
    <3> QED
      BY <3>1, <3>2
  <2>6. PICK s : s = Statement("insert", p, NoId, i, FALSE)
    OBVIOUS
  <2>7. /\ s \in Statements /\ s.op = "insert" /\ s.guid = p /\ s.new = i /\ s.permanent = FALSE
    BY <1>1, <2>6 DEF Statement, Statements
  <2>8. queue' = Append(queue, s)
    BY <2>3, <2>4, <2>5, <2>6
  <2>9. PICK new, G : new = Row(p, i, FALSE) /\ G = Executed(F, s)
    OBVIOUS
  <2>10. new.guid = p /\ new.instance = i /\ new.permanent = FALSE
    BY <2>9 DEF Row
  <2>11. Orderly(F)
    <3>1. Len(queue) \in 0..Len(queue)
      BY DEF BaseInv, TypeOK, QueueType
    <3> QED
      BY <3>1 DEF Recorded
  <2>12. G = F \cup {new}
    <3>1. ~\E r \in F : r.guid = s.guid /\ r.instance = s.new
      BY <2>2, <2>7, <2>11 DEF Orderly
    <3> QED
      BY <2>7, <2>9, <3>1 DEF Executed
  <2>13. p \in who /\ RowsOf(F, p) = BindRows(bound, p)
    BY <1>1 DEF Online, Holds
  <2>14. i \in DOMAIN instance' /\ instance'[i] = e
    BY <1>1, <2>2, <2>3 DEF Adds
  <2>15. ASSUME NEW r \in F, r.guid = p
         PROVE  instance'[r.instance] # e
    <3>1. PICK f \in Difficulties : bound[p][f] # NoBind /\ r.instance = bound[p][f].id
      BY <1>1, <2>13, <2>15, RowBind
    <3>2. r.instance \in DOMAIN instance /\ instance[r.instance] = f
      BY <1>1, <1>2, <3>1, BindInstance
    <3> QED
      BY <1>3, <2>3, <3>1, <3>2 DEF Grows
  <2>16. Orderly(G)'
    <3>1. \A r \in F : r.instance \in DOMAIN instance' /\ instance'[r.instance] = instance[r.instance]
      BY <1>3, <2>11 DEF Orderly, Grows
    <3>2. \A r \in G : r.instance \in DOMAIN instance'
      BY <2>10, <2>12, <2>14, <3>1
    <3>3. ASSUME NEW r \in G, NEW t \in G, r.guid = t.guid,
                 instance'[r.instance] = instance'[t.instance]
          PROVE  r = t
      <4>1. CASE r \in F /\ t \in F
        BY <2>11, <3>1, <3>3, <4>1 DEF Orderly
      <4>2. CASE r = new \/ t = new
        BY <2>10, <2>12, <2>14, <2>15, <3>3, <4>2
      <4> QED
        BY <2>12, <4>1, <4>2
    <3> QED
      BY <3>2, <3>3 DEF Orderly
  <2>17. PICK after : Recorded(after)' /\ after[Len(queue')] = G
    <3>1. session[s.guid] # "loading" /\ session'[s.guid] # "loaded"
      BY <1>1, <2>7
    <3>2. Enters(s) => s.new \in Ids
      BY <1>1, <2>7
    <3> QED
      BY <1>1, <1>3, <2>7, <2>8, <2>9, <2>16, <3>1, <3>2, AppendTables
  <2>18. ASSUME NEW q \in who
         PROVE  RowsOf(G, q) = BindRows(m_boundInstances, q)'
    <3>1. q \in Players /\ RowsOf(F, q) = BindRows(bound, q)
      BY DEF Online, Holds
    <3>2. \A f \in Difficulties : m_boundInstances'[q][f] = IF q = p /\ f = e THEN b ELSE bound[q][f]
      BY <2>3, <2>4, <3>1
    <3>3. ASSUME NEW r \in RowsOf(G, q)
          PROVE  r \in BindRows(m_boundInstances, q)'
      <4>1. r \in G /\ r.guid = q
        BY <3>3 DEF RowsOf
      <4>2. CASE r = new
        <5>1. q = p /\ m_boundInstances'[q][e] = b
          BY <2>10, <3>2, <4>1, <4>2
        <5>2. r = Row(q, m_boundInstances'[q][e].id, m_boundInstances'[q][e].perm)
          BY <2>5, <2>9, <4>2, <5>1
        <5> QED
          BY <2>5, <5>1, <5>2 DEF BindRows
      <4>3. CASE r \in F
        <5>1. PICK f \in Difficulties : /\ bound[q][f] # NoBind
                                        /\ r = Row(q, bound[q][f].id, bound[q][f].perm)
          BY <3>1, <4>1, <4>3, RowBind
        <5>2. m_boundInstances'[q][f] = bound[q][f]
          BY <2>3, <3>2, <5>1
        <5> QED
          BY <5>1, <5>2 DEF BindRows
      <4> QED
        BY <2>12, <4>1, <4>2, <4>3
    <3>4. ASSUME NEW r \in BindRows(m_boundInstances, q)'
          PROVE  r \in RowsOf(G, q)
      <4>1. PICK f \in Difficulties : /\ m_boundInstances'[q][f] # NoBind
                                      /\ r = Row(q, m_boundInstances'[q][f].id, m_boundInstances'[q][f].perm)
        BY <3>4 DEF BindRows
      <4>2. CASE q = p /\ f = e
        <5>1. m_boundInstances'[q][f] = b
          BY <3>2, <4>2
        <5>2. r = new
          BY <2>5, <2>9, <4>1, <4>2, <5>1
        <5> QED
          BY <2>10, <2>12, <4>2, <5>2 DEF RowsOf
      <4>3. CASE ~(q = p /\ f = e)
        <5>1. m_boundInstances'[q][f] = bound[q][f]
          BY <3>2, <4>3
        <5>2. r \in F /\ r.guid = q
          BY <1>1, <3>1, <4>1, <5>1, BindRow DEF Row
        <5> QED
          BY <2>12, <5>2 DEF RowsOf
      <4> QED
        BY <4>2, <4>3
    <3> QED
      BY <3>3, <3>4
  <2>19. Holds(after[Len(queue)], m_boundInstances, Online)'
    BY <2>17, <2>18 DEF Holds
  <2> QED
    BY <1>4, <2>17, <2>19 DEF TablesInv
<1> QED
  BY <1>5, <1>6 DEF Entering

LEMMA Enter_Rows ==
  ASSUME SoloInv, prompt, TablesInv, NEW p \in Players, NEW d \in Difficulties, Enter(p, d)
  PROVE  TablesInv'
<1>1. PICK i : i = InstanceFor(m_boundInstances, p, d)
  OBVIOUS
<1>2. PICK ms : ms = MapsWith(Mem, p, d, i)
  OBVIOUS
<1>3. /\ BaseInv /\ Apart(m_instanceSaveById, m_boundInstances, maps)
      /\ DOMAIN m_instanceSaveById \subseteq DOMAIN instance
  BY DEF SoloInv, TablesInv
<1>4. /\ i \in Ids /\ i # NoId
      /\ FindsMap(m_instanceSaveById, m_boundInstances, p, d, i, ms)
      /\ used' = UsedWith(m_boundInstances, p, d, i)
      /\ UNCHANGED <<character_instance, session, holder>>
      /\ \/ Entering(m_instanceSaveById, m_boundInstances, p, i, ms)
         \/ UNCHANGED <<instance, queue, m_instanceSaveById, m_boundInstances>>
  BY <1>1, <1>2, <1>3, EnterFacts
<1>5. PICK saves, bound, who : saves = m_instanceSaveById /\ bound = m_boundInstances /\ who = Online
  OBVIOUS
<1>6. PICK table : Recorded(table) /\ Holds(table[Len(queue)], m_boundInstances, Online)
  BY DEF TablesInv
<1>7. who = Online'
  BY <1>4, <1>5 DEF Online
<1>8. CASE Entering(m_instanceSaveById, m_boundInstances, p, i, ms)
  <2>1. /\ TypeOK /\ SavesType(saves) /\ BoundType(bound) /\ Matching(saves, bound)
        /\ SameDifficulty(saves, maps)
    BY <1>3, <1>5 DEF BaseInv, TypeOK, MemoryType, Apart
  <2>2. i = InstanceFor(bound, p, d) /\ used' = UsedWith(bound, p, d, i)
        /\ FindsMap(saves, bound, p, d, i, ms)
    BY <1>1, <1>4, <1>5
  <2>3. Finds(saves, bound, p, d, i, ms)
    BY <1>4, <2>1, <2>2, FindsFacts
  <2>4. /\ Apart(saves, bound, maps) /\ DOMAIN saves \subseteq DOMAIN instance
        /\ Entering(saves, bound, p, i, ms) /\ Holds(table[Len(queue)], bound, who)
    BY <1>3, <1>5, <1>6, <1>8
  <2> QED
    BY <1>3, <1>6, <1>7, <2>3, <2>4, AddTables
<1>9. CASE UNCHANGED <<instance, queue, m_instanceSaveById, m_boundInstances>>
  <2>1. KeepsFound /\ Grows
    BY <1>4, <1>9 DEF KeepsFound, Grows
  <2>2. /\ Holds(table[Len(queue)], bound, who) /\ Online' \subseteq who
        /\ \A q \in Online' : m_boundInstances'[q] = bound[q]
        /\ DOMAIN m_instanceSaveById' \subseteq DOMAIN instance'
        /\ queue' = queue /\ character_instance' = character_instance
    BY <1>3, <1>4, <1>5, <1>6, <1>7, <1>9
  <2> QED
    BY <1>6, <2>1, <2>2, SameRows
<1> QED
  BY <1>4, <1>8, <1>9

LEMMA LoginInside_Rows ==
  ASSUME SoloInv, prompt, TablesInv, NEW p \in Players, NEW d \in Difficulties, LoginInside(p, d)
  PROVE  TablesInv'
<1>1. /\ BaseInv /\ Apart(m_instanceSaveById, m_boundInstances, maps)
      /\ DOMAIN m_instanceSaveById \subseteq DOMAIN instance
  BY DEF SoloInv, TablesInv
<1>2. PICK saves, bound, i, ms :
        /\ LoadsBinds(p, saves, bound)
        /\ i = InstanceFor(bound, p, d) /\ i # NoId
        /\ used' = UsedWith(bound, p, d, i)
        /\ FindsMap(saves, bound, p, d, i, ms)
        /\ Entering(saves, bound, p, i, ms)
  BY <1>1, LoginInsideFacts
<1>3. Apart(saves, bound, maps)
  BY <1>1, <1>2, LoadApart
<1>4. Finds(saves, bound, p, d, i, ms)
  BY <1>1, <1>2, <1>3, FindsFacts DEF LoadsBinds, BaseInv, Apart
<1>5. Started(p) /\ character_instance' = character_instance
  BY DEF LoginInside
<1>6. /\ session[p] = "loaded" /\ session'[p] = "online"
      /\ \A q \in Players \ {p} : session'[q] = session[q]
  BY <1>1, <1>5, StartedFacts
<1>7. PICK who : who = Online \cup {p}
  OBVIOUS
<1>8. who = Online'
  BY <1>6, <1>7 DEF Online
<1>9. PICK table : Recorded(table) /\ Holds(table[Len(queue)], m_boundInstances, Online)
  BY DEF TablesInv
<1>10. DOMAIN saves \subseteq DOMAIN instance /\ Holds(table[Len(queue)], bound, who)
  BY <1>1, <1>2, <1>6, <1>7, <1>9, LoadTables
<1> QED
  BY <1>1, <1>2, <1>3, <1>4, <1>8, <1>9, <1>10, AddTables

\* The rows when the players of who are bound permanently to instance i, of
\* difficulty d.
Rebound(F, who, i, d) ==
  {r \in F : r.guid \in who => instance[r.instance] # d} \cup {Row(q, i, TRUE) : q \in who}

IsRebound(R, F, who, i, d) ==
  \A r : r \in R <=> \/ r \in F /\ (r.guid \in who => instance[r.instance] # d)
                     \/ r.guid \in who /\ r = Row(r.guid, i, TRUE)

LEMMA ReboundRows ==
  ASSUME NEW F, NEW who, NEW i, NEW d
  PROVE  IsRebound(Rebound(F, who, i, d), F, who, i, d)
<1> DEFINE R == Rebound(F, who, i, d)
<1> SUFFICES ASSUME NEW r
             PROVE  r \in R <=> \/ r \in F /\ (r.guid \in who => instance[r.instance] # d)
                                \/ r.guid \in who /\ r = Row(r.guid, i, TRUE)
  BY DEF IsRebound
<1>1. r \in R <=> \/ r \in F /\ (r.guid \in who => instance[r.instance] # d)
                  \/ \E q \in who : r = Row(q, i, TRUE)
  BY DEF Rebound
<1>2. ASSUME NEW q \in who, r = Row(q, i, TRUE)
      PROVE  r.guid \in who /\ r = Row(r.guid, i, TRUE)
  <2>1. r.guid = q
    BY <1>2 DEF Row
  <2> QED
    BY <1>2, <2>1
<1> QED
  BY <1>1, <1>2

\* What PermBind finds.
Binding(F, i, d) ==
  /\ F \in SUBSET Rows /\ Orderly(F) /\ Holds(F, m_boundInstances, Online)
  /\ i \in DOMAIN m_instanceSaveById /\ m_instanceSaveById[i].difficulty = d
  /\ d \in Difficulties /\ i \in Ids
  /\ BoundType(m_boundInstances) /\ Matching(m_instanceSaveById, m_boundInstances)
  /\ SameDifficulty(m_instanceSaveById, maps) /\ DOMAIN m_instanceSaveById \subseteq DOMAIN instance

LEMMA ReboundOrderly ==
  ASSUME NEW F, NEW i, NEW d, Binding(F, i, d), NEW who \in SUBSET Online
  PROVE  Rebound(F, who, i, d) \in SUBSET Rows /\ Orderly(Rebound(F, who, i, d))
<1>1. i \in DOMAIN instance /\ instance[i] = d
  BY DEF Binding, SameDifficulty
<1>4. PICK R : R = Rebound(F, who, i, d)
  OBVIOUS
<1>5. \A r : r \in R <=> \/ r \in F /\ (r.guid \in who => instance[r.instance] # d)
                         \/ r.guid \in who /\ r = Row(r.guid, i, TRUE)
  <2>1. IsRebound(R, F, who, i, d)
    BY <1>4, ReboundRows
  <2> QED
    BY <2>1 DEF IsRebound
<1>2. ASSUME NEW r \in R
      PROVE  r \in Rows /\ r.instance \in DOMAIN instance
  <2>1. CASE r \in F
    BY <2>1 DEF Binding, Orderly
  <2>2. ASSUME NEW q \in who, r = Row(q, i, TRUE)
        PROVE  r \in Rows /\ r.instance \in DOMAIN instance
    BY <1>1, <2>2 DEF Row, Rows, Binding, Online
  <2> QED
    BY <1>5, <2>1, <2>2
<1>3. ASSUME NEW r \in R, NEW t \in R,
             r.guid = t.guid, instance[r.instance] = instance[t.instance]
      PROVE  r = t
  <2>1. \/ r \in F /\ (r.guid \in who => instance[r.instance] # d)
        \/ r.guid \in who /\ r = Row(r.guid, i, TRUE) /\ r.instance = i
    BY <1>5 DEF Row
  <2>2. \/ t \in F /\ (t.guid \in who => instance[t.instance] # d)
        \/ t.guid \in who /\ t = Row(t.guid, i, TRUE) /\ t.instance = i
    BY <1>5 DEF Row
  <2>3. CASE r \in F /\ t \in F
    BY <1>3, <2>3 DEF Binding, Orderly
  <2> QED
    BY <1>1, <1>3, <2>1, <2>2, <2>3
<1> QED
  BY <1>2, <1>3, <1>4 DEF Orderly

\* What the permanent bind of player q to instance i is written with.
PermStatement(q, i, d) ==
  IF m_boundInstances[q][d] = NoBind THEN Statement("insert", q, NoId, i, TRUE)
  ELSE Statement("update", q, m_boundInstances[q][d].id, i, TRUE)

\* One more player is bound.
LEMMA ReboundStep ==
  ASSUME NEW F, NEW i, NEW d, Binding(F, i, d), NEW who \in SUBSET Online,
         NEW q \in Online, q \notin who, NEW s, s = PermStatement(q, i, d)
  PROVE  Executed(Rebound(F, who, i, d), s) = Rebound(F, who \cup {q}, i, d)
<1>1. PICK R, R2 : R = Rebound(F, who, i, d) /\ R2 = Rebound(F, who \cup {q}, i, d)
  OBVIOUS
<1>2. PICK new : new = Row(q, i, TRUE)
  OBVIOUS
<1>3. new.guid = q /\ new.instance = i /\ new.permanent = TRUE
  BY <1>2 DEF Row
<1>4. q \in Players /\ RowsOf(F, q) = BindRows(m_boundInstances, q)
  BY DEF Online, Binding, Holds
<1>5. i \in DOMAIN instance /\ instance[i] = d
  BY DEF Binding, SameDifficulty
<1>6. \A r : r \in R <=> \/ r \in F /\ (r.guid \in who => instance[r.instance] # d)
                         \/ r.guid \in who /\ r = Row(r.guid, i, TRUE)
  <2>1. IsRebound(R, F, who, i, d)
    BY <1>1, ReboundRows
  <2> QED
    BY <2>1 DEF IsRebound
<1>7. \A r : r \in R2 <=> \/ r \in F /\ (r.guid \in who \cup {q} => instance[r.instance] # d)
                          \/ r.guid \in who \cup {q} /\ r = Row(r.guid, i, TRUE)
  <2>1. IsRebound(R2, F, who \cup {q}, i, d)
    BY <1>1, ReboundRows
  <2> QED
    BY <2>1 DEF IsRebound
<1>8. \A r : r.guid = q => (r \in R <=> r \in F)
  BY <1>6
<1>9. \A r : r \in R2 <=> \/ r \in R /\ ~(r.guid = q /\ instance[r.instance] = d)
                          \/ r = new
  BY <1>2, <1>3, <1>6, <1>7
<1>10. ASSUME NEW r \in R, r.guid = q, instance[r.instance] = d
       PROVE  m_boundInstances[q][d] # NoBind /\ r.instance = m_boundInstances[q][d].id
  <2>1. PICK f \in Difficulties : /\ m_boundInstances[q][f] # NoBind
                                  /\ r.instance = m_boundInstances[q][f].id
    BY <1>4, <1>8, <1>10, RowBind
  <2>2. instance[r.instance] = f
    BY <1>4, <2>1, BindInstance DEF Binding
  <2> QED
    BY <1>10, <2>1, <2>2
<1>11. CASE m_boundInstances[q][d] = NoBind
  <2>1. s.op = "insert" /\ s.guid = q /\ s.new = i /\ s.permanent = TRUE
    BY <1>11 DEF Statement, PermStatement
  <2>2. ~\E r \in R : r.guid = s.guid /\ r.instance = s.new
    BY <1>5, <1>10, <1>11, <2>1
  <2>3. Executed(R, s) = R \cup {new}
    BY <1>2, <2>1, <2>2 DEF Executed
  <2>4. R2 = R \cup {new}
    BY <1>9, <1>10, <1>11
  <2> QED
    BY <1>1, <2>3, <2>4
<1>12. CASE m_boundInstances[q][d] # NoBind
  <2>1. PICK o, perm : o = m_boundInstances[q][d].id /\ perm = m_boundInstances[q][d].perm
    OBVIOUS
  <2>2. s.op = "update" /\ s.guid = q /\ s.old = o /\ s.new = i /\ s.permanent = TRUE
    BY <1>12, <2>1 DEF Statement, PermStatement
  <2>3. instance[o] = d
    BY <1>4, <1>12, <2>1, BindInstance DEF Binding
  <2>4. \E r \in R : r.guid = s.guid /\ r.instance = s.old
    <3>1. PICK r : r = Row(q, o, perm)
      OBVIOUS
    <3>2. r \in F /\ r.guid = q /\ r.instance = o
      BY <1>4, <1>12, <2>1, <3>1, BindRow DEF Binding, Row
    <3> QED
      BY <1>8, <2>2, <3>2
  <2>5. s.new = s.old \/ ~\E r \in R : r.guid = s.guid /\ r.instance = s.new
    BY <1>5, <1>10, <2>1, <2>2
  <2>6. Executed(R, s) = {r \in R : r.guid # q \/ r.instance # o} \cup {new}
    BY <1>2, <2>2, <2>4, <2>5 DEF Executed
  <2>7. \A r \in R : r.guid = q => (instance[r.instance] = d <=> r.instance = o)
    BY <1>10, <2>1, <2>3
  <2>8. R2 = {r \in R : r.guid # q \/ r.instance # o} \cup {new}
    BY <1>9, <2>7
  <2> QED
    BY <1>1, <2>6, <2>8
<1> QED
  BY <1>11, <1>12

\* In the end the players bound have the rows of their new binds.
LEMMA ReboundHolds ==
  ASSUME NEW F, NEW i, NEW d, Binding(F, i, d), NEW binders \in SUBSET Online,
         NEW after, after = m_boundInstances',
         \A q \in Players : \A e \in Difficulties : after[q][e] =
           IF q \in binders /\ e = d THEN [id |-> i, perm |-> TRUE] ELSE m_boundInstances[q][e]
  PROVE  Holds(Rebound(F, binders, i, d), after, Online)
<1>1. PICK R : R = Rebound(F, binders, i, d)
  OBVIOUS
<1>2. \A r : r \in R <=> \/ r \in F /\ (r.guid \in binders => instance[r.instance] # d)
                         \/ r.guid \in binders /\ r = Row(r.guid, i, TRUE)
  <2>1. IsRebound(R, F, binders, i, d)
    BY <1>1, ReboundRows
  <2> QED
    BY <2>1 DEF IsRebound
<1>3. PICK b : b = [id |-> i, perm |-> TRUE]
  OBVIOUS
<1>4. b # NoBind /\ b.id = i /\ b.perm = TRUE
  <2>1. b \in Binds /\ b.id = i
    BY <1>3 DEF Binding, Binds
  <2>2. b.perm = TRUE
    BY <1>3
  <2>3. NoBind \notin Binds
    BY SavesAssumption DEF Binds, Ids
  <2> QED
    BY <2>1, <2>2, <2>3
<1>5. ASSUME NEW q \in Online
      PROVE  RowsOf(R, q) = BindRows(after, q)
  <2>1. q \in Players /\ RowsOf(F, q) = BindRows(m_boundInstances, q) /\ d \in Difficulties
    BY DEF Online, Binding, Holds
  <2>2. \A e \in Difficulties : after[q][e] =
          IF q \in binders /\ e = d THEN b ELSE m_boundInstances[q][e]
    BY <1>3, <2>1
  <2>3. \A e \in Difficulties : m_boundInstances[q][e] # NoBind =>
          instance[m_boundInstances[q][e].id] = e
    BY <2>1, BindInstance DEF Binding
  <2>4. ASSUME NEW r \in RowsOf(R, q)
        PROVE  r \in BindRows(after, q)
    <3>1. r \in R /\ r.guid = q
      BY <2>4 DEF RowsOf
    <3>2. CASE q \in binders /\ r = Row(q, i, TRUE)
      <4>1. after[q][d] = b
        BY <2>1, <2>2, <3>2
      <4>2. r = Row(q, after[q][d].id, after[q][d].perm)
        BY <1>4, <3>2, <4>1
      <4> QED
        BY <1>4, <2>1, <4>1, <4>2 DEF BindRows
    <3>3. CASE r \in F /\ (q \in binders => instance[r.instance] # d)
      <4>1. PICK e \in Difficulties : /\ m_boundInstances[q][e] # NoBind
                                      /\ r = Row(q, m_boundInstances[q][e].id, m_boundInstances[q][e].perm)
                                      /\ r.instance = m_boundInstances[q][e].id
        BY <2>1, <3>1, <3>3, RowBind
      <4>2. ~(q \in binders /\ e = d)
        BY <2>3, <3>3, <4>1
      <4>3. after[q][e] = m_boundInstances[q][e]
        BY <2>2, <4>2
      <4> QED
        BY <4>1, <4>3 DEF BindRows
    <3> QED
      BY <1>2, <3>1, <3>2, <3>3
  <2>5. ASSUME NEW r \in BindRows(after, q)
        PROVE  r \in RowsOf(R, q)
    <3>1. PICK e \in Difficulties : /\ after[q][e] # NoBind
                                    /\ r = Row(q, after[q][e].id, after[q][e].perm)
      BY <2>5 DEF BindRows
    <3>2. r.guid = q
      BY <3>1 DEF Row
    <3>3. CASE q \in binders /\ e = d
      <4>1. r = Row(q, i, TRUE)
        BY <1>4, <2>2, <3>1, <3>3
      <4> QED
        BY <1>2, <3>2, <3>3, <4>1 DEF RowsOf
    <3>4. CASE ~(q \in binders /\ e = d)
      <4>1. after[q][e] = m_boundInstances[q][e]
        BY <2>2, <3>4
      <4>2. m_boundInstances[q][e] # NoBind
            /\ r = Row(q, m_boundInstances[q][e].id, m_boundInstances[q][e].perm)
        BY <3>1, <4>1
      <4>3. r \in F
        BY <2>1, <4>2, BindRow DEF Binding
      <4>4. r.instance = m_boundInstances[q][e].id
        BY <4>2 DEF Row
      <4>5. instance[r.instance] = e
        BY <2>3, <4>2, <4>4
      <4> QED
        BY <1>2, <3>2, <3>4, <4>3, <4>5 DEF RowsOf
    <3> QED
      BY <3>3, <3>4
  <2> QED
    BY <2>4, <2>5
<1> QED
  BY <1>1, <1>5 DEF Holds

LEMMA PermBind_Rows ==
  ASSUME SoloInv, prompt, TablesInv, NEW p \in Players, PermBind(p)
  PROVE  TablesInv'
<1>1. /\ BaseInv /\ Apart(m_instanceSaveById, m_boundInstances, maps)
      /\ DOMAIN m_instanceSaveById \subseteq DOMAIN instance
  BY DEF SoloInv, TablesInv
<1>2. PICK i, d, binders, order, tail : Perms(i, d, binders, order, tail)
  BY <1>1, PermFacts
<1>3. /\ i \in DOMAIN m_instanceSaveById /\ d = m_instanceSaveById[i].difficulty
      /\ d \in Difficulties /\ i \in Ids
      /\ \A q \in Players : \A e \in Difficulties : m_boundInstances'[q][e] =
           IF q \in binders /\ e = d THEN [id |-> i, perm |-> TRUE] ELSE m_boundInstances[q][e]
      /\ DOMAIN m_instanceSaveById' \subseteq DOMAIN m_instanceSaveById
      /\ queue' = queue \o tail
      /\ UNCHANGED <<instance, character_instance, session, holder>>
  BY <1>2 DEF Perms
<1>4. binders \in SUBSET Online
  BY <1>2 DEF Perms, Online
<1>5. PICK table : Recorded(table) /\ Holds(table[Len(queue)], m_boundInstances, Online)
  BY DEF TablesInv
<1>6. PICK F : F = table[Len(queue)]
  OBVIOUS
<1>7. queue \in Seq(Statements) /\ Len(queue) \in Nat
  BY <1>1 DEF BaseInv, TypeOK, QueueType
<1>8. Binding(F, i, d)
  <2>1. F \in SUBSET Rows /\ Orderly(F) /\ Holds(F, m_boundInstances, Online)
    BY <1>5, <1>6, <1>7 DEF Recorded, Future
  <2> QED
    BY <1>1, <1>3, <2>1 DEF Binding, BaseInv, TypeOK, MemoryType, Apart
<1>9. PICK N \in Nat : order \in [1..N -> binders] /\ tail \in [1..N -> Statements]
  BY <1>2 DEF Perms
<1>10. tail \in Seq(Statements) /\ Len(tail) = N
  BY <1>9
<1> DEFINE done(k) == {order[m] : m \in 1..k}
<1>11. PICK T : T = [k \in 0..N |-> Rebound(F, done(k), i, d)]
  OBVIOUS
<1>12. \A k \in 0..N : T[k] = Rebound(F, done(k), i, d) /\ done(k) \in SUBSET binders
  <2>1. ASSUME NEW k \in 0..N
        PROVE  done(k) \in SUBSET binders
    <3>1. \A m \in 1..k : m \in 1..N
      BY <1>9, <2>1
    <3> QED
      BY <1>9, <3>1
  <2> HIDE DEF done
  <2> QED
    BY <1>11, <2>1
<1>13. done(0) = {} /\ done(N) = binders
  <2>1. \A q \in binders : \E k \in 1..N : order[k] = q
    BY <1>2, <1>9 DEF Perms
  <2> QED
    BY <1>9, <2>1
<1>14. ASSUME NEW k \in 1..N
       PROVE  done(k) = done(k - 1) \cup {order[k]} /\ order[k] \notin done(k - 1)
  <2>1. \A l, m \in 1..N : l # m => order[l] # order[m]
    BY <1>2, <1>9 DEF Perms
  <2>2. /\ \A m \in 1..k : m \in 1..(k - 1) \/ m = k
        /\ \A m \in 1..(k - 1) : m \in 1..k /\ m \in 1..N /\ m # k
        /\ k \in 1..k
    BY <1>9, <1>14
  <2> QED
    BY <2>1, <2>2
<1>15. ASSUME NEW k \in 1..N
       PROVE  tail[k] = IF m_boundInstances[order[k]][d] = NoBind
                        THEN Statement("insert", order[k], NoId, i, TRUE)
                        ELSE Statement("update", order[k], m_boundInstances[order[k]][d].id, i, TRUE)
  BY <1>2, <1>9 DEF Perms
<1> HIDE DEF done
<1>16. T[0] = F
  <2>1. 0 \in 0..N
    BY <1>9
  <2>2. T[0] = Rebound(F, done(0), i, d)
    BY <1>12, <2>1
  <2>3. T[0] = Rebound(F, {}, i, d)
    BY <1>13, <2>2, Zenon
  <2> QED
    BY <2>3 DEF Rebound
<1>17. \A k \in 0..N : T[k] \in SUBSET Rows /\ Orderly(T[k])
  <2> TAKE k \in 0..N
  <2>1. PICK who : who = done(k)
    OBVIOUS
  <2>2. who \in SUBSET Online /\ T[k] = Rebound(F, who, i, d)
    BY <1>4, <1>12, <2>1
  <2> QED
    BY <1>8, <2>2, ReboundOrderly
<1>18. ASSUME NEW k \in 1..N
       PROVE  T[k] = Executed(T[k - 1], tail[k])
  <2>1. k \in 0..N /\ k - 1 \in 0..N
    BY <1>9
  <2>2. PICK who, q : who = done(k - 1) /\ q = order[k]
    OBVIOUS
  <2>3. /\ who \in SUBSET Online /\ q \in Online /\ q \notin who
        /\ T[k - 1] = Rebound(F, who, i, d)
        /\ T[k] = Rebound(F, who \cup {q}, i, d)
    BY <1>4, <1>9, <1>12, <1>14, <2>1, <2>2
  <2>4. PICK s : s = tail[k]
    OBVIOUS
  <2>5. s = PermStatement(q, i, d)
    BY <1>15, <2>2, <2>4 DEF PermStatement
  <2>6. Executed(Rebound(F, who, i, d), s) = Rebound(F, who \cup {q}, i, d)
    BY <1>8, <2>3, <2>5, ReboundStep
  <2> QED
    BY <2>3, <2>4, <2>6, Zenon
<1>19. ASSUME NEW q \in Players, session[q] = "loading" \/ session'[q] = "loaded", NEW k \in 0..N
       PROVE  RowsOf(T[k], q) = RowsOf(T[0], q)
  <2>1. PICK who : who = done(k)
    OBVIOUS
  <2>2. T[k] = Rebound(F, who, i, d) /\ q \notin who
    BY <1>3, <1>4, <1>12, <1>19, <2>1 DEF Online
  <2>3. \A r : r \in T[k] <=> \/ r \in F /\ (r.guid \in who => instance[r.instance] # d)
                              \/ r.guid \in who /\ r = Row(r.guid, i, TRUE)
    <3>1. IsRebound(T[k], F, who, i, d)
      BY <2>2, ReboundRows
    <3> QED
      BY <3>1 DEF IsRebound
  <2>4. \A r : r.guid = q => (r \in T[k] <=> r \in F)
    BY <2>2, <2>3
  <2> QED
    BY <1>16, <2>4 DEF RowsOf
<1>20. Continues(table, tail, T)
  <2>1. IsConcat(Statements, queue, tail, queue')
    BY <1>3, <1>7, <1>10, ConcatFacts
  <2>2. T \in [0..N -> SUBSET Rows]
    BY <1>11, <1>17
  <2>3. \A k \in 1..N : tail[k].op # "login"
    <3> TAKE k \in 1..N
    <3>1. PICK s : s = tail[k]
      OBVIOUS
    <3>2. s = Statement("insert", order[k], NoId, i, TRUE)
          \/ s = Statement("update", order[k], m_boundInstances[order[k]][d].id, i, TRUE)
      BY <1>15, <3>1
    <3>3. s.op # "login"
      BY <3>2 DEF Statement
    <3> QED
      BY <3>1, <3>3
  <2> QED
    BY <1>6, <1>10, <1>16, <1>18, <1>19, <2>1, <2>2, <2>3 DEF Continues
<1>21. KeepsFound /\ Grows /\ Online' = Online
  BY <1>3 DEF KeepsFound, Grows, Online
<1>22. PICK after : Future(after)' /\ Steady(after)' /\ Follows(table, tail, T, after)
  BY <1>1, <1>3, <1>5, <1>20, <1>21, ExtendTables DEF Recorded
<1>23. Len(queue') = Len(queue) + N
  BY <1>10, <1>20 DEF Continues, IsConcat
<1>24. ASSUME NEW n \in 0..Len(queue')
       PROVE  Orderly(after[n])'
  <2>1. CASE n \in 0..Len(queue)
    <3>1. after[n] = table[n] /\ Orderly(table[n])
      BY <1>5, <1>22, <2>1 DEF Follows, Recorded
    <3> QED
      BY <1>21, <3>1, OrderlyGrows
  <2>2. CASE n \notin 0..Len(queue)
    <3>1. n - Len(queue) \in 0..N /\ n = Len(queue) + (n - Len(queue))
      BY <1>7, <1>9, <1>23, <2>2
    <3>2. PICK k \in 0..N : n = Len(queue) + k
      BY <3>1
    <3>3. after[n] = T[k] /\ Orderly(T[k])
      BY <1>10, <1>17, <1>22, <3>2 DEF Follows
    <3> QED
      BY <1>21, <3>3, OrderlyGrows
  <2> QED
    BY <2>1, <2>2
<1>25. Holds(after[Len(queue)], m_boundInstances, Online)'
  <2>1. PICK bound : bound = m_boundInstances'
    OBVIOUS
  <2>2. after[Len(queue')] = Rebound(F, binders, i, d)
    BY <1>9, <1>10, <1>12, <1>13, <1>22, <1>23 DEF Follows
  <2>3. \A q \in Players : \A e \in Difficulties : bound[q][e] =
          IF q \in binders /\ e = d THEN [id |-> i, perm |-> TRUE] ELSE m_boundInstances[q][e]
    BY <1>3, <2>1
  <2>4. Holds(Rebound(F, binders, i, d), bound, Online)
    BY <1>4, <1>8, <2>1, <2>3, ReboundHolds
  <2>5. \A q \in Online : RowsOf(after[Len(queue')], q) = BindRows(bound, q)
    BY <2>2, <2>4 DEF Holds
  <2>6. \A q \in Online : BindRows(m_boundInstances, q)' = BindRows(bound, q)
    BY <2>1 DEF BindRows
  <2> QED
    BY <1>21, <2>5, <2>6 DEF Holds
<1>26. Recorded(after)' /\ DOMAIN m_instanceSaveById' \subseteq DOMAIN instance'
  BY <1>1, <1>3, <1>22, <1>24 DEF Recorded
<1> QED
  BY <1>25, <1>26 DEF TablesInv

LEMMA Rows_Next ==
  ASSUME RowsInv, [Next]_vars
  PROVE  RowsInv'
<1>1. SoloInv /\ SoloInv'
  BY Solo_Next DEF RowsInv
<1>2. prompt' = prompt
  BY Prompt_Next
<1>3. ASSUME prompt
      PROVE  TablesInv'
  <2>1. BaseInv /\ TablesInv
    BY <1>1, <1>3 DEF RowsInv, SoloInv
  <2>2. CASE Work \/ ResetAll \/ Restart
    BY <1>1, <1>3, <2>1, <2>2, Work_Rows, ResetAll_Rows, Restart_Rows
  <2>3. ASSUME NEW i \in Ids, ResetInstance(i)
        PROVE  TablesInv'
    BY <1>1, <1>3, <2>1, <2>3, ResetInstance_Rows
  <2>4. CASE \/ \E p \in Players : TeleportOut(p) \/ Arrive(p)
             \/ \E i \in DOMAIN maps : DestroyInstance(i)
             \/ UNCHANGED vars
    BY <2>1, <2>4, Away_Rows
  <2>5. ASSUME NEW p \in Players, PermBind(p) \/ RequestLogin(p) \/ LoginOutside(p) \/ Logout(p)
        PROVE  TablesInv'
    BY <1>1, <1>3, <2>1, <2>5, PermBind_Rows, RequestLogin_Rows, LoginOutside_Rows, Logout_Rows
  <2>6. ASSUME NEW p \in Players, NEW d \in Difficulties,
               Enter(p, d) \/ LoginInside(p, d) \/ ResetInstances(p, d) \/ UnbindInstance(p, d)
        PROVE  TablesInv'
    BY <1>1, <1>3, <2>1, <2>6, Enter_Rows, LoginInside_Rows, ResetInstances_Rows,
       UnbindInstance_Rows
  <2> QED
    BY <2>2, <2>3, <2>4, <2>5, <2>6 DEF Next
<1> QED
  BY <1>1, <1>2, <1>3 DEF RowsInv

\* As long as the worker keeps up with the resets, whenever the queue is empty
\* the table holds exactly the binds of every player online, temporary and
\* permanent ones, each to an instance the other table has with the same
\* difficulty: a crash at that moment loses no bind and brings none back,
\* whatever happened before, crashes that lost part of the queue included.
THEOREM Rows_Match == Spec => []RowsMatch
<1>1. Init => RowsInv
  BY Init_Rows
<1>2. RowsInv /\ [Next]_vars => RowsInv'
  BY Rows_Next
<1>3. RowsInv => RowsMatch
  <2> SUFFICES ASSUME RowsInv, prompt, queue = <<>>, NEW p \in Players, session[p] = "online"
               PROVE  /\ {r \in character_instance : r.guid = p} =
                           {Row(p, m_boundInstances[p][d].id, m_boundInstances[p][d].perm) :
                              d \in {e \in Difficulties : m_boundInstances[p][e] # NoBind}}
                      /\ \A d \in Difficulties : m_boundInstances[p][d] # NoBind =>
                           /\ m_boundInstances[p][d].id \in DOMAIN instance
                           /\ instance[m_boundInstances[p][d].id] = d
    BY DEF RowsMatch
  <2>1. PICK table : Recorded(table) /\ Holds(table[Len(queue)], m_boundInstances, Online)
    BY DEF RowsInv, TablesInv
  <2>2. table[Len(queue)] = character_instance
    BY <2>1 DEF Recorded, Future
  <2>3. p \in Online
    BY DEF Online
  <2>4. RowsOf(character_instance, p) = BindRows(m_boundInstances, p)
    BY <2>1, <2>2, <2>3 DEF Holds
  <2>5. /\ Matching(m_instanceSaveById, m_boundInstances)
        /\ SameDifficulty(m_instanceSaveById, maps)
        /\ DOMAIN m_instanceSaveById \subseteq DOMAIN instance
    BY DEF RowsInv, TablesInv, SoloInv, BaseInv, Apart
  <2>6. \A d \in Difficulties : m_boundInstances[p][d] # NoBind =>
          /\ m_boundInstances[p][d].id \in DOMAIN instance
          /\ instance[m_boundInstances[p][d].id] = d
    BY <2>5, BindInstance
  <2> QED
    BY <2>4, <2>6 DEF RowsOf, BindRows
<1> QED
  BY <1>1, <1>2, <1>3, PTL DEF Spec
=============================================================================
