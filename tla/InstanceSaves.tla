--------------------------- MODULE InstanceSaves ----------------------------
(***************************************************************************)
(* Dungeon instances of one map for players without a group: the saves of  *)
(* InstanceSaveManager, the binds of the players, the instance maps, the   *)
(* queue of resets and the tables "instance" and "character_instance".     *)
(*                                                                         *)
(* All steps but Work run on the world thread, except PermBind: the last   *)
(* boss dies in the update of its map, on a map thread.  That is no        *)
(* interleaving more, for the world thread waits meanwhile and there is    *)
(* one map.  A worker executes the statements they queue.  The manager     *)
(* deletes and inserts instances with synchronous queries (PQuery),        *)
(* players queue their binds (Execute), so a deletion can overtake the     *)
(* bind it should delete.                                                  *)
(*                                                                         *)
(* Times are abstracted: any queued reset may be the next one due.  A save *)
(* is named by its instance id, the key of m_instanceSaveById.             *)
(***************************************************************************)
EXTENDS Integers, Sequences, SequencesExt, FiniteSetsExt

CONSTANTS
  Players,
  Normal, Heroic,  \* REGULAR_DIFFICULTY and HEROIC_DIFFICULTY
  IdWidth,         \* ids of InstResetEvent are modulo this, 2^16 in the code
  MaxId,           \* bound: the largest instance id
  MaxEvents,       \* bound: resets queued for one id
  MaxQueue,        \* bound: nothing is queued behind as many operations
  MaxResets,       \* bound: resets, unbinds and restarts
  NoId, NoBind

ASSUME SavesAssumption ==
  /\ Normal # Heroic /\ NoId \notin 0..MaxId
  /\ NoBind \notin [id : 0..MaxId, perm : BOOLEAN]
  /\ IdWidth \in Nat \ {0} /\ MaxId \in Nat
  /\ IsFiniteSet(Players)

Difficulties == {Normal, Heroic}
Ids == 0..MaxId

VARIABLES
  instance,           \* the table: id -> difficulty
  character_instance, \* the table: rows [guid, instance, permanent]
  queue,              \* statements and login queries the worker has not executed
  m_instanceSaveById, \* id -> [difficulty, players, canReset]
  m_boundInstances,   \* player -> difficulty -> NoBind or [id, perm]
  maps,               \* m_InstancedMaps: id -> [difficulty, unloading]
  m_mapRef,           \* player -> the instance map it is linked to, or NoId
  away,               \* players being teleported: off the map, still linked
  session,            \* player -> "offline", "loading", "loaded" or "online"
  holder,             \* player -> the rows its login query found
  m_resetTimeQueue,   \* id of an InstResetEvent of type 0 -> how many are queued
  used,               \* ids GenerateInstanceId does not hand out
  prompt,             \* the worker keeps up with the world thread, see Settled
  resets              \* how many resets may still happen, see MaxResets

tables == <<instance, character_instance>>
memory == <<m_instanceSaveById, m_boundInstances>>
vars == <<instance, character_instance, queue, m_instanceSaveById,
          m_boundInstances, maps, m_mapRef, away, session, holder,
          m_resetTimeQueue, used, prompt, resets>>

Nothing == [i \in {} |-> NoId]
NoBinds == [d \in Difficulties |-> NoBind]
Without(f, i) == [k \in DOMAIN f \ {i} |-> f[k]]
With(f, i, v) == [k \in DOMAIN f \cup {i} |-> IF k = i THEN v ELSE f[k]]

\* Id 0 has no bit, but the ids start at 1: it is handed out once freed.
Init ==
  /\ instance = Nothing /\ character_instance = {} /\ queue = <<>>
  /\ m_instanceSaveById = Nothing
  /\ m_boundInstances = [p \in Players |-> NoBinds]
  /\ maps = Nothing
  /\ m_mapRef = [p \in Players |-> NoId]
  /\ away = {}
  /\ session = [p \in Players |-> "offline"]
  /\ holder = [p \in Players |-> {}]
  /\ m_resetTimeQueue = [i \in Ids |-> 0]
  /\ used = {0}
  /\ prompt \in BOOLEAN
  /\ resets = MaxResets

-----------------------------------------------------------------------------
(* The tables.                                                             *)

\* Synchronous; the worker may still hold an INSERT for the same instance.
DeleteInstanceFromDB(instanceid) ==
  /\ instance' = Without(instance, instanceid)
  /\ character_instance' = {r \in character_instance : r.instance # instanceid}

Row(p, i, permanent) == [guid |-> p, instance |-> i, permanent |-> permanent]
\* The rows after a statement.  One that violates the key (guid, instance)
\* fails.
Executed(rows, s) ==
  LET Has(i) == \E r \in rows : r.guid = s.guid /\ r.instance = i
      new == {Row(s.guid, s.new, s.permanent)}
      others == {r \in rows : r.guid # s.guid \/ r.instance # s.old}
  IN  CASE s.op = "insert" -> IF Has(s.new) THEN rows ELSE rows \cup new
        [] s.op = "update" -> IF Has(s.old) /\ (s.new = s.old \/ ~Has(s.new))
                              THEN others \cup new ELSE rows
        [] s.op = "delete" -> others
        [] s.op = "login" -> rows

\* What the login query finds.  A row whose instance is gone is loaded without
\* a map and dropped: the statement that should delete it names instance 0.
LoginRows(p) ==
  {[instance |-> r.instance, permanent |-> r.permanent,
    difficulty |-> instance[r.instance]] :
     r \in {q \in character_instance : q.guid = p /\ q.instance \in DOMAIN instance}}

\* One operation of the queue.
Work ==
  /\ queue # <<>>
  /\ queue' = Tail(queue)
  /\ LET s == Head(queue) IN
     /\ character_instance' = Executed(character_instance, s)
     /\ \/ /\ s.op = "login"
           /\ session' = [session EXCEPT ![s.guid] = "loaded"]
           /\ holder' = [holder EXCEPT ![s.guid] = LoginRows(s.guid)]
        \/ s.op # "login" /\ UNCHANGED <<session, holder>>
  /\ UNCHANGED <<instance, m_instanceSaveById, m_boundInstances, maps, m_mapRef,
                 away, m_resetTimeQueue, used, prompt, resets>>

Statement(op, p, old, new, permanent) ==
  [op |-> op, guid |-> p, old |-> old, new |-> new, permanent |-> permanent]

\* What is queued has been executed and every login handled.
Settled == queue = <<>> /\ \A p \in Players : session[p] \notin {"loading", "loaded"}

-----------------------------------------------------------------------------
(* Saves and binds.  These operators return the new value of a variable.   *)

HavePlayers(ref, i) == \E p \in Players : ref[p] = i

\* InstanceSave::UnloadIfEmpty and RemoveInstanceSave.
UnloadIfEmpty(saves, i, ref) ==
  IF i \in DOMAIN saves /\ saves[i].players = {} /\ ~HavePlayers(ref, i)
  THEN Without(saves, i) ELSE saves

\* RemovePlayer for every pair <<player, id of a save>> of gone, in any order:
\* the last player who leaves a save unloads it.
RemovePlayers(saves, gone, ref) ==
  LET left(i) == {p \in saves[i].players : <<p, i>> \notin gone}
      unloaded == {i \in DOMAIN saves :
        /\ \E p \in Players : <<p, i>> \in gone
        /\ left(i) = {} /\ ~HavePlayers(ref, i)}
  IN  [i \in DOMAIN saves \ unloaded |-> [saves[i] EXCEPT !.players = left(i)]]

RemovePlayer(saves, p, i, ref) == RemovePlayers(saves, {<<p, i>>}, ref)

\* AddInstanceSave: a save that is there is returned; there is none for id 0.
AddInstanceSave(saves, i, difficulty, canReset) ==
  IF i \in DOMAIN saves \cup {0} THEN saves
  ELSE With(saves, i, [difficulty |-> difficulty, players |-> {}, canReset |-> canReset])

\* Player::BindToInstance on mem = [saves, bound], for every player of who.
BindToInstance(mem, who, i, permanent, ref) ==
  LET d == mem.saves[i].difficulty
      moving == {p \in who : mem.bound[p][d] # NoBind /\ mem.bound[p][d].id # i}
      left == RemovePlayers(mem.saves, {<<p, mem.bound[p][d].id>> : p \in moving}, ref)
  IN  [saves |-> [left EXCEPT ![i].players = @ \cup who,
                              ![i].canReset = @ /\ ~(permanent /\ who # {})],
       bound |-> [p \in Players |->
         IF p \in who THEN [mem.bound[p] EXCEPT ![d] = [id |-> i, perm |-> permanent]]
                      ELSE mem.bound[p]]]

\* Seeded fault: a bind that becomes permanent is written as a new one.
BindInsertOnly(mem, p, i, permanent) == Statement("insert", p, NoId, i, permanent)

\* ... and the statement it queues for a player whose bind it changes.
Changes(mem, p, i, permanent) ==
  mem.bound[p][mem.saves[i].difficulty] # [id |-> i, perm |-> permanent]

BindStatement(mem, p, i, permanent) ==
  LET bind == mem.bound[p][mem.saves[i].difficulty]
  IN  IF bind = NoBind THEN Statement("insert", p, NoId, i, permanent)
                       ELSE Statement("update", p, bind.id, i, permanent)

Mem == [saves |-> m_instanceSaveById, bound |-> m_boundInstances]

Store(mem) == m_instanceSaveById' = mem.saves /\ m_boundInstances' = mem.bound

\* Seeded fault: the binds are left to the players.
ResetSavesOnly(S) ==
  /\ m_instanceSaveById' = [i \in DOMAIN m_instanceSaveById \ S |-> m_instanceSaveById[i]]
  /\ UNCHANGED m_boundInstances

\* _ResetSave for every save of S: UnbindInstance of its players, by map and
\* difficulty, with lock_instLists set, then the save is deleted.
ResetSaves(S) ==
  /\ m_instanceSaveById' = [i \in DOMAIN m_instanceSaveById \ S |-> m_instanceSaveById[i]]
  /\ m_boundInstances' =
       [p \in Players |-> [d \in Difficulties |->
          IF \E i \in S \cap DOMAIN m_instanceSaveById :
               p \in m_instanceSaveById[i].players /\ m_instanceSaveById[i].difficulty = d
          THEN NoBind ELSE m_boundInstances[p][d]]]

-----------------------------------------------------------------------------
(* Resets.                                                                 *)

CountReset == resets > 0 /\ resets' = resets - 1

\* ScheduleReset(true): the id is stored in 16 bits.
Scheduled(i) == [m_resetTimeQueue EXCEPT ![i % IdWidth] = @ + 1]
MaySchedule(i) == m_resetTimeQueue[i % IdWidth] < MaxEvents

\* InstanceMap::Reset: an empty map is unloaded at the next update, an
\* occupied one once it is empty, which it is in any case.
MapsReset(S) ==
  [i \in DOMAIN maps |->
     [maps[i] EXCEPT !.unloading = @ \/ (i \in S /\ ~HavePlayers(m_mapRef, i))]]

\* Update: the first event of the queue is due.  _ResetInstance deletes what
\* it finds under the id of the event and frees the id.
ResetInstance(instanceId) ==
  /\ prompt => Settled
  /\ m_resetTimeQueue[instanceId] > 0
  /\ m_resetTimeQueue' = [m_resetTimeQueue EXCEPT ![instanceId] = @ - 1]
  /\ ResetSaves({instanceId})
  /\ DeleteInstanceFromDB(instanceId)
  /\ maps' = MapsReset({instanceId})
  /\ used' = used \ {instanceId}
  /\ CountReset
  /\ UNCHANGED <<queue, m_mapRef, away, session, holder, prompt>>

\* _ResetOrWarnAll at the global reset time: the saves and rows of the
\* difficulty go, and all maps are reset whatever their difficulty.
ResetAll ==
  /\ prompt => Settled
  /\ LET heroic == {i \in DOMAIN instance : instance[i] = Heroic}
     IN  /\ character_instance' = {r \in character_instance : r.instance \notin heroic}
         /\ instance' = [i \in DOMAIN instance \ heroic |-> instance[i]]
  /\ ResetSaves({i \in DOMAIN m_instanceSaveById :
                   m_instanceSaveById[i].difficulty = Heroic})
  /\ maps' = MapsReset(DOMAIN maps)
  /\ CountReset
  /\ UNCHANGED <<queue, m_mapRef, away, session, holder, m_resetTimeQueue, used, prompt>>

\* Player::ResetInstances: on request (normal dungeons), or for the current
\* difficulty when the player changes it.
ResetInstances(p, d) ==
  /\ prompt => Settled
  /\ session[p] = "online" /\ m_boundInstances[p][d] # NoBind
  /\ d = Normal \/ m_mapRef[p] = NoId
  /\ LET i == m_boundInstances[p][d].id IN
     /\ m_instanceSaveById[i].canReset
     /\ ~HavePlayers(m_mapRef, i)
     /\ maps' = MapsReset({i})
     /\ DeleteInstanceFromDB(i)
     /\ m_boundInstances' = [m_boundInstances EXCEPT ![p][d] = NoBind]
     /\ m_instanceSaveById' = RemovePlayer(m_instanceSaveById, p, i, m_mapRef)
  /\ CountReset
  /\ UNCHANGED <<queue, m_mapRef, away, session, holder, m_resetTimeQueue, used, prompt>>

\* The command ".instance unbind" (UnbindInstance), for a player elsewhere.
UnbindInstance(p, d) ==
  /\ session[p] = "online" /\ m_mapRef[p] = NoId
  /\ m_boundInstances[p][d] # NoBind /\ Len(queue) < MaxQueue
  /\ LET i == m_boundInstances[p][d].id IN
     /\ queue' = Append(queue, Statement("delete", p, i, NoId, FALSE))
     /\ m_instanceSaveById' = RemovePlayer(m_instanceSaveById, p, i, m_mapRef)
     /\ m_boundInstances' = [m_boundInstances EXCEPT ![p][d] = NoBind]
  /\ UNCHANGED <<instance, character_instance, maps, m_mapRef, away, session,
                 holder, m_resetTimeQueue, used, prompt>>
  /\ CountReset

-----------------------------------------------------------------------------
(* Maps and players.                                                       *)

\* Seeded fault: the id of an instance in use is taken as well.
InstanceForAny(bound, p, d) == IF bound[p][d] # NoBind THEN bound[p][d].id ELSE Min(Ids \ {0})

\* CreateInstanceForPlayer: the instance for a player bound as in bound.
InstanceFor(bound, p, d) ==
  IF bound[p][d] # NoBind THEN bound[p][d].id
  ELSE IF Ids \subseteq used THEN NoId ELSE Min(Ids \ used)

\* ... and the map, found by its id or created.
MapsWith(mem, p, d, i) ==
  IF i \in DOMAIN maps THEN maps
  ELSE With(maps, i, [unloading |-> TRUE, difficulty |->
         IF mem.bound[p][d] # NoBind THEN mem.saves[i].difficulty ELSE d])

UsedWith(bound, p, d, i) == IF bound[p][d] # NoBind THEN used ELSE used \cup {i}

\* InstanceMap::AddPlayerToMap, the player being linked to the map already
\* (SetMap).  The player may be refused, and is then on its way home from the
\* map "back"; the save is made in any case.
\* SetResetSchedule(false) changes nothing: the player itself is in the map.
AddPlayerToMap(mem, p, i, ms, back) ==
  LET d == ms[i].difficulty
      ref == [m_mapRef EXCEPT ![p] = i]
      added == AddInstanceSave(mem.saves, i, d, TRUE)
      new == added # mem.saves
      with == [saves |-> added, bound |-> mem.bound]
      bind == mem.bound[p][d]
      accepted == bind = NoBind \/ bind.id = i
      binds == bind = NoBind /\ i # 0
  IN  /\ new /\ d = Normal => MaySchedule(i)
      /\ m_resetTimeQueue' = IF new /\ d = Normal THEN Scheduled(i) ELSE m_resetTimeQueue
      /\ instance' = IF new /\ i \notin DOMAIN instance THEN With(instance, i, d) ELSE instance
      /\ Store(IF binds THEN BindToInstance(with, {p}, i, FALSE, ref) ELSE with)
      /\ queue' = IF binds /\ Changes(with, p, i, FALSE)
                  THEN Append(queue, BindStatement(with, p, i, FALSE)) ELSE queue
      /\ maps' = IF accepted THEN [ms EXCEPT ![i].unloading = FALSE] ELSE ms
      /\ m_mapRef' = IF accepted THEN ref ELSE [m_mapRef EXCEPT ![p] = back]
      /\ away' = IF accepted THEN away \ {p} ELSE away \cup {p}

\* HandleMoveWorldportAckOpcode with the dungeon as destination: CreateMap,
\* CanEnter (a player without a group finds nobody inside), SetMap and
\* AddPlayerToMap.  A refused player is teleported home.
Enter(p, d) ==
  /\ session[p] = "online" /\ Len(queue) < MaxQueue
  /\ m_mapRef[p] = NoId \/ p \in away
  /\ LET i == InstanceFor(m_boundInstances, p, d)
         ms == MapsWith(Mem, p, d, i)
     IN  /\ i # NoId
         /\ used' = UsedWith(m_boundInstances, p, d, i)
         /\ \/ /\ ~HavePlayers(m_mapRef, i)
               /\ AddPlayerToMap(Mem, p, i, ms, m_mapRef[p])
            \/ /\ HavePlayers(m_mapRef, i)
               /\ maps' = ms
               /\ away' = away \cup {p}
               /\ UNCHANGED <<instance, queue, memory, m_mapRef, m_resetTimeQueue>>
  /\ UNCHANGED <<character_instance, session, holder, prompt, resets>>

\* TeleportTo out of the dungeon: RemovePlayerFromMap(player, false).  The
\* player stays linked, so neither SetResetSchedule(true) nor
\* UnloadInstanceSave finds the map empty.
TeleportOut(p) ==
  /\ m_mapRef[p] # NoId /\ p \notin away
  /\ away' = away \cup {p}
  /\ maps' = [maps EXCEPT ![m_mapRef[p]].unloading =
                @ \/ {q \in Players : m_mapRef[q] = m_mapRef[p]} = {p}]
  /\ UNCHANGED <<tables, queue, memory, m_mapRef, session, holder,
                 m_resetTimeQueue, used, prompt, resets>>

\* HandleMoveWorldportAckOpcode with a destination outside.
Arrive(p) ==
  /\ p \in away
  /\ away' = away \ {p}
  /\ m_mapRef' = [m_mapRef EXCEPT ![p] = NoId]
  /\ UNCHANGED <<tables, queue, memory, maps, session, holder,
                 m_resetTimeQueue, used, prompt, resets>>

\* MapInstanced::Update: CanUnload and DestroyInstance.  The id stays used.
DestroyInstance(i) ==
  /\ maps[i].unloading /\ ~HavePlayers(m_mapRef, i)
  /\ maps' = Without(maps, i)
  /\ UNCHANGED <<tables, queue, memory, m_mapRef, away, session, holder,
                 m_resetTimeQueue, used, prompt, resets>>

\* A boss of a heroic dungeon dies: PermBindAllPlayers, one player of the
\* map after the other, in the order of their links to the map.  Who is bound
\* permanently already stays as it is.
PermBind(p) ==
  /\ m_mapRef[p] # NoId /\ p \notin away /\ Len(queue) < MaxQueue
  /\ LET i == m_mapRef[p]
         d == m_instanceSaveById[i].difficulty
         binders == {q \in Players :
           /\ m_mapRef[q] = i
           /\ m_boundInstances[q][d] = NoBind \/ ~m_boundInstances[q][d].perm}
     IN  /\ maps[i].difficulty = Heroic /\ i \in DOMAIN m_instanceSaveById
         /\ Store(BindToInstance(Mem, binders, i, TRUE, m_mapRef))
         /\ \E order \in SetToSeqs(binders) :
              queue' = queue \o [k \in DOMAIN order |-> BindStatement(Mem, order[k], i, TRUE)]
  /\ UNCHANGED <<tables, maps, m_mapRef, away, session, holder,
                 m_resetTimeQueue, used, prompt, resets>>

-----------------------------------------------------------------------------
(* Login, logout and restart.                                              *)

\* HandlePlayerLoginOpcode: the queries go through the queue.
RequestLogin(p) ==
  /\ session[p] = "offline" /\ Len(queue) < MaxQueue
  /\ session' = [session EXCEPT ![p] = "loading"]
  /\ queue' = Append(queue, Statement("login", p, NoId, NoId, FALSE))
  /\ UNCHANGED <<tables, memory, maps, m_mapRef, away, holder,
                 m_resetTimeQueue, used, prompt, resets>>

\* _LoadBoundInstances: AddInstanceSave and BindToInstance for each row, in the
\* order of the key of the table.  A save in memory keeps its difficulty ...
LoadRows(p) == {r \in holder[p] : r.instance # 0}
RowDifficulty(r) ==
  IF r.instance \in DOMAIN m_instanceSaveById
  THEN m_instanceSaveById[r.instance].difficulty ELSE r.difficulty

\* ... every save lists the player ...
Listing(p) ==
  [i \in DOMAIN m_instanceSaveById \cup {r.instance : r \in LoadRows(p)} |->
     LET rows == {r \in LoadRows(p) : r.instance = i}
         there == i \in DOMAIN m_instanceSaveById
         save == m_instanceSaveById[i]
     IN  [difficulty |-> IF there THEN save.difficulty ELSE (CHOOSE r \in rows : TRUE).difficulty,
          players |-> (IF there THEN save.players ELSE {}) \cup {q \in {p} : rows # {}},
          canReset |-> (there => save.canReset) /\ \A r \in rows : ~r.permanent]]

\* ... and of two binds of one difficulty the later takes it off the earlier.
LastRows(p) ==
  {r \in LoadRows(p) : \A s \in LoadRows(p) :
     RowDifficulty(s) = RowDifficulty(r) => s.instance <= r.instance}

Loaded(p) ==
  LET earlier == {<<p, r.instance>> : r \in LoadRows(p) \ LastRows(p)}
      bind(d) == {[id |-> r.instance, perm |-> r.permanent] :
                   r \in {s \in LastRows(p) : RowDifficulty(s) = d}}
  IN  [saves |-> RemovePlayers(Listing(p), earlier, m_mapRef),
       bound |-> [m_boundInstances EXCEPT ![p] = [d \in Difficulties |->
         IF bind(d) = {} THEN NoBind ELSE CHOOSE b \in bind(d) : TRUE]]]

Started(p) ==
  /\ session[p] = "loaded"
  /\ session' = [session EXCEPT ![p] = "online"]
  /\ holder' = [holder EXCEPT ![p] = {}]

\* HandlePlayerLogin of a player who was saved outside ...
LoginOutside(p) ==
  /\ Started(p)
  /\ Store(Loaded(p))
  /\ UNCHANGED <<tables, queue, maps, m_mapRef, away, m_resetTimeQueue, used, prompt, resets>>

\* ... and of one who was saved in the dungeon: LoadFromDB finds or creates
\* its map, AddPlayerToMap without CanEnter.  In the dungeons of the last
\* expansion CheckInstanceLoginValid sends a player home who is not alone
\* (TeleportOut).
LoginInside(p, d) ==
  /\ Started(p)
  /\ Len(queue) < MaxQueue
  /\ LET mem == Loaded(p)
         i == InstanceFor(mem.bound, p, d)
     IN  /\ i # NoId
         /\ used' = UsedWith(mem.bound, p, d, i)
         /\ AddPlayerToMap(mem, p, i, MapsWith(mem, p, d, i), i)
  /\ UNCHANGED <<character_instance, prompt, resets>>

\* LogoutPlayer, after the transfers under way: CleanupsBeforeDelete takes
\* the player off its saves while it is still in the map, then
\* RemovePlayerFromMap(player, true) deletes it, SetResetSchedule(true) and
\* UnloadInstanceSave.
Logout(p) ==
  /\ session[p] = "online" /\ p \notin away
  /\ session' = [session EXCEPT ![p] = "offline"]
  /\ LET i == m_mapRef[p]
         ref == [m_mapRef EXCEPT ![p] = NoId]
         binds == {m_boundInstances[p][d].id : d \in
                     {e \in Difficulties : m_boundInstances[p][e] # NoBind}}
         clean == RemovePlayers(m_instanceSaveById, {<<p, b>> : b \in binds}, m_mapRef)
         last == i # NoId /\ ~HavePlayers(ref, i)
         schedules == last /\ maps[i].difficulty = Normal /\ i \in DOMAIN clean
     IN  /\ m_mapRef' = ref
         /\ schedules => MaySchedule(i)
         /\ m_resetTimeQueue' = IF schedules THEN Scheduled(i) ELSE m_resetTimeQueue
         /\ m_instanceSaveById' = UnloadIfEmpty(clean, i, ref)
         /\ maps' = IF last THEN [maps EXCEPT ![i].unloading = TRUE] ELSE maps
  /\ m_boundInstances' = [m_boundInstances EXCEPT ![p] = NoBinds]
  /\ UNCHANGED <<tables, queue, away, holder, used, prompt, resets>>

\* The process ends and starts again: the queue is lost.  LoadInstances
\* deletes what expired meanwhile, instances nobody is bound to and binds to
\* instances that are gone; LoadResetTimes registers the ids and schedules
\* the normal instances.
Restart ==
  /\ \E expired \in SUBSET DOMAIN instance :
       LET bound == {i \in DOMAIN instance \ expired :
                       \E r \in character_instance : r.instance = i}
       IN  /\ instance' = [i \in bound |-> instance[i]]
           /\ character_instance' = {r \in character_instance : r.instance \in bound}
           /\ used' = {0} \cup bound
           /\ m_resetTimeQueue' = [k \in Ids |->
                Quantify(bound, LAMBDA i : instance[i] = Normal /\ i % IdWidth = k)]
  /\ queue' = <<>>
  /\ m_instanceSaveById' = Nothing
  /\ m_boundInstances' = [p \in Players |-> NoBinds]
  /\ maps' = Nothing
  /\ m_mapRef' = [p \in Players |-> NoId]
  /\ away' = {}
  /\ session' = [p \in Players |-> "offline"]
  /\ holder' = [p \in Players |-> {}]
  /\ CountReset
  /\ UNCHANGED prompt

Next ==
  \/ Work \/ ResetAll \/ Restart
  \/ \E i \in Ids : ResetInstance(i)
  \/ \E i \in DOMAIN maps : DestroyInstance(i)
  \/ \E p \in Players :
       \/ TeleportOut(p) \/ Arrive(p) \/ PermBind(p)
       \/ RequestLogin(p) \/ LoginOutside(p) \/ Logout(p)
       \/ \E d \in Difficulties :
            Enter(p, d) \/ LoginInside(p, d) \/ ResetInstances(p, d) \/ UnbindInstance(p, d)

Spec == Init /\ [][Next]_vars

-----------------------------------------------------------------------------
(* Properties.                                                             *)

\* "the players and groups must be unbound before deleting the save": the
\* bind of a player is to a save that is there and lists the player, and a
\* save lists only players so bound.  Otherwise a player holds a pointer to
\* a deleted save, or the loop of _ResetSave does not end.
BindsMatch ==
  /\ \A p \in Players, d \in Difficulties :
       m_boundInstances[p][d] # NoBind =>
         LET i == m_boundInstances[p][d].id
         IN  /\ i \in DOMAIN m_instanceSaveById
             /\ m_instanceSaveById[i].difficulty = d
             /\ p \in m_instanceSaveById[i].players
  /\ \A i \in DOMAIN m_instanceSaveById : \A p \in m_instanceSaveById[i].players :
       LET bind == m_boundInstances[p][m_instanceSaveById[i].difficulty]
       IN  bind # NoBind /\ bind.id = i

\* "non permanent binds are always solo bind": as long as the worker keeps
\* up, no two players without a group have such a bind to one instance,
\* in memory or in the table, however often its id was freed and handed out
\* again.  (Killing a boss together binds them, permanently.)
SoloIsSolo ==
  prompt =>
    /\ \A p, q \in Players, d \in Difficulties :
         LET a == m_boundInstances[p][d]
             b == m_boundInstances[q][d]
         IN  p # q /\ a # NoBind /\ b # NoBind /\ a.id = b.id => a.perm \/ b.perm
    /\ \A r, s \in character_instance :
         r.guid # s.guid /\ r.instance = s.instance => r.permanent \/ s.permanent

\* As long as the worker keeps up, once the queue is empty the tables hold
\* the binds of every player online, each to an instance of its difficulty:
\* a restart at that moment loses no bind and brings none back.
RowsMatch ==
  prompt /\ queue = <<>> =>
    \A p \in Players : session[p] = "online" =>
      /\ {r \in character_instance : r.guid = p} =
           {Row(p, m_boundInstances[p][d].id, m_boundInstances[p][d].perm) :
              d \in {e \in Difficulties : m_boundInstances[p][e] # NoBind}}
      /\ \A d \in Difficulties : m_boundInstances[p][d] # NoBind =>
           /\ m_boundInstances[p][d].id \in DOMAIN instance
           /\ instance[m_boundInstances[p][d].id] = d
=============================================================================
