# Verification of the MoP world server

TLA+ models of the parts of the server whose correctness depends on several
threads, on an unreliable database, or on long sequences of legal calls; the TLC
configurations that check them on small instances; and TLAPS proofs of the
properties that matter most. `PROJECT.json` is the machine-readable index: the
components, the runs, the source lines of every definition, the hazards, the
findings and the theorems. Paths below are relative to `src/src/server/`.

## 1. Inventory

### How the server works

`worldserver` runs one world thread (`WorldRunnable::run`), a pool of map threads
(`MapUpdater`), network reactor threads (`WorldSocketMgr`), one worker thread for
each asynchronous database connection (`DatabaseWorker`), and console threads.

    network threads --AddSession--> World.addSessQueue      QueuePacket --> WorldSession._recvQueue
                                         |                                   |             |
    world thread:  World::Update = UpdateSessions (admit, WorldSession::Update, remove)    |
                                 + MapManager::Update = schedule maps, wait() --------+    |
    map threads:   MapUpdater::WorkerThread: Map::Update (WorldSession::Update with map filter)
                                         |
    database:      Execute / AsyncQuery / CommitTransaction --> DatabaseWorkerPool._queue
    db workers:    DatabaseWorker::svc --> MySQLConnection --> MySQL server

The world thread and the map threads alternate: while maps are updated the world
thread waits, so the world's data need no locks during `UpdateSessions`. That
alternation, the two locked queues at the border to the network, and the database
layer below carry everything else, and they are what is modelled first.

### Components with a model

| component | state | operations | hard behaviour | what makes it correct |
|---|---|---|---|---|
| database connection (`shared/Database/MySQLConnection`, `Transaction`) | session, errno, operation and retry count | transaction, single statement, reconnect, ping, close | the link breaks, deadlocks, process aborts between statements | all or nothing, once, truthful result |
| database pool (`DatabaseWorkerPool`, `DatabaseWorker`) | queue, locks of the synchronous connections, workers | enqueue, direct execution, keep-alive, close | competition for connections, full queue, shutdown | each operation in one place, exclusive connections, order, no deadlock |
| map updater (`game/Maps/MapUpdater`, `MapManager::Update/UnloadAll`, `MapInstanced::Update`) | request queue, counter, token, instances | schedule, wait, update, create and destroy instances, deactivate | nested scheduling, lost wake-ups, destruction of maps | barrier, exclusive access to maps, termination |
| instance ids (`MapManager`) | bit vector, next id | load, generate, free | unlocked `FreeInstanceId` on map threads, vector growth | no id is used twice |
| session admission (`game/World/World`) | session table, waiting queue, limit | add, replace, admit, remove, change the limit, kick all | reconnects while waiting, sockets closed at any time | limit, order, no dangling pointers |
| session packets (`game/Server/WorldSession`, login and logout handlers) | receive queue, player, login callback, timed logout | queue, update on two threads, requeue, log in, transfer, log out | packets before the player, repeated logins, logout against map thread | order, no loss, player made and unmade in one place |
| instance saves (`game/Instances/InstanceSaveMgr`, the binds in `Player`, `InstanceMap`) | saves, binds, instance maps, reset queue, two tables | enter, leave, bind, reset by time, by the player, for all, unbind, log in, log out, restart | ids freed and reused while maps and events live on, 16-bit ids, deletions that overtake queued binds | binds and saves refer to each other, no stranger in an instance, tables agree with memory |
| auction house, mail, player trade (`game/AuctionHouse`, `game/Mails`, their handlers, `TradeHandler`) | gold, bags, mail boxes, auctions, trade windows in memory; tables behind a queue | sell, bid, buy out, cancel, settle; send, open, take, give up, return; offer, accept, cancel; log in, log out; crash and start | memory ahead of the tables, a crash at any queued transaction, offers that change between two accepts | no gold or item made or lost but in the ways the handlers have for it, memory saved, trades on agreed offers |

### Components without a model yet

`PROJECT.json` lists them all with the reason. In short:

* **Planned** (section 2): binds of groups; black market; world tick, countdown and console commands; dungeon finder;
  battleground queue; guild bank; authserver session; groups.
* **Left out for good**: numeric or geometric content (spells, combat, movement,
  collision, battle pets), content scripts, sequential record keeping (achievements,
  quests, reputation, calendar, tickets, weather), loading of data, formatting,
  cryptography, client checks, offline tools, vendored libraries, and the interrealm
  link, whose other end is not in the repository.

The hazard of theirs that is already known (the countdown that tests for equality) is
in the hazard list with a note.

## 2. Plan

Order: first what everything else rests on (database, map tick, sessions), then
the subsystems with money and items, then the queues with time limits.

1. *(done)* `DatabaseConnection` + `AtomicStore`, `MapUpdater`, `SessionQueue`,
   `InstanceIds`, `DatabasePool`, `SessionPackets`.
2. *(done)* `CharacterStore`, `MailBox`, `AuctionHouse`, `PlayerTrade`, composed in
   `Economy`.
3. *(done for players without a group)* `InstanceSaves`: the saves, binds, maps and
   resets of dungeons, with the ids that `InstanceIds` manages as a set; next the binds
   of groups.
4. `WorldTick`: the alternation of `SessionQueue`, `SessionPackets` and `MapUpdater`
   as one composed specification, the countdown of `World::ShutdownMsg` and the order
   of shutdown in `Master` and `WorldRunnable` down to `DatabasePool!Close`.
5. `DungeonFinder` and the battleground queue: proposals and invitations against their
   time limits; `GuildBank`; `AuthSession`.
6. Proofs: *(done)* every safety property that a passing run checks. Next the
   properties of the modules of items 3 to 5 as they come, and `Economy` for more than
   one worker: which of its properties survive writes that overtake each other.

One run answers one question; properties that need no separate instance share a run.

## 3. Modules and the code

In every module an action is one handler, or the part of it between two accesses to
state that other threads share. Operators marked "Seeded fault" are altered copies of
the definition after them: replacing that definition by its altered copy must violate
the property it is listed for under `mutants`. They are not part of any specification.

### AtomicStore, DatabaseConnection

`AtomicStore` is the promise of the database layer: an operation is durable entirely
and once and reported as such, or not at all and reported as failed.

`DatabaseConnection` is one `MySQLConnection` with its owner, one step per exchange
with the server. `pc` is the query that `ExecuteTransaction` sends next; `loop` is the
retry counter of `TransactionTask::Execute` and `DirectCommitTransaction`; `errno` is
what `mysql_errno` answers, which every successful query resets. `HandleMySQLErrno` is
the handler of a lost link with its reconnect (which may be refused and leave
`m_Mysql` null, or break again while the statements are prepared). `ExecuteAbort` is
the abort on schema errors. The server is external: a session is a flag and the
writes not committed; a lost session is rolled back. Result sets and parameters are
left out. `Faults` chooses the faults, `MaxFaults` bounds their number.

### DatabasePool

Clients enqueue (`Enqueue`, blocking at `HighWater`) or run operations directly
(`GetFreeConnection`, one turn of its spinning loop per step, with the `uint8` index
wrapping at `Wrap`; `Unlock`), or call `KeepAlive`. Workers take operations
(`Dequeue`, `Executed`, `Exit`). `CloseQueue`, `CloseWorker`, `CloseSynch` are
`Close`. The ACE queue is external, modelled by how the pool uses it:
closing it deactivates it and throws away what it holds.

### MapUpdater

`WaitAndPop`, `CheckToken`, `Call`, `UpdateInstance`, `DestroyInstance`,
`InstancesDone`, `UpdateFinished` are a map thread; `StartUpdate`, `ScheduleRequest`,
`UpdateInPlace` (no threads configured), `AllScheduled`, `Wait`, `DelayedUpdate`,
`UnloadAll`, `Cancel`, `Join` the world thread. A thread in a condition variable runs
again only when notified, so that lost wake-ups show as violated liveness. What an
update does to its map is left out; whether an instance is kept, kept
without an update, or destroyed is nondeterministic.

### InstanceIds

`Init` is `InitInstanceIds`, `LoadRow` the registration of the rows by
`InstanceSaveManager::LoadResetTimes`. `GenerateInstanceId` and `FreeInstanceId` run on the world thread;
`FreeCompare`, `FreeSetNext`, `FreeReadWord`, `FreeWriteWord` are the same
`FreeInstanceId` on map threads, where nothing is locked, one access at a time. A bit
of `vector<bool>` is written by reading and writing its word; a write one past the
end changes nothing that is read later. `Word` and `Unit` are 32 and 64 in the code.

### SessionQueue

`AddSession`, `CloseSocket`: network threads. `UpdateSessions` on the world thread is
one step per session: `AddSession_` (with `RemoveSession`, `RemoveQueuedPlayer` and
the counting of the new session), `AddSessionRefused`, `UpdateSession`,
`RemoveInactive` (which calls `RemoveQueuedPlayer` twice, as the code does). `realm`
is one of `Settings` (sessions that may come, limits, tolerance) and never changes. The
tolerance after a disconnect never ends, since the code computes a negative age.

### SessionPackets

One session: packets are numbered in the order of arrival, and of eight kinds that
the session treats differently. `HandlePacket` is a turn of the loop of
`WorldSession::Update` for either filter, with requeueing and the limit; `EndLoop`
puts packets back and runs the login callback; `EndMapUpdate`, `EndWorldUpdate`,
`RemoveSession` are its ends. Inside an Update nothing else changes the player, hence
one step per turn. `"game"` and `"swing"` stand for all game handlers.

### CharacterStore, MailBox, AuctionHouse, PlayerTrade, Economy

These are one level above the database modules. `CharacterStore` has the tables
(`db`), the transactions that the handlers have committed and no worker has executed
yet (`queue`), and the gold and bags of the players in memory. It uses what the lower
modules establish: a transaction is applied as a whole (`DatabaseConnection!Atomic`)
and overtakes only what other workers are executing
(`DatabasePool!OvertakesRunningOnly`), so `Execute` takes one of the first `Workers`
of the queue. A transaction is a record of the rows it inserts, updates and deletes;
gold is written as an absolute amount, as `SaveGoldToDB` does. A login is a query that
waits in the same queue (`AskLogin`) and is used later (`FinishLogin`). `StopServer` is
the end of the process: memory and queue are gone. `Tables` are the tables after each
operation of the queue, `Replay` the last of them; they serve the properties only.

`MailBox`, `AuctionHouse` and `PlayerTrade` have one action per handler. A handler
runs on the world thread (`PROCESS_THREADUNSAFE`), so it is one step, with every
change of memory and the transactions it commits. Of `HandleAuctionPlaceBid` the part
below the buyout and the buyout are two operators; `AuctionUpdate` and `DeleteExpired`
are one turn of their loops. `ComeDue` is the clock. `terms` (what a player saw when
he accepted), `spent`, `thrown` and `lost` are ghosts: no guard reads them. `spent` is
the gold that has left the game less the gold that has come into it: the fees; what a
request for no gold gives up (`HandleMailTakeMoney` accepts 0 and then empties the
mail); what an auction mail holds when it is "returned" (`HandleMailReturnToSender`
deletes every mail and sends back the content of those of players only); what is above
`MAX_MONEY_AMOUNT` after a trade; and, counted the other way, what a game master sends
without having it. `thrown` are the items deleted with auction mails, `lost` those that
a crash has cost. `DurableGold` and `ItemsAccounted` therefore say that nothing is made
or lost in any *other* way, in any order of handlers, workers and crashes.

A mail lists its item, and the items of all mails of a box are in `mMitems`, as in
`Player`. `HandleMailTakeItem` takes any item of the box under any mail of it, and the
mail named loses its price; `CHAR_DEL_MAIL_ITEM` unlists the item in the tables
whichever mail lists it (`Unlist`), memory only in the mail named, so that another mail
may go on listing an item that the box has given away. A box shows and returns of a
mail only what it holds (`InBox`, after `GetMItem`). Integers
have their widths: amounts are below `LongWord` (2^64) and wrap (`reqmoney`, the sum in
`HandleMailTakeMoney`, the room in `ModifyMoney`), prices and what `_SaveMail` binds are
below `Word` (2^32), casts to signed types are `Signed` and `Minus`. `Narrow` says that
all amounts are within the 32 bit fields and casts.

Inputs: the amount asked for in `HandleMailTakeMoney` is what the mail shows, or 0: any
other is refused. Whether a trade may begin, and whether the items fit, is a choice.

`Economy` composes the three: one `Next`, in which trade, mail and auction house
compete for the same gold, bags and queue, and a crash or a worker comes between any
two handlers.

### InstanceSaves

One dungeon map with a normal and a heroic difficulty, players without a group. The
handlers run on the world thread, `PermBind` in the update of the map (`Unit.cpp:21007`),
hence on a map thread while the world thread waits: with one map that is one step at a
time as well. (With several maps two of them could bind players at the same time; that
is not modelled.) A worker executes the statements (`Work`). A save is named
by its instance id; `m_boundInstances` is the bind of a player for each difficulty;
`maps` and `m_mapRef` are the instance maps and which player is linked to which
(`SetMap`), including a player in transfer (`away`), who has left the map and is still
linked to it. `RemovePlayers`, `AddInstanceSave` and `BindToInstance` return the new
saves and binds, since handlers call several of them in a row. The loops of the code
over players or binds (in `Logout`, `PermBind` and `Loaded`) are given in closed form,
for a set of players or binds at once: the order of the turns matters only for the
statements they queue, and for which row of a difficulty is loaded last (`LastRows`).
`Executed` is one queued statement.
`ResetInstance` is an event of `m_resetTimeQueue`, `ResetAll` the global reset of the
heroic difficulty, `ResetInstances` the request of a player, `UnbindInstance` the
command of a game master. Which queued reset is due next is a choice. The ids that
`GenerateInstanceId` gives out are the lowest of those not in `used`, what
`InstanceIds` shows below its first full word. `Restart` loses memory and queue,
`expired` being what ran out meanwhile.

`prompt` is not a variable of the code. `DeleteInstanceFromDB` is synchronous and the
binds are queued, so a reset that comes while a bind or a login is still queued leaves
rows behind. In behaviours with `prompt` resets come only when nothing is queued and
no login is under way; the others have any order. `BindsMatch` is checked in both.

## 4. Runs

| run | question | instance | distinct states |
|---|---|---|---|
| connection_atomic | Is every operation atomic, and is AtomicStore implemented, when the link is not lost in mid-operation? | transactions of 2, 1 and 0 statements, one single statement, 3 faults of 6 kinds | 4 145 |
| connection_lossy | What remains when the link breaks anywhere? | as above, all 7 kinds | 17 891 |
| connection_torn | finding, section 7 | one fault | - |
| map_tick | Is a tick a barrier, are maps exclusive, does it end? | no threads or 2, a continent, an instanced map with 2 instances, 1 criteria task, 2 ticks | 31 743 |
| ids_map_threads | Is an id ever given out twice, whatever the races leave behind? | 0 to 2 map threads, ids to 6, rows to 3, Word 4, Unit 8 | 257 968 |
| ids_full_word | finding, section 7 | Word 2 | - |
| pool_workers | Exclusive connections, order, use after close, termination | 3 clients, 2 workers, 2 connections, queue of 2 | 18 989 |
| sessions | Limit, idle slots, order, flags, pointers, removal, while accounts reconnect and limits change | realms of 3 accounts with 4 sessions and limit 1, or limits 0 and 1; staff, premium | 283 195 |
| session_packets | Order, loss, and who makes and unmakes the player | 4 packets of 7 kinds, 2 per Update | 444 107 |
| economy | Gold, items, saved memory, agreed trades, settlement | 3 players, one of them a game master, 1 item, 9 gold, 1 crash; five mixes of activities, see below | 794 594 |
| economy_startup | finding, section 7 | auctions due at the start | - |
| instance_saves | Do binds, saves and tables agree, does a stranger get into an instance? | 2 players, ids 0 to 2, width 2, 2 events per id, 2 resets or restarts | 1 552 368 |

Why these bounds are enough to be interesting:

* *Connection*: three faults allow an error, a failed reconnect and a further error in
  one transaction; the transaction of two statements has a middle; a second
  transaction finds what the first left behind.
* *Map tick*: two workers can hold an instanced map and one of its instances at the
  same time while the other instance is queued; two ticks let instances destroyed in
  the first be created again; the second wait is the one of `deactivate`.
* *Ids*: six ids cross word boundaries of size and capacity; two threads free ids of
  the same word. The run stays below the first id that fills the storage (8 with
  `Word` 4 and `Unit` 8, 64 in the code): that id is the case of `ids_full_word`.
* *Pool*: three clients compete for two connections, the queue fills up, the pings of
  `KeepAlive` mix with operations, `Wrap` is larger than the number of connections.
* *Sessions*: with limit 1 and four sessions of three accounts, one plays,
  others wait, and each may be replaced by its own second session or leave at any
  step. Staff and premium accounts, who never wait, take part.
* *Packets*: `MaxProcessed` 1 makes Update take two packets, so that four packets
  exceed one Update with some put back (the code takes 251). The kind `trade`
  is left out: its handling is that of `game` except after a logout.
* *Economy*: `Bounds` is a set of five activities, one chosen at first: `Trades` and
  `Letters` (two players, who log in and out, and take items under any mail of their
  box), `Auctions` (two players and a crash; the
  mails are the auction house's own, and are also returned), `Bids` (three players:
  seller, bidder and rival), `Mixed` (trade and mail of the same item at
  once). At most two transactions (with auctions and in `Mixed` one, the handlers of
  auctions queueing up to two) are queued when a player acts, so that a handler's
  transactions can follow another's and a crash can fall before, between and after them. Prices 1 and 3 with a cut of
  half allow a bid, a raise, an outbid and a buyout, a cut rounded to zero and one
  that is not. The assumptions are constants: `Workers` 1 (with
  more, an older amount of gold may be written last and `MemoryIsSaved` fails, which is
  its mutant; the shipped configuration file sets 4, so these results are about the
  default of the code), `Word` 100 and `LongWord` 1000, above every amount (`Narrow`),
  `LogTrade` as in the shipped configuration file, `DueAtStart` FALSE (no auction
  comes due while the server is down, the case of `economy_startup`). `MaxMoney` is 4,
  so that players reach the limit in trades and are refused by `HandleMailTakeMoney`.
  Two mails of players (and those that their handling sends) are enough to take an item
  under a mail that does not list it. They are not enough for the item to come back into
  a box where a mail still lists it; the return of that mail would then insert a second
  row for the item into `mail_items`, and what becomes of that depends on the keys of a
  table whose definition is not in the repository.
* *Instance saves*: id 2 is 0 modulo the width, so that an event of instance 2 hits id
  0, as that of 65536 does in the code; no id above 2 exists, so that a truncated id is
  always 0 in the run, and that it may name an instance that lives (as 65537 and 1) is
  covered by the theorems only; two events for one id and two resets let the
  first free the id and the second hit the instance that got it next. The queue takes
  one operation before players wait (`PermBind` queues one for each player). With
  three resets (6.6 million states) the properties hold as well.

Deadlock is checked in the runs of sessions, packets, pool, ids, economy and instance saves. The connection
and the map updater really stop (closed, all threads joined).

### Fairness

* Connection, pool, map updater: weak fairness per thread. A thread that can run is
  run by the operating system, and MySQL answers, with an error if need be. Threads
  blocked by a lock, a condition variable or a full queue are not enabled, so fairness
  assumes nothing about locks; `GetFreeConnection` spins, and its step
  is always enabled. Which thread gets a free connection is not assumed.
* Sessions: weak fairness of the world thread. `World::Update` calls
  `UpdateSessions` every time and `WorldRunnable::run` never stops before shutdown.
  Nothing is assumed of clients.
* Packets: an Update that has begun ends (weak fairness); each of the two callers
  calls Update again and again while it may (strong fairness, because the other
  caller's Update disables it for a while; in the code the two alternate in
  every tick). Nothing is assumed of the client, the database or the teleports.
* Economy: weak fairness of the workers and of the update of the auction house, which
  `World::Update` calls every minute. Nothing is assumed of players, or that the
  server is started again.

## 5. Properties

*Connection.* `Atomic`, `ImplementsAtomicStore` (all or nothing, truthful reports);
`NoOrphanTransaction` (no error path leaves a transaction to the next operation);
`ReportIsFinal`, `EventuallyReported`.

*Pool.* `OnePlace`, `ConnectionExclusive`, `NoUseAfterClose`, `OvertakesRunningOnly`
(what several workers may reorder, exactly), `Shutdown`.

*Map updater.* `PendingExact`, `Barrier` (every request of the tick carried out
exactly once when `wait` returns), `Exclusive`, `NoDeletedMap` (nothing that is
deleted or null is called), `WaitsEnd` (each wait of the world thread, the one of the
shutdown included).

*Ids.* `NextIsAvailable`, `UsedIsMarked`: the races of `FreeInstanceId` can only leave
a free id marked, never unmark one in use. `NextIsLowest`: with at most one map thread
the vector is exact and the next id the lowest free one.

*Admission.* `PlayersWithinLimit` for a constant limit; `NoIdleSlot` for one as long as
no staff is in the world; `NoDangling`,
`FlagMeansQueued`, `AdmittedInOrder`, `ClosedIsRemoved` for a changing one too.

*Packets.* `OnePlace`, `HandledInOrder`, `LogoutHasPlayer`, `LoginReplacesNobody`,
`MapKeepsPlayer`, `LeftoverProcessed` (as long as no more packets than one Update
takes wait in front).

*Economy.* `DurableGold`: the tables hold all the gold at every moment but for `spent`,
so a crash after any transaction neither makes nor destroys any. `ItemsAccounted`: every
item is in the tables at most once, and exactly once but for `thrown` and for the sale of a split stack, whose first transaction
deletes the old stack and whose second saves the new one (the items that a crash
between the two costs are in `lost`). `MemoryIsSaved`: memory is what the tables will
be once the queue is executed; without it the first two would be about the tables
alone. `TradeAgreed`: who has accepted has accepted the
offers, gold and item guids, as they are now, and both windows refer to each other;
that an offered item which has left the bags does not change hands as well is
`ItemsAccounted`. `AuctionSettles`: a due auction ends in memory and
in the tables, although `AuctionHouseObject::Update` reads the ids from the tables and
the auctions from memory.

*Instance saves.* `BindsMatch`: a bind points to a save that exists and lists the
player, and the converse, through every order of resets, logouts, reuse of ids and
restarts; the raw pointers `InstancePlayerBind::save` and `m_playerList` have nothing
else to rely on. `SoloIsSolo`: two players without a group never hold temporary binds
to one instance, in memory or in the tables, although ids are freed while their maps
live. `RowsMatch`: once the queue is empty the tables hold exactly the binds of who is
online, each with its instance.

The types of the variables are checked where a proof rests on them or the values are
bounded by the code (`TypeOK` of the connection and of the session).

## 6. Proofs

For all values of the constants that satisfy the `ASSUME`s of the modules. The
assumptions are what the code gives: finitely many threads (`MapUpdater`,
`InstanceIds`), a word of the bit vector with more than one bit, special values that
are not among the ordinary ones. Each inductive invariant was first checked by TLC on
the instance of the run that checks the property.

* **DatabaseConnectionProofs** - *Whatever breaks*: `TypeCorrect`, `NoOrphanTheorem`,
  `ReportIsFinalTheorem`. `LossyInv` says that one operation is executed at a time
  (`OwnerInv`), that a session is in a transaction only between `BEGIN` and the end of
  a transaction, on a link that is up, and that what it holds uncommitted belongs to
  the current operation (`OpenInv`); so a commit, late or not, touches no operation
  that has been reported. *Unless the link is lost during an operation*
  (`"lost" \notin Faults`; otherwise the first finding refutes them):
  `AtomicTheorem`, `Refinement`. Here the invariant must say what exactly a commit
  makes durable. `IInv` adds `OutcomeInv` (the outcome of an operation determines what
  is durable of it) and `SessionInv` (the session holds exactly the statements before
  `itr`). One lemma per action. The refinement maps the commit step to `Commit`, the
  final failure to `Reject`, every other step to a stutter.
* **DatabasePoolProofs** - `ConnectionExclusiveTheorem`, `NoUseAfterCloseTheorem`,
  `OvertakesTheorem`, `OnePlaceTheorem`, for any number of clients, workers and
  connections. `LockInv` relates a lock to its holder in both directions; `CloseInv`
  says that the queue is inactive, hence empty, and all clients idle before any worker
  leaves; `OrderInv` says that for some n the operations 1..n are exactly those running
  or done and the queue holds n+1, n+2, ... in this order; `PlaceInv` that effects and
  running operations are distinct and nothing dropped has run.
* **MapUpdaterProofs** - `SpecPendingExact`, `SpecBarrier`, `SpecExclusive`,
  `SpecNoDeletedMap`, for any maps and instances and any finite number of map threads.
  `PendingExact` alone is not inductive: a request that two threads held would be
  counted twice. `PlaceInv` puts every request of a tick in one place (queued once, or
  held by one thread, or neither), and says that it names a map that exists; `TickInv`
  says that a request has been carried out once exactly when it is scheduled, not
  queued and not held by a thread that has yet to call it, and that an instance is of
  the tick only after its parent has been carried out. When `wait` returns the counter
  is zero, hence nothing is queued or held, and this is `Barrier`. `WorkerInv` and
  `PhaseInv` relate
  the program counters of the map threads and of the world thread to the requests they
  hold and to the token of `deactivate`.
* **SessionQueueProofs** - `SpecNoDangling`, `SpecFlagMeansQueued`,
  `SpecAdmittedInOrder` for any sessions, accounts and changing limits;
  `SpecPlayersWithinLimit` and `SpecNoIdleSlot` (which follows from `SlotsTaken`, about
  slots as the code counts them) for realms with one limit and no
  tolerance. The invariant adds that a session is listed under its own account and
  handed over once (`ListInv`), without which a replaced session could stay in the
  queue. The counting theorems rest on lemmas about one call of `RemoveQueuedPlayer`
  (what it takes out, whom it admits, by how much the queue gets shorter) that are then
  used for the two calls in a row of `UpdateSessions` and for the one of `AddSession_`.
  `SpecNoIdleSlot` assumes `RateOnline = 1`, the default of `World.cpp:560`:
  `RemoveQueuedPlayer` takes 1 off a count in which each session stands for the rate,
  and with a rate of 2 TLC finds players waiting in front of a free slot.
* **InstanceIdsProofs** - `SpecNextIsLowest` without any condition;
  `SpecNextIsAvailable` and `SpecUsedIsMarked` for behaviours in which the vector is
  never full (`Room`: every row to load lies inside it, and the next id is below the
  capacity); `ids_full_word` shows what happens otherwise. `MarkInv` has to cover the
  map threads between reading and writing a word of the vector: the word such a thread
  holds marks every id in use, since ids are marked only while no map thread runs.
  `LowInv` says that with one thread the word it holds is the vector's, and that an id
  that is free and marked, or free and below the next one, is the one being freed.
* **SessionPacketsProofs** - `TypeTheorem`, `OnePlaceTheorem`,
  `HandledInOrderTheorem`, `LogoutTheorem`, `LoginTheorem`, `MapKeepsPlayerTheorem`,
  for any packets in any order and any limit. `LogoutHasPlayer`, `LoginReplacesNobody`
  and `MapHasPlayer` (an Update on a map thread has a player) support each other.
  For the order, `RequeueInv` says that while an Update holds packets back the session
  has no player and cannot get one, so that no packet of a player is handled past one
  that waits; `OrderInv` that queue and packets held back are in the order of arrival
  and behind every packet of a player that is done.
* **EconomyProofs** - `SpecTradeAgreed`, for any players, items, amounts and bounds.
  `TradeInv` says that trading is symmetric and among players in the world
  (`PairInv`), so that a changed offer takes back the acceptance of the one partner
  there is and a logout ends the trade for both, and that the recorded terms of who has
  accepted are the present ones (`AgreedInv`), for anybody, trading or not.

  `SpecMemoryIsSaved`, `SpecItemsAccounted`, `SpecDurableGold`, for a queue of any
  length. None of them is inductive: a handler computes from memory, its
  transaction is applied to tables that exist only when everything before it has been
  executed, and a crash may leave any of the tables in between. So the invariant speaks
  of the tables after every operation of the queue. `StoreInv` says that each of them
  is well formed with no item in two places (`Fine`), that the next ids of mails and
  auctions are above theirs (`Ids`, without which a new mail would overwrite one that
  is still to be inserted), that from a login query on nothing that is queued concerns
  its player, and until he opens his mail box nothing changes the mails in it
  (`Chain`), and that the last of them is what the world has in memory (`Current`).
  `ItemsInv` says of each that every item is in one place, or in none with the
  operation that puts it into an auction next (`HalfAt`); `GoldInv` that its gold adds
  up. For each handler one lemma (`SendMailDone`, `TakeMoneyDone`, ..., `ExchangeDone`)
  shows that the transaction it commits turns tables that agree with its memory into
  tables that agree with its new memory, and keeps items and gold (`Settles`; `Splits`
  for the sale of a split stack); `SettleStep` and `SplitStep` conclude for the queue.

  The hypotheses: `Workers = 1` for all three, the default of `Master.cpp:388`, not the 4
  of the shipped file, with which `MemoryIsSaved` fails. `Narrow`, since for larger
  amounts the 32 bit fields and casts make and cut gold (section 7). `~AnyMail`, items
  are taken under the mail that lists them: the invariant says that every item a mail
  lists is in the box and in the tables, and the other case is checked by TLC alone. `LogTrade` for the items, finitely many players for the gold. The
  gold may be at the limit of a purse. That every item a mail lists is held by its box
  (`Held`) is part of `Current`. The theorems are about `Spec`, in which no auction is
  settled while the server starts: `StartupSpec` is refuted by `economy_startup`.

  What is true of a sum or of a queue for every length is proved by induction in the
  form "a set of numbers with 0 and n+1 for every n in it is `Nat`" (`Induction`),
  which follows from the well-foundedness of `<` and needs no operator parameter.
* **InstanceSavesProofs** - `Binds_Match` in any behaviour, `Solo_Is_Solo` and
  `Rows_Match` in those with `prompt`, for any finite set of players, any ids, width and
  bounds. `BaseInv` adds to `BindsMatch` that a permanent bind forbids the reset of its
  save (else the reset of an instance would unbind who keeps it), that only players
  online hold binds, and how statements and logins follow each other in the queue
  (`Queued`). `SoloInv` says that an id somebody may find again - in a save, in a row,
  in a statement still queued - is not handed out (`IdsUsed`), that map, save, table and
  query agree on the difficulty of an instance, and that no two players are bound to
  one instance temporarily in any of the places where a bind may be (`Solo`).
  `RowsInv` speaks of the table after every operation of the queue: all of them are
  `Orderly` (one row for each player and difficulty, of an instance that is there),
  because a restart may find any of them; nothing changes the rows of a player while he logs
  in (`Steady`); and the last one holds the binds of all who are online.

Only model-checked:

* liveness and fairness (`EventuallyReported`, `Shutdown`, `WaitsEnd`,
  `ClosedIsRemoved`, `LeftoverProcessed`, `AuctionSettles`), which the prover does not
  handle.

## 7. Findings

Each is a run in which TLC finds the property violated.

* **connection_torn** - when the link breaks inside a transaction, `Execute` reconnects
  and re-sends only the current statement. The new session is in autocommit mode, so
  the earlier statements are lost and the later ones durable one by one, and the
  transaction is reported as successful.
* **ids_full_word** - `GenerateInstanceId` resizes the vector to the rounded id, so an
  id that is a multiple of the word size stays outside; its bit is not recorded and,
  once a smaller id has been freed and used again, the id is given out twice. With
  the code's rounding to 32 and a vector whose storage grows in words of 64 bits, the
  first such id is 64 on a server that starts without saved instances.
* **economy_startup** - auctions that came due while the server was down are settled by
  `DeleteExpiredAuctionsAtStartup`, which `World::SetInitialWorldSettings` calls before
  `LoadAuctionItems`. The mails of a won and of an expired auction need the item from
  `mAitems`, which is still empty: they are not sent, the auction is deleted, and the
  item is in no bag, mail or auction. (The gold reaches the seller.)

Observed while modelling, without a run of its own:

* Closing the database pool throws away the operations that still wait (`CloseQueue`),
  among them the saves of the players whom `WorldRunnable::run` has just kicked.
* A dungeon's reset event is queued while players are inside: `SetMap` links the player
  before `InstanceMap::AddPlayerToMap` calls `SetResetSchedule(false)`, which does
  nothing when the map has players, so the event that `AddInstanceSave` has queued
  ("normally this will be removed soon after in InstanceMap::Add") stays, and the
  instance is reset under its players two hours later (`Map.cpp:3086`, `Map.cpp:3360`).
  A logout inside queues a second event. The first frees the id, the second wipes
  whatever instance has got it meanwhile, permanent binds included, although
  `InstanceSaveMgr.h:89` says that such instances are reset only at the global time.
* A login inside a dungeon is not subject to `CanEnter`: a player whose id was freed and
  given out again may come up in the map of a stranger (unbound, or bound permanently by
  the next boss kill). `CheckInstanceLoginValid` prevents it for the maps of the
  current expansion only.
* Without `prompt` two players can end up with temporary binds to one instance: one's
  login has read its row, the instance is reset and its id reused, then the login
  is handled.
* The event of instance 65536 resets and frees id 0, which `GenerateInstanceId` then
  gives out; `AddInstanceSave` refuses it, so that instance has no save.
* A save that `UnloadInstanceSave` takes out of the manager is not deleted: only
  `RemovePlayer` and `RemoveGroup` look at `m_toDelete`. The global reset of one
  difficulty resets the maps of all; its warnings compute the time left as 0 before the
  reset; ids of heroic instances are freed only by a restart.
* `HasRecentlyDisconnected` passes the times to `difftime` in the wrong order
  (`World.cpp:345`); `LoadResetTimes` advances `result` in its loop over `result2`
  (`InstanceSaveMgr.cpp:342`).
* A transaction that fails with a deadlock is not retried, although
  `TransactionTask::Execute` means to: `ExecuteTransaction` sends ROLLBACK before it
  returns, which resets the error number that the retry tests.
* `SendAuctionWonMail` looks up the account of an offline winner only if `GM.LogTrade`
  is set (the default in `World.cpp` is false, the shipped file sets 1); without it the
  item of an auction won by an offline player is lost.
* The code and the comment in `worldserver.conf.dist` (line 105) give the characters
  database one worker by default, the shipped file sets 4 (line 109). With more than
  one, two saves of the same player may be executed in either order.
* The deletions of `DeleteExpiredAuctionsAtStartup` are queued while `LoadAuctions`
  reads the table at once, so an auction just settled may be loaded again.
* Bids that are raised, and gold and price of a mail that is saved, are bound as 32
  bits (`AuctionHouseHandler.cpp:638`, `Player.cpp:23149`) although both are 64-bit.
* `HandleMailTakeItem` looks the item up in the whole box and removes it from the list of
  the mail that the request names (`MailHandler.cpp:505`). When another mail lists it,
  that one goes on listing an item the box has not any more, until the box is read
  again; `HandleMailReturnToSender` has a branch for such an item, marked as unexpected
  (`MailHandler.cpp:452`), and returns the rest.
* The price of a mail is cast to `int32` when it is taken from the buyer
  (`MailHandler.cpp:554`): from 2^31 copper on the buyer's gold grows by 2^32 less the
  price, while the sender is paid in full. With `Word` 8 and a price of 5 TLC finds
  `DurableGold` violated, and with an amount above `Word` `MemoryIsSaved`.
* `HandleMailTakeMoney` with an amount of 0 empties the mail and pays nothing;
  `HandleMailReturnToSender` of an auction mail deletes it with gold and item; a trade
  that lifts a purse above `MAX_MONEY_AMOUNT` loses the difference; a game master sends
  gold that he does not have. No text of the repository says otherwise; the properties
  count them.
* A mail whose insert is still queued when the receiver opens his mail box is not shown
  until he logs in again.
* Every session is compared with `PlayerLimit` (`World.h:707`), although
  `worldserver.conf.dist` (line 178) says "Excluding Mods, GMs and Admins": with a game
  master in the world one player less is admitted. With a limit of 1 TLC finds a player
  who waits for an empty world; `NoIdleSlot` is therefore about a world without staff.
* Setting the limit to 0 does not empty the waiting queue until a session leaves,
  although 0 means no limit (`worldserver.conf.dist`, line 183).
* Two map threads that free ids at the same time can leave a larger id as the next one
  than the lowest free one; the id is still free.
* Closing a connection whose reconnect failed runs into the assertion that the MySQL
  handle is present.
* More requeued packets than one Update takes starve everything behind them, the login
  request included; `deletePacket` is not reset after a requeued packet, so the
  packets after it in the same Update are not deleted; `m_playerLoading` stays set
  after a login request that is too short or refused.

## 8. Not modelled inside the modelled parts

Result sets, statement parameters and their encoding; the content of packets, of map
updates and of game handlers; outgoing packets; interrealm sessions; Warden and addon
data of a session; `HandleMailDelete`, `ReturnOrDeleteOldMails`, text items, several items in one mail or trade; the trade
slot that is not traded and its spells; lists, searches and notifications of the
auction house; auction prices that do not fit into 32 bits; dungeons of several maps; binds of groups, raid
encounters, challenge mode and the dungeon finder, reset warnings and game masters in
dungeons, and how long a player may stay in an instance that was reset; the times of timers (a timer that may have run out is a choice);
memory exhaustion; the failure of thread creation.
