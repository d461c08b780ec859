--------------------------- MODULE CharacterStore ---------------------------
(***************************************************************************)
(* The characters database as the handlers of the world thread use it, and *)
(* the characters that are in memory.  A handler changes memory at once    *)
(* and hands a transaction to CharacterDatabase.CommitTransaction; a       *)
(* worker applies it later, or never if the process ends first.            *)
(*                                                                         *)
(* This is the level above DatabasePool and DatabaseConnection: a          *)
(* transaction is applied as a whole (DatabaseConnection!Atomic), and it   *)
(* overtakes only those that other workers are executing                   *)
(* (DatabasePool!OvertakesRunningOnly), so that with Workers workers the   *)
(* next one to be applied is among the first Workers of the queue.         *)
(***************************************************************************)
EXTENDS Integers, Sequences, FiniteSets, SequencesExt

CONSTANTS
  Players,      \* characters
  Items,        \* stacks of items; a stack is in one place
  Nobody,       \* guid 0
  Nothing,      \* no item
  StartMoney,   \* gold in the database at first, per player
  StartOwner,   \* who has an item at first
  MaxMoney,     \* MAX_MONEY_AMOUNT
  LongWord,     \* 2^64, the values of a uint64
  Workers,      \* CharacterDatabase.WorkerThreads
  MaxCrashes    \* bound on the number of crashes

ASSUME StoreAssumption ==
  /\ Nobody \notin Players /\ Nothing \notin Items
  /\ StartMoney \in [Players -> Nat] /\ StartOwner \in [Items -> Players]
  /\ MaxMoney \in Nat /\ \A p \in Players : StartMoney[p] <= MaxMoney
  /\ LongWord \in Nat /\ 4 * MaxMoney < LongWord
  /\ Workers \in Nat \ {0} /\ MaxCrashes \in Nat

VARIABLES
  db,        \* the tables of the characters database
  queue,     \* what the workers have still to execute
  up,        \* the world server: "down", "starting" or "up"
  crashes,   \* crashes that may still happen
  online,    \* per player: "out", "loading" or "in"
  fetched,   \* per player: what the login query has read, not yet used
  money,     \* GetMoney of the players that are in
  bags       \* their items

storeVars == <<db, queue, up, crashes>>
playerVars == <<online, fetched, money, bags>>

-----------------------------------------------------------------------------
(* Tables and transactions.                                                *)

NoRows == [k \in {} |-> k]
OneRow(key, row) == [k \in {key} |-> row]

\* INSERT or REPLACE, UPDATE (of the rows that exist), DELETE.
Insert(table, rows) ==
  [k \in DOMAIN table \cup DOMAIN rows |-> IF k \in DOMAIN rows THEN rows[k] ELSE table[k]]
Update(table, rows) ==
  [k \in DOMAIN table |-> IF k \in DOMAIN rows THEN rows[k] ELSE table[k]]
Delete(table, keys) == Restrict(table, DOMAIN table \ keys)

\* CHAR_UPD_MAIL sets money and COD, each sent as 32 bits, and leaves the
\* rows of mail_items alone; CHAR_DEL_MAIL_ITEM takes an item out of
\* mail_items, whichever mail lists it.
SaveMails(table, rows) ==
  [m \in DOMAIN table |->
     IF m \in DOMAIN rows
     THEN [table[m] EXCEPT !.money = rows[m].money, !.cod = rows[m].cod]
     ELSE table[m]]
Unlist(table, items) ==
  [m \in DOMAIN table |->
     IF table[m].item \in items THEN [table[m] EXCEPT !.item = Nothing] ELSE table[m]]

\* characters.money, character_inventory, mail with mail_items, auctionhouse.
\* The last two are no tables but ghosts: spent, the gold that left the game
\* (fees, what is given up or is above the limit) less the gold that came
\* into it from a game master; thrown, the items of mails that were deleted
\* with their content.
EmptyStore ==
  [money |-> StartMoney, inv |-> StartOwner, mail |-> NoRows, auc |-> NoRows,
   spent |-> 0, thrown |-> {}]

\* A transaction that writes nothing; load are the characters that a login
\* query (which waits in the same queue) reads.
NoWrites ==
  [money |-> NoRows, inv |-> NoRows, mail |-> NoRows, mailSet |-> NoRows,
   unitem |-> {}, unmail |-> {}, auc |-> NoRows, aucSet |-> NoRows, unauc |-> {},
   spent |-> 0, thrown |-> {}, load |-> {}]

\* The tables d after transaction t.
Apply(d, t) ==
  [money |-> Update(d.money, t.money),
   inv |-> Update(d.inv, t.inv),
   mail |-> Delete(Unlist(SaveMails(Insert(d.mail, t.mail), t.mailSet), t.unitem),
                   t.unmail),
   auc |-> Delete(Update(Insert(d.auc, t.auc), t.aucSet), t.unauc),
   spent |-> d.spent + t.spent,
   thrown |-> d.thrown \cup t.thrown]

\* The tables d after each operation of the sequence q, executed in order.
Tables(d, q) ==
  LET after[n \in 0..Len(q)] == IF n = 0 THEN d ELSE Apply(after[n - 1], q[n])
  IN  after

\* The tables once everything queued has been executed.
Replay == Tables(db, queue)[Len(queue)]

\* CommitTransaction of one or more transactions, one after the other.
Commit(transactions) ==
  /\ queue' = queue \o transactions
  /\ UNCHANGED <<db, up, crashes>>

-----------------------------------------------------------------------------
(* Players.                                                                *)

In(p) == up = "up" /\ online[p] = "in"

\* HasEnoughMoney.
HasEnoughMoney(p, amount) == money[p] >= amount

\* What is left of a after b is taken away, and nothing below.
Above(a, b) == IF a > b THEN a - b ELSE 0

\* A number n of an unsigned type with w values, cast to the signed type of
\* the same width; and what its negation may be: for the smallest signed
\* number that is undefined.
Signed(n, w) == IF 2 * n < w THEN n ELSE n - w
Minus(n, w) == IF 2 * n = w THEN {n, -n} ELSE {-Signed(n, w)}

\* uint64(MAX_MONEY_AMOUNT - d).
RoomFor(d) == IF d <= MaxMoney THEN MaxMoney - d ELSE (MaxMoney - d) % LongWord

\* Player::ModifyMoney: not below nothing and not above the limit.
ModifyMoney(amount, d) ==
  IF d < 0 THEN Above(amount, -d)
  ELSE IF amount < RoomFor(d) THEN amount + d ELSE MaxMoney

\* SaveGoldToDB for player p with the given amount.
GoldRow(p, amount) == OneRow(p, amount)

StoreInit ==
  /\ db = EmptyStore
  /\ queue = <<>>
  /\ up = "up"
  /\ crashes = MaxCrashes
  /\ online = [p \in Players |-> "out"]
  /\ fetched = [p \in Players |-> Nothing]
  /\ money = [p \in Players |-> 0]
  /\ bags = [p \in Players |-> {}]

\* Seeded fault: any two neighbours of the queue may be swapped, as with a
\* second worker.
ExecuteOutOfOrder(n) ==
  /\ n \in 1..Len(queue) /\ n <= Workers + 1
  /\ db' = Apply(db, queue[n])
  /\ fetched' = [p \in Players |->
       IF p \in queue[n].load
       THEN [money |-> db.money[p], bags |-> {i \in Items : db.inv[i] = p}]
       ELSE fetched[p]]
  /\ queue' = RemoveAt(queue, n)
  /\ UNCHANGED <<up, crashes, online, money, bags>>

\* A worker has executed the n-th operation of the queue.
Execute(n) ==
  /\ n \in 1..Len(queue) /\ n <= Workers
  /\ db' = Apply(db, queue[n])
  /\ fetched' = [p \in Players |->
       IF p \in queue[n].load
       THEN [money |-> db.money[p], bags |-> {i \in Items : db.inv[i] = p}]
       ELSE fetched[p]]
  /\ queue' = RemoveAt(queue, n)
  /\ UNCHANGED <<up, crashes, online, money, bags>>

\* HandlePlayerLoginOpcode: DelayQueryHolder.
AskLogin(p) ==
  /\ up = "up" /\ online[p] = "out"
  /\ Commit(<<[NoWrites EXCEPT !.load = {p}]>>)
  /\ online' = [online EXCEPT ![p] = "loading"]
  /\ UNCHANGED <<fetched, money, bags>>

\* HandlePlayerLogin, called back with the result: Player::LoadFromDB.
FinishLogin(p) ==
  /\ up = "up" /\ fetched[p] # Nothing
  /\ online' = [online EXCEPT ![p] = "in"]
  /\ money' = [money EXCEPT ![p] = fetched[p].money]
  /\ bags' = [bags EXCEPT ![p] = fetched[p].bags]
  /\ fetched' = [fetched EXCEPT ![p] = Nothing]
  /\ UNCHANGED storeVars

\* LogoutPlayer: SaveToDB, and the player leaves memory.
SaveAndLeave(p) ==
  /\ In(p)
  /\ Commit(<<[NoWrites EXCEPT !.money = GoldRow(p, money[p])]>>)
  /\ online' = [online EXCEPT ![p] = "out"]
  /\ money' = [money EXCEPT ![p] = 0]
  /\ bags' = [bags EXCEPT ![p] = {}]
  /\ UNCHANGED fetched

\* The process ends with the queue as it is: a crash, an ASSERT, or the
\* shutdown, whose DatabaseWorkerPool::Close throws the queue away.
StopServer ==
  /\ up # "down" /\ crashes > 0
  /\ up' = "down"
  /\ crashes' = crashes - 1
  /\ queue' = <<>>
  /\ online' = [p \in Players |-> "out"]
  /\ fetched' = [p \in Players |-> Nothing]
  /\ money' = [p \in Players |-> 0]
  /\ bags' = [p \in Players |-> {}]
  /\ UNCHANGED db
=============================================================================
