------------------------------- MODULE Economy ------------------------------
(***************************************************************************)
(* Gold and items: mail, auction house and trade window over one           *)
(* characters database.  All their handlers run on the world thread        *)
(* (PROCESS_THREADUNSAFE), so a handler is one step; between two of them   *)
(* a worker may have executed any part of the queue, and the process may   *)
(* end.                                                                    *)
(***************************************************************************)
EXTENDS AuctionHouse, PlayerTrade

CONSTANTS
  Bounds,        \* the bounds of the instances that are explored together:
                 \* the players who log in, those who log out, how many
                 \* operations are queued before players wait, the last
                 \* mail id for which players send or return mail, the last
                 \* auction id, and which of these happen: trades, crashes,
                 \* the return of a mail that has no sender, a request for
                 \* an item that names another mail than the one it is in
  MaxAuctions    \* the highest of the bounds on auction ids

ASSUME BoundAssumption ==
  /\ MaxAuctions \in Nat
  /\ Bounds \subseteq [players : SUBSET Players, leavers : SUBSET Players,
                       queue : Nat, mails : Nat, auctions : 0..MaxAuctions,
                       steps : SUBSET {"trade", "crash", "discard", "anymail"}]

VARIABLES
  bound,         \* the bounds of this behaviour
  lost           \* items that a crash has cost (ghost)

vars == <<storeVars, playerVars, mailVars, auctionVars, tradeVars, bound, lost>>

Init ==
  /\ StoreInit /\ MailInit /\ AuctionInit /\ TradeInit
  /\ bound \in Bounds
  /\ lost = {}

-----------------------------------------------------------------------------
(* Where things are in the tables d.                                       *)

MailsWith(d, i) == {m \in DOMAIN d.mail : d.mail[m].item = i}
AuctionsWith(d, i) == {id \in DOMAIN d.auc : d.auc[id].item = i}
PlacesOf(d, i) ==
  (IF d.inv[i] = Nobody THEN 0 ELSE 1)
    + Cardinality(MailsWith(d, i)) + Cardinality(AuctionsWith(d, i))

\* The gold of the players, in mails, bid, in deposits, and what has left.
GoldIn(d) ==
  SumFunction(d.money) + SumFunction([m \in DOMAIN d.mail |-> d.mail[m].money])
    + SumFunction([id \in DOMAIN d.auc |-> d.auc[id].bid + d.auc[id].deposit])
    + d.spent

\* All amounts are within what the code's 32 bit fields and casts hold.
Narrow ==
  /\ \A a \in Amounts : 2 * a < Word
  /\ \A x \in Prices : x + Deposit < Word

\* Requests may name a mail that does not list the item.
AnyMail == \E b \in Bounds : "anymail" \in b.steps

\* A mail of p as the box of p has it: with the item it lists if the box
\* holds that (GetMItem), and without it else.
InBox(p, m) ==
  [mails[p][m] EXCEPT !.item = IF @ \in mMitems[p] THEN @ ELSE Nothing]

\* The first of the two transactions of a sale has been executed, and the
\* second is next.
HalfSold(i) ==
  /\ queue # <<>> /\ PlacesOf(db, i) = 0
  /\ \E id \in DOMAIN queue[1].auc : queue[1].auc[id].item = i

-----------------------------------------------------------------------------
(* Steps.                                                                  *)

QueueRoom == Len(queue) < bound.queue
MailRoom == QueueRoom /\ mailId <= bound.mails

Login ==
  /\ \E p \in bound.players : (QueueRoom /\ AskLogin(p)) \/ FinishLogin(p)
  /\ UNCHANGED <<mailVars, auctionVars, tradeVars, bound, lost>>

\* LogoutPlayer: the mails leave memory with the player, and
\* CleanupsBeforeDelete cancels his trade.
Logout ==
  /\ \E p \in bound.leavers :
       /\ QueueRoom /\ SaveAndLeave(p)
       /\ mailsLoaded' = mailsLoaded \ {p}
       /\ mails' = [mails EXCEPT ![p] = NoRows]
       /\ mMitems' = [mMitems EXCEPT ![p] = {}]
       /\ TradeCancel(p)
  /\ UNCHANGED <<mailId, auctionVars, bound, lost>>

Mailing ==
  /\ \/ \E p, q \in Players, gold, cod \in Amounts, i \in Items \cup {Nothing} :
          MailRoom /\ HandleSendMail(p, q, gold, cod, i)
     \/ \E p \in Players : HandleGetMailList(p)
     \/ \E p \in Players : \E m \in DOMAIN mails[p] :
          \/ \E asked \in {0, mails[p][m].money} :
               QueueRoom /\ HandleMailTakeMoney(p, m, asked)
          \/ \E i \in mMitems[p] :
               QueueRoom /\ ("anymail" \in bound.steps \/ mails[p][m].item = i) /\ HandleMailTakeItem(p, m, i)
          \/ /\ IF mails[p][m].from # Nobody THEN MailRoom ELSE QueueRoom /\ "discard" \in bound.steps
             /\ HandleMailReturnToSender(p, m)
  /\ UNCHANGED <<auctionVars, tradeVars, bound, lost>>

Auctioning ==
  /\ \/ \E p \in Players, i \in Items, b, buyout \in Prices, cloned \in BOOLEAN :
          QueueRoom /\ auctionId <= bound.auctions
            /\ HandleAuctionSellItem(p, i, b, buyout, cloned)
     \/ \E p \in Players : \E id \in DOMAIN AuctionsMap :
          \/ \E price \in Prices : QueueRoom /\ HandleAuctionPlaceBid(p, id, price)
          \/ QueueRoom /\ HandleAuctionRemoveItem(p, id)
     \/ \E id \in DOMAIN AuctionsMap : ComeDue(id)
  /\ UNCHANGED <<tradeVars, bound, lost>>

Trade ==
  /\ \E p \in Players :
       \/ \E q \in Players : "trade" \in bound.steps /\ HandleInitiateTrade(p, q)
       \/ \E gold \in Offers : HandleSetTradeGold(p, gold)
       \/ \E i \in Items \cup {Nothing} : HandleSetTradeItem(p, i)
       \/ QueueRoom /\ HandleAcceptTrade(p)
       \/ HandleUnacceptTrade(p)
       \/ HandleCancelTrade(p)
  /\ UNCHANGED <<mailVars, auctionVars, bound, lost>>

Settle ==
  /\ \E id \in due : AuctionUpdate(id)
  /\ UNCHANGED <<tradeVars, bound, lost>>

Work ==
  /\ \E n \in 1..Len(queue) : Execute(n)
  /\ UNCHANGED <<mailVars, auctionVars, tradeVars, bound, lost>>

Crash ==
  /\ "crash" \in bound.steps /\ CrashAuctions
  /\ m_trade' = [p \in Players |-> NoTrade]
  /\ terms' = [p \in Players |-> NoTerms]
  /\ lost' = lost \cup {i \in Items : HalfSold(i)}
  /\ UNCHANGED bound

Start ==
  /\ StartServer \/ LoadAuctions
  /\ UNCHANGED <<tradeVars, bound, lost>>

Cleanup ==
  /\ \E id \in expired : DeleteExpired(id)
  /\ UNCHANGED <<tradeVars, bound, lost>>

Next ==
  \/ Login \/ Logout \/ Mailing \/ Auctioning \/ Trade
  \/ Settle \/ Work \/ Crash \/ Start

Spec == Init /\ [][Next]_vars

\* With auctions that come due while the server is down.
StartupSpec == Init /\ [][Next \/ Cleanup]_vars

\* The workers execute what is queued, and World::Update calls the update of
\* the auction house every minute.
FairSpec == Spec /\ WF_vars(Work) /\ WF_vars(Settle)

-----------------------------------------------------------------------------
(* Properties.                                                             *)

\* At every moment the tables hold all the gold there ever was, in purses,
\* mails, bids and deposits, or it has left in one of the ways the handlers
\* have for that: a fee, a mail whose gold is given up or that is deleted
\* with it, gold above the limit in a trade; and gold comes in only when a
\* game master sends what he does not have.  No other order of handlers,
\* workers and crashes makes gold or destroys it, because each handler
\* writes both sides of a payment in one transaction.
DurableGold == GoldIn(db) = SumFunction(StartMoney)

\* At every moment the tables hold every item at most once, in bags, a mail
\* or an auction; and exactly once, but for the sale of a split stack, which
\* deletes the old stack in a transaction of its own, the items that a crash
\* in between has cost, and those of auction mails that were returned: such
\* a mail is deleted with what it carries.
ItemsAccounted ==
  \A i \in Items :
    /\ PlacesOf(db, i) <= 1
    /\ PlacesOf(db, i) = 1 \/ HalfSold(i) \/ i \in lost \cup db.thrown

\* What the players and the auction house have in memory is what the tables
\* will hold when the queue is executed: nothing a handler does is kept in
\* memory alone.  A mail that is in memory is in the tables as well, with its
\* gold, its price and the item that the box holds for it, under whichever
\* mail another item was taken.  This is with one worker: with more, two
\* transactions of one player may be executed in either order.
MemoryIsSaved ==
  up = "up" =>
    /\ \A p \in Players : online[p] = "in" =>
         /\ Replay.money[p] = money[p]
         /\ {i \in Items : Replay.inv[i] = p} = bags[p]
         /\ \A m \in DOMAIN mails[p] :
              m \in DOMAIN Replay.mail /\ Replay.mail[m] = InBox(p, m)
    /\ Replay.auc = AuctionsMap
    /\ mAitems = {AuctionsMap[id].item : id \in DOMAIN AuctionsMap}

\* Trades are between two players of the world, each the trader of the
\* other, and who has accepted has accepted the offers as they are now: the
\* amounts of gold and the guids of the items.  Whether a player still has the
\* item of an offer when the trade is carried out is not part of this.
TradeAgreed ==
  \A p \in Players : Trading(p) =>
    /\ online[p] = "in" /\ Trader(p) # p /\ Trader(Trader(p)) = p
    /\ m_trade[p].accepted => terms[p] = TermsOf(p)

\* An auction whose time has come is settled: it leaves memory and the
\* tables, unless the process ends.
AuctionSettles ==
  \A id \in 1..MaxAuctions :
    (up = "up" /\ id \in due \cap DOMAIN AuctionsMap)
      ~> (id \notin DOMAIN AuctionsMap \cup DOMAIN db.auc \/ up # "up")
=============================================================================
