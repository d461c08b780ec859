---------------------------- MODULE AuctionHouse ----------------------------
(***************************************************************************)
(* The auction house: AuctionHouseMgr, one AuctionHouseObject, and the     *)
(* handlers that sell, bid and cancel.  An auction lives in AuctionsMap,   *)
(* its item in mAitems; both are copied to the database by transactions    *)
(* and read back when the server starts.                                   *)
(*                                                                         *)
(* An auction is [item, owner, startbid, buyout, bid, bidder, deposit].    *)
(* Time is the set due of the auctions whose expire_time has come.         *)
(* Notifications, lists, searches and the mail that only announces a sale  *)
(* (it carries nothing) are left out.                                      *)
(***************************************************************************)
EXTENDS MailBox

CONSTANTS
  Prices,        \* the bids and buyouts that players choose
  Deposit,       \* GetAuctionDeposit
  CutPercent,    \* cutPercent of the house, times the rate
  LogTrade,      \* GM.LogTrade
  DueAtStart     \* an auction may be due when the server starts

ASSUME AuctionAssumption ==
  /\ Prices \subseteq Nat /\ Deposit \in Nat /\ CutPercent \in 0..100
  /\ LogTrade \in BOOLEAN /\ DueAtStart \in BOOLEAN

VARIABLES
  AuctionsMap,   \* the auctions by id
  mAitems,       \* the items they hold
  auctionId,     \* ObjectMgr::_auctionId
  due,           \* ids of auctions whose time has come
  expired        \* ids that DeleteExpiredAuctionsAtStartup has still to visit

auctionVars == <<AuctionsMap, mAitems, auctionId, due, expired>>

AuctionInit ==
  /\ AuctionsMap = NoRows
  /\ mAitems = {}
  /\ auctionId = 1
  /\ due = {}
  /\ expired = {}

Greatest(a, b) == IF a > b THEN a ELSE b

GetAuctionCut(a) == (a.bid * CutPercent) \div 100
GetAuctionOutBid(a) == Greatest(1, (a.bid * 5) \div 100)

\* The letters of SendAuctionOutbiddedMail, SendAuctionCancelledToBidderMail.
RefundMail(a) ==
  IF a.bidder = Nobody THEN <<>> ELSE <<Letter(Nobody, a.bidder, a.bid, 0, Nothing)>>

\* SendAuctionSuccessfulMail.
SuccessfulMail(a) ==
  <<Letter(Nobody, a.owner, a.bid + a.deposit - GetAuctionCut(a), 0, Nothing)>>

\* Seeded fault: only a winner who is in the world is looked for.
WonMailOnline(a, held) ==
  IF a.item \in held /\ online[a.bidder] = "in"
  THEN <<Letter(Nobody, a.bidder, 0, 0, a.item)>> ELSE <<>>

\* SendAuctionWonMail, with the items held by the manager.  The account of a
\* winner who is not in the world is looked up only if LogTrade is set.
WonMail(a, held) ==
  IF a.item \in held /\ (online[a.bidder] = "in" \/ LogTrade)
  THEN <<Letter(Nobody, a.bidder, 0, 0, a.item)>> ELSE <<>>

\* SendAuctionExpiredMail, and the mail of a cancelled auction.
ReturnMail(a, held) ==
  IF a.item \in held THEN <<Letter(Nobody, a.owner, 0, 0, a.item)>> ELSE <<>>

\* How an auction that is due ends: the letters, and the gold that is lost
\* to fees.
Settlement(a, held) ==
  IF a.bidder = Nobody
  THEN [letters |-> ReturnMail(a, held), fee |-> a.deposit]
  ELSE [letters |-> SuccessfulMail(a) \o WonMail(a, held), fee |-> GetAuctionCut(a)]

\* RemoveAItem and RemoveAuction.
Forget(id) ==
  /\ mAitems' = mAitems \ {AuctionsMap[id].item}
  /\ AuctionsMap' = Delete(AuctionsMap, {id})
  /\ UNCHANGED <<auctionId, due, expired>>

-----------------------------------------------------------------------------
(* Handlers.                                                               *)

\* HandleAuctionSellItem.  If the stack is split or put together the item is
\* cloned, and the old stack is deleted in a transaction of its own.
HandleAuctionSellItem(p, i, startbid, buyout, cloned) ==
  /\ In(p) /\ i \in bags[p] \ mAitems /\ startbid > 0
  /\ HasEnoughMoney(p, Deposit)
  /\ LET a == [item |-> i, owner |-> p, startbid |-> startbid, buyout |-> buyout,
               bid |-> 0, bidder |-> Nobody, deposit |-> Deposit]
         rest == ModifyMoney(money[p], -Deposit)
         gone == [NoWrites EXCEPT !.inv = OneRow(i, Nobody)]
         sold == [NoWrites EXCEPT !.auc = OneRow(auctionId, a), !.money = GoldRow(p, rest)]
     IN  /\ money' = [money EXCEPT ![p] = rest]
         /\ AuctionsMap' = Insert(AuctionsMap, OneRow(auctionId, a))
         /\ Commit(IF cloned THEN <<gone, sold>> ELSE <<[sold EXCEPT !.inv = gone.inv]>>)
  /\ mAitems' = mAitems \cup {i}
  /\ bags' = [bags EXCEPT ![p] = @ \ {i}]
  /\ auctionId' = auctionId + 1
  /\ UNCHANGED <<online, fetched, due, expired, mailVars>>

\* The checks of HandleAuctionPlaceBid.
MayBid(p, id, price) ==
  /\ In(p) /\ id \in DOMAIN AuctionsMap
  /\ LET a == AuctionsMap[id]
     IN  /\ a.owner # p
         /\ price > a.bid /\ price >= a.startbid
         /\ price < a.buyout \/ a.buyout = 0 => price >= a.bid + GetAuctionOutBid(a)
  /\ HasEnoughMoney(p, price)

\* HandleAuctionPlaceBid below the buyout: who raises his own bid pays the
\* difference, and another bidder before him gets his bid back.
PlaceBid(p, id, price) ==
  /\ MayBid(p, id, price)
  /\ LET a == AuctionsMap[id]
         row == [a EXCEPT !.bid = price, !.bidder = p]
         mine == a.bidder = p
         rows == IF mine THEN NoRows ELSE Rows(RefundMail(a))
         rest == ModifyMoney(money[p], IF mine THEN a.bid - price ELSE -price)
     IN  /\ price < a.buyout \/ a.buyout = 0
         /\ SendMailTo(mails, mMitems, rows)
         /\ money' = [money EXCEPT ![p] = rest]
         /\ AuctionsMap' = [AuctionsMap EXCEPT ![id] = row]
         /\ Commit(<<[NoWrites EXCEPT !.money = GoldRow(p, rest), !.mail = rows,
                                      !.aucSet = OneRow(id, row)]>>)
  /\ UNCHANGED <<online, fetched, bags, mAitems, auctionId, due, expired>>

\* HandleAuctionPlaceBid at the buyout or above: the auction ends.
Buyout(p, id, price) ==
  /\ MayBid(p, id, price)
  /\ LET a == AuctionsMap[id]
         sold == [a EXCEPT !.bid = a.buyout, !.bidder = p]
         mine == a.bidder = p
         rows == Rows((IF mine THEN <<>> ELSE RefundMail(a))
                      \o SuccessfulMail(sold) \o WonMail(sold, mAitems))
         rest == ModifyMoney(money[p], IF mine THEN a.bid - a.buyout ELSE -a.buyout)
     IN  /\ a.buyout > 0 /\ price >= a.buyout
         /\ SendMailTo(mails, mMitems, rows)
         /\ money' = [money EXCEPT ![p] = rest]
         /\ Commit(<<[NoWrites EXCEPT !.money = GoldRow(p, rest), !.mail = rows,
                                      !.unauc = {id}, !.spent = GetAuctionCut(sold)]>>)
  /\ Forget(id)
  /\ UNCHANGED <<online, fetched, bags>>

HandleAuctionPlaceBid(p, id, price) == PlaceBid(p, id, price) \/ Buyout(p, id, price)

\* HandleAuctionRemoveItem: the owner cancels; if there is a bid he pays the
\* cut and the bidder is refunded.
HandleAuctionRemoveItem(p, id) ==
  /\ In(p) /\ id \in DOMAIN AuctionsMap
  /\ LET a == AuctionsMap[id]
         cut == IF a.bidder = Nobody THEN 0 ELSE GetAuctionCut(a)
         rows == Rows(RefundMail(a) \o ReturnMail(a, mAitems))
         rest == ModifyMoney(money[p], -cut)
     IN  /\ a.owner = p /\ a.item \in mAitems /\ HasEnoughMoney(p, cut)
         /\ SendMailTo(mails, mMitems, rows)
         /\ money' = [money EXCEPT ![p] = rest]
         /\ Commit(<<[NoWrites EXCEPT !.money = GoldRow(p, rest), !.mail = rows,
                                      !.unauc = {id}, !.spent = cut + a.deposit]>>)
  /\ Forget(id)
  /\ UNCHANGED <<online, fetched, bags>>

\* expire_time passes.
ComeDue(id) ==
  /\ id \in DOMAIN AuctionsMap \ due
  /\ due' = due \cup {id}
  /\ UNCHANGED <<AuctionsMap, mAitems, auctionId, expired, mailVars, storeVars, playerVars>>

\* Seeded fault: the auction is looked for in memory only.
UpdateKeepsRow(id) ==
  /\ up = "up" /\ id \in due \cap DOMAIN AuctionsMap
  /\ LET s == Settlement(AuctionsMap[id], mAitems)
         rows == Rows(s.letters)
     IN  /\ SendMailTo(mails, mMitems, rows)
         /\ Commit(<<[NoWrites EXCEPT !.mail = rows, !.spent = s.fee]>>)
  /\ Forget(id)
  /\ UNCHANGED playerVars

\* One turn of the loop of AuctionHouseObject::Update: the ids are read from
\* the database with a synchronous query, the auctions are those of memory.
AuctionUpdate(id) ==
  /\ up = "up" /\ id \in due \cap DOMAIN db.auc \cap DOMAIN AuctionsMap
  /\ LET s == Settlement(AuctionsMap[id], mAitems)
         rows == Rows(s.letters)
     IN  /\ SendMailTo(mails, mMitems, rows)
         /\ Commit(<<[NoWrites EXCEPT !.mail = rows, !.unauc = {id}, !.spent = s.fee]>>)
  /\ Forget(id)
  /\ UNCHANGED playerVars

-----------------------------------------------------------------------------
(* The server starts: World::SetInitialWorldSettings.                      *)

HighestId(table) == IF DOMAIN table = {} THEN 0 ELSE Max(DOMAIN table)

\* SetHighestGuids, and the query of DeleteExpiredAuctionsAtStartup.
StartServer ==
  /\ up = "down"
  /\ up' = "starting"
  /\ auctionId' = HighestId(db.auc) + 1
  /\ mailId' = HighestId(db.mail) + 1
  /\ expired' = due \cap DOMAIN db.auc
  /\ UNCHANGED <<db, queue, crashes, playerVars, mailsLoaded, mails, mMitems, AuctionsMap,
                 mAitems, due>>

\* One turn of the loop of DeleteExpiredAuctionsAtStartup, which runs before
\* LoadAuctionItems.
DeleteExpired(id) ==
  /\ up = "starting" /\ id \in expired
  /\ LET s == Settlement(db.auc[id], mAitems)
         rows == Rows(s.letters)
     IN  /\ SendMailTo(mails, mMitems, rows)
         /\ Commit(<<[NoWrites EXCEPT !.mail = rows, !.unauc = {id}, !.spent = s.fee]>>)
  /\ expired' = expired \ {id}
  /\ UNCHANGED <<playerVars, AuctionsMap, mAitems, auctionId, due>>

\* LoadAuctionItems and LoadAuctions, and the world is open.
LoadAuctions ==
  /\ up = "starting" /\ expired = {}
  /\ up' = "up"
  /\ AuctionsMap' = db.auc
  /\ mAitems' = {db.auc[id].item : id \in DOMAIN db.auc}
  /\ UNCHANGED <<db, queue, crashes, playerVars, mailVars, auctionId, due, expired>>

\* The process ends; only the database and the clock remain.
CrashAuctions ==
  /\ DueAtStart \/ due \cap DOMAIN db.auc = {}
  /\ StopServer
  /\ mailsLoaded' = {}
  /\ mails' = [p \in Players |-> NoRows]
  /\ mMitems' = [p \in Players |-> {}]
  /\ mailId' = 1
  /\ AuctionsMap' = NoRows
  /\ mAitems' = {}
  /\ auctionId' = 1
  /\ due' = due \cap DOMAIN db.auc
  /\ expired' = {}
=============================================================================
