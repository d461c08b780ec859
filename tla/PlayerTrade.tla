----------------------------- MODULE PlayerTrade ----------------------------
(***************************************************************************)
(* The trade window: TradeData and the handlers of TradeHandler.cpp.  An   *)
(* offer is an amount of gold and the item of one trade slot; the slot     *)
(* that is shown but not traded, and the spells cast on its item, are left *)
(* out.  Why a trade cannot begin (distance, death, faction, level...) is  *)
(* not told apart: HandleInitiateTrade may take place or not.              *)
(***************************************************************************)
EXTENDS CharacterStore

CONSTANT
  Offers      \* the amounts of gold that players offer

ASSUME TradeAssumption == Offers \subseteq Nat

VARIABLES
  m_trade,    \* per player: his TradeData, or NoTrade
  terms       \* per player: both offers as they were when he accepted (ghost)

tradeVars == <<m_trade, terms>>

\* The constructor of TradeData.
TradeData(trader) == [trader |-> trader, money |-> 0, item |-> Nothing, accepted |-> FALSE]
NoTrade == TradeData(Nobody)
NoTerms == <<>>

TradeInit ==
  /\ m_trade = [p \in Players |-> NoTrade]
  /\ terms = [p \in Players |-> NoTerms]

Trading(p) == m_trade[p] # NoTrade
Trader(p) == m_trade[p].trader

\* What p gives and what he gets.
TermsOf(p) ==
  LET mine == m_trade[p]  his == m_trade[Trader(p)]
  IN  <<mine.money, mine.item, his.money, his.item>>

\* TradeData::GetItem: the item that is offered, if p still has it.
GetItem(p) == {m_trade[p].item} \cap bags[p]

\* SetAccepted for each player of who; terms records what p agrees to.
SetAccepted(who, state) ==
  /\ m_trade' = [p \in Players |->
       IF p \in who THEN [m_trade[p] EXCEPT !.accepted = state] ELSE m_trade[p]]
  /\ terms' = [p \in Players |->
       IF p \notin who THEN terms[p] ELSE IF state THEN TermsOf(p) ELSE NoTerms]

-----------------------------------------------------------------------------
(* Handlers.                                                               *)

\* HandleInitiateTradeOpcode.
HandleInitiateTrade(p, q) ==
  /\ In(p) /\ In(q) /\ p # q
  /\ ~Trading(p) /\ ~Trading(q)
  /\ m_trade' = [m_trade EXCEPT ![p] = TradeData(q), ![q] = TradeData(p)]
  /\ UNCHANGED <<terms, storeVars, playerVars>>

\* Seeded fault: only the player who changes his offer has to accept again.
SetOfferKeepsHis(p, gold, item) ==
  /\ <<gold, item>> # <<m_trade[p].money, m_trade[p].item>>
  /\ m_trade' = [m_trade EXCEPT
       ![p].money = gold, ![p].item = item, ![p].accepted = FALSE]
  /\ terms' = [terms EXCEPT ![p] = NoTerms]
  /\ UNCHANGED <<storeVars, playerVars>>

\* TradeData::SetMoney and SetItem: nothing if the offer stays as it is;
\* else both players have to accept again.
SetOffer(p, gold, item) ==
  /\ <<gold, item>> # <<m_trade[p].money, m_trade[p].item>>
  /\ m_trade' = [m_trade EXCEPT
       ![p].money = gold, ![p].item = item, ![p].accepted = FALSE,
       ![Trader(p)].accepted = FALSE]
  /\ terms' = [terms EXCEPT ![p] = NoTerms, ![Trader(p)] = NoTerms]
  /\ UNCHANGED <<storeVars, playerVars>>

\* HandleSetTradeGoldOpcode: any amount, it is checked when he accepts.
HandleSetTradeGold(p, gold) ==
  In(p) /\ Trading(p) /\ SetOffer(p, gold, m_trade[p].item)

\* HandleSetTradeItemOpcode and HandleClearTradeItemOpcode.
HandleSetTradeItem(p, i) ==
  /\ In(p) /\ Trading(p) /\ i \in bags[p] \cup {Nothing}
  /\ SetOffer(p, m_trade[p].money, i)

\* The two inventories and purses after the trade of p and q, in the order
\* of the code: what is given is taken away first.
AfterTrade(p, q) ==
  [bags |-> (bags[p] \ GetItem(p)) \cup GetItem(q),
   money |-> ModifyMoney(ModifyMoney(money[p], -m_trade[p].money), m_trade[q].money)]

\* The gold of p that is above the limit after the trade with q.
LostAtLimit(p, q) == Above(money[p] - m_trade[p].money + m_trade[q].money, MaxMoney)

\* The items change hands, then the gold; the trade is over, and one
\* transaction saves inventory and gold of both.
Exchange(p, q) ==
  LET mine == AfterTrade(p, q)  his == AfterTrade(q, p)
  IN  /\ bags' = [bags EXCEPT ![p] = mine.bags, ![q] = his.bags]
      /\ money' = [money EXCEPT ![p] = mine.money, ![q] = his.money]
      /\ m_trade' = [m_trade EXCEPT ![p] = NoTrade, ![q] = NoTrade]
      /\ terms' = [terms EXCEPT ![p] = NoTerms, ![q] = NoTerms]
      /\ Commit(<<[NoWrites EXCEPT
           !.money = Insert(GoldRow(q, his.money), GoldRow(p, mine.money)),
           !.inv = [i \in GetItem(p) \cup GetItem(q) |->
                      IF i \in GetItem(p) THEN q ELSE p],
           !.spent = LostAtLimit(p, q) + LostAtLimit(q, p)]>>)
      /\ UNCHANGED <<online, fetched>>

\* HandleAcceptTradeOpcode.  Whether the items may still be traded, and
\* whether they fit into the bags, is not told apart.
HandleAcceptTrade(p) ==
  /\ In(p) /\ Trading(p) /\ Trading(Trader(p))
  /\ LET q == Trader(p)
         afford(x) == HasEnoughMoney(x, m_trade[x].money)
         items == GetItem(p) \cup GetItem(q) # {}
         checked == afford(p) /\ afford(q)
         same == UNCHANGED <<storeVars, playerVars>>
     IN  \/ ~afford(p) /\ SetAccepted({p}, FALSE) /\ same
         \/ /\ afford(p) /\ ~afford(q)
            /\ m_trade' = [m_trade EXCEPT ![p].accepted = TRUE, ![q].accepted = FALSE]
            /\ terms' = [terms EXCEPT ![p] = TermsOf(p), ![q] = NoTerms]
            /\ same
         \/ checked /\ (items \/ ~m_trade[q].accepted) /\ SetAccepted({p}, TRUE) /\ same
         \/ checked /\ m_trade[q].accepted /\ items /\ SetAccepted({p, q}, FALSE) /\ same
         \/ checked /\ m_trade[q].accepted /\ Exchange(p, q)

\* HandleUnacceptTradeOpcode.
HandleUnacceptTrade(p) ==
  /\ In(p) /\ Trading(p)
  /\ SetAccepted({p}, FALSE)
  /\ UNCHANGED <<storeVars, playerVars>>

\* Player::TradeCancel: also part of the logout.
TradeCancel(p) ==
  LET over == IF Trading(p) THEN {p, Trader(p)} ELSE {}
  IN  /\ m_trade' = [x \in Players |-> IF x \in over THEN NoTrade ELSE m_trade[x]]
      /\ terms' = [x \in Players |-> IF x \in over THEN NoTerms ELSE terms[x]]

\* HandleCancelTradeOpcode.
HandleCancelTrade(p) ==
  /\ In(p) /\ Trading(p) /\ TradeCancel(p)
  /\ UNCHANGED <<storeVars, playerVars>>
=============================================================================
