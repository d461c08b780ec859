------------------------------ MODULE MCEconomy -----------------------------
(* The economy on small instances.                                         *)
EXTENDS Economy

CONSTANTS p1, p2, p3, i1

MCMoney == p1 :> 2 @@ p2 :> 3 @@ p3 :> 4
MCOwner == i1 :> p1

Trades == [players |-> {p1, p2}, leavers |-> {p1, p2}, queue |-> 2, mails |-> 0, auctions |-> 0, steps |-> {"trade", "crash"}]
Letters == [players |-> {p1, p2}, leavers |-> {p1, p2}, queue |-> 2, mails |-> 2, auctions |-> 0, steps |-> {"crash", "anymail"}]
Auctions == [players |-> {p1, p2}, leavers |-> {p2}, queue |-> 1, mails |-> 0, auctions |-> 1, steps |-> {"crash", "discard"}]
Bids == [players |-> {p1, p2, p3}, leavers |-> {p2}, queue |-> 1, mails |-> 0, auctions |-> 1, steps |-> {}]
Mixed == [players |-> {p1, p2}, leavers |-> {}, queue |-> 1, mails |-> 1, auctions |-> 0, steps |-> {"trade"}]

MCBounds == {Trades, Letters, Auctions, Bids, Mixed}
=============================================================================
