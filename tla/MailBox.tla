------------------------------- MODULE MailBox ------------------------------
(***************************************************************************)
(* Mail: MailDraft::SendMailTo and the handlers of the mail box.  A mail   *)
(* is a row of the database; the box of a player is read into memory when  *)
(* it is first opened and kept up to date by SendMailTo from then on.      *)
(*                                                                         *)
(* A mail is [from, to, money, cod, item]; from is Nobody for the mails of *)
(* the auction house.  The items of the mails in memory are kept apart, in *)
(* mMitems, one map for the whole box.  Subject, body, stationery, times   *)
(* and read marks are left out (a player takes from a mail at some time    *)
(* after its delivery), and so is HandleMailDelete.  The has_items mark of *)
(* a mail is left out as well: where it is false no row of mail_items      *)
(* names the mail.                                                         *)
(***************************************************************************)
EXTENDS CharacterStore

CONSTANTS
  Amounts,    \* the amounts of gold that players choose
  Postage,    \* 30 copper a mail
  Word,       \* 2^32, the values of a uint32
  GameMasters \* players with isGameMaster

ASSUME MailAssumption ==
  /\ Word \in Nat /\ 0 < Word /\ 2 * Word <= LongWord
  /\ Postage \in Nat /\ 2 * Postage <= Word
  /\ Amounts \subseteq 0..(LongWord - 1) /\ GameMasters \subseteq Players

VARIABLES
  mailsLoaded,  \* players with m_mailsLoaded
  mails,        \* per player: m_mail, by id
  mMitems,      \* per player: the items of these mails
  mailId        \* ObjectMgr::_mailId

mailVars == <<mailsLoaded, mails, mMitems, mailId>>

MailInit ==
  /\ mailsLoaded = {}
  /\ mails = [p \in Players |-> NoRows]
  /\ mMitems = [p \in Players |-> {}]
  /\ mailId = 1

Letter(from, to, gold, cod, item) ==
  [from |-> from, to |-> to, money |-> gold, cod |-> cod, item |-> item]

\* The rows of table that are addressed to p.
MailOf(table, p) == Restrict(table, {m \in DOMAIN table : table[m].to = p})

\* The rows of mail that a sequence of letters becomes: GenerateMailID.
Rows(letters) ==
  [m \in mailId..(mailId + Len(letters) - 1) |-> letters[m - mailId + 1]]

\* The items that the mails of table carry.
ItemsOf(table) == {table[m].item : m \in DOMAIN table} \ {Nothing}

\* What _SaveMail writes for mail m, which is now row.
SavedMail(m, row) == OneRow(m, [money |-> row.money % Word, cod |-> row.cod % Word])

\* SendMailTo for these rows, on the mail boxes box with the items hold: a
\* receiver who has his mails in memory gets the new one there too.
SendMailTo(box, hold, rows) ==
  /\ mailId' = mailId + Cardinality(DOMAIN rows)
  /\ mails' = [p \in Players |->
       IF p \in mailsLoaded THEN Insert(box[p], MailOf(rows, p)) ELSE box[p]]
  /\ mMitems' = [p \in Players |->
       IF p \in mailsLoaded THEN hold[p] \cup ItemsOf(MailOf(rows, p)) ELSE hold[p]]
  /\ UNCHANGED mailsLoaded

-----------------------------------------------------------------------------
(* Handlers.                                                               *)

\* HandleSendMail: p sends gold and at most one item to q, perhaps cash on
\* delivery.  A game master may send gold that he does not have.
HandleSendMail(p, q, gold, cod, i) ==
  /\ In(p) /\ q # p
  /\ i \in bags[p] \cup {Nothing}
  /\ LET reqmoney == (Postage + gold) % LongWord
         rows == Rows(<<Letter(p, q, gold, cod % Word, i)>>)
     IN  /\ HasEnoughMoney(p, reqmoney) \/ p \in GameMasters
         /\ SendMailTo(mails, mMitems, rows)
         /\ \E d \in Minus(reqmoney, LongWord) :
              LET rest == ModifyMoney(money[p], d)
              IN  /\ money' = [money EXCEPT ![p] = rest]
                  /\ Commit(<<[NoWrites EXCEPT
                       !.money = GoldRow(p, rest), !.mail = rows,
                       !.inv = IF i = Nothing THEN NoRows ELSE OneRow(i, Nobody),
                       !.spent = Postage - Above(Postage + gold, money[p])]>>)
  /\ bags' = [bags EXCEPT ![p] = @ \ {i}]
  /\ UNCHANGED <<online, fetched>>

\* HandleGetMailList: _LoadMail reads the mails with a synchronous query.
HandleGetMailList(p) ==
  /\ In(p) /\ p \notin mailsLoaded
  /\ mails' = [mails EXCEPT ![p] = MailOf(db.mail, p)]
  /\ mMitems' = [mMitems EXCEPT ![p] = @ \cup ItemsOf(MailOf(db.mail, p))]
  /\ mailsLoaded' = mailsLoaded \cup {p}
  /\ UNCHANGED <<mailId, db, queue, up, crashes, online, fetched, money, bags>>

\* Seeded fault: the mail is not saved with the money.
HandleMailTakeMoneyUnsaved(p, m, asked) ==
  /\ In(p) /\ m \in DOMAIN mails[p]
  /\ asked > 0 => asked = mails[p][m].money
  /\ LET sum == ModifyMoney(money[p], Signed(asked, LongWord))
     IN  /\ (money[p] + asked) % LongWord <= MaxMoney
         /\ money' = [money EXCEPT ![p] = sum]
         /\ mails' = [mails EXCEPT ![p][m].money = 0]
         /\ Commit(<<[NoWrites EXCEPT !.money = GoldRow(p, sum)]>>)
  /\ UNCHANGED <<online, fetched, bags, mailsLoaded, mMitems, mailId>>

\* HandleMailTakeMoney: p asks for the amount the mail holds, or for nothing
\* and gives it up.  SaveGoldToDB and _SaveMail are in one transaction.
HandleMailTakeMoney(p, m, asked) ==
  /\ In(p) /\ m \in DOMAIN mails[p]
  /\ asked > 0 => asked = mails[p][m].money
  /\ LET old == mails[p][m]
         row == [old EXCEPT !.money = 0]
         sum == ModifyMoney(money[p], Signed(asked, LongWord))
     IN  /\ (money[p] + asked) % LongWord <= MaxMoney
         /\ money' = [money EXCEPT ![p] = sum]
         /\ mails' = [mails EXCEPT ![p][m] = row]
         /\ Commit(<<[NoWrites EXCEPT
                        !.money = GoldRow(p, sum), !.mailSet = SavedMail(m, row),
                        !.spent = old.money - asked]>>)
  /\ UNCHANGED <<online, fetched, bags, mailsLoaded, mMitems, mailId>>

\* HandleMailTakeItem: p takes item i of his box under the mail m, listed
\* there or not; the price of m, if any, goes to its sender by mail.
HandleMailTakeItem(p, m, i) ==
  /\ In(p) /\ m \in DOMAIN mails[p] /\ i \in mMitems[p]
  /\ LET old == mails[p][m]
         row == [old EXCEPT !.cod = 0, !.item = IF @ = i THEN Nothing ELSE @]
         rows == IF old.cod > 0 THEN Rows(<<Letter(p, old.from, old.cod, 0, Nothing)>>)
                                ELSE NoRows
     IN  /\ HasEnoughMoney(p, old.cod)
         /\ SendMailTo([mails EXCEPT ![p][m] = row], [mMitems EXCEPT ![p] = @ \ {i}], rows)
         /\ \E d \in Minus(old.cod, Word) :
              LET rest == ModifyMoney(money[p], d)
              IN  /\ money' = [money EXCEPT ![p] = rest]
                  /\ Commit(<<[NoWrites EXCEPT
                       !.money = GoldRow(p, rest), !.inv = OneRow(i, p), !.mail = rows,
                       !.mailSet = SavedMail(m, row), !.unitem = {i}]>>)
  /\ bags' = [bags EXCEPT ![p] = @ \cup {i}]
  /\ UNCHANGED <<online, fetched>>

\* HandleMailReturnToSender: what is left in the mail of a player goes back
\* in a new mail, without a price; a mail of the auction house is deleted
\* with what it carries.
HandleMailReturnToSender(p, m) ==
  /\ In(p) /\ m \in DOMAIN mails[p]
  /\ LET old == mails[p][m]
         box == [mails EXCEPT ![p] = Delete(@, {m})]
         item == IF old.item \in mMitems[p] THEN old.item ELSE Nothing
         rows == Rows(<<Letter(p, old.from, old.money, 0, item)>>)
     IN  \/ /\ old.from # Nobody
            /\ SendMailTo(box, [mMitems EXCEPT ![p] = @ \ {old.item}], rows)
            /\ Commit(<<[NoWrites EXCEPT !.unmail = {m}, !.mail = rows]>>)
         \/ /\ old.from = Nobody
            /\ SendMailTo(box, mMitems, NoRows)
            /\ Commit(<<[NoWrites EXCEPT !.unmail = {m}, !.spent = old.money,
                                         !.thrown = {old.item} \ {Nothing}]>>)
  /\ UNCHANGED playerVars
=============================================================================
