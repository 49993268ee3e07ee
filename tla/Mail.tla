-------------------------------- MODULE Mail --------------------------------
(* The mail service (apps/mailserver) in front of its MySQL tables, and the *)
(* mail handlers of the gateway sessions (apps/gateway/session/mail.go) that *)
(* move items and money between a worldserver and the mail service.  Nothing *)
(* here is one transaction: a handler is a sequence of calls, and each of    *)
(* them may fail or be overtaken by the ticker that returns expired mail.    *)
EXTENDS Integers, Sequences, FiniteSets, SequencesExt

CONSTANTS
  Players,     \* characters, each with one gateway session
  Items,       \* item instances
  FirstBag,    \* the items each player starts with
  FirstMoney,  \* the copper each player starts with
  Parcels,     \* what players send: records [from, to, items, money, cod]
  NoOne,       \* GUID 0: no sender or receiver
  MaxMailInputs, \* bound: mail packets of all clients together
  MaxFaults    \* bound: failing calls and crashes

ASSUME MailAssumption ==
  /\ NoOne \notin Players
  /\ FirstBag \in [Players -> SUBSET Items]
  /\ \A p, q \in Players : p # q => FirstBag[p] \cap FirstBag[q] = {}
  /\ FirstMoney \in Nat /\ MaxMailInputs \in Nat /\ MaxFaults \in Nat
  /\ \A w \in Parcels : {w.from, w.to} \subseteq Players /\ w.items \subseteq Items /\ w.money \in Nat /\ w.cod \in Nat

VARIABLES
  wallet,    \* worldserver: money of each character
  bag,       \* worldserver: items of each character
  mails,     \* table mail: a row or Gone for every id handed out so far
  attached,  \* table mail_items: the mail each item is attached to, 0 if none
  instances, \* table item_instance: the items that have a row
  calls,     \* the handler each session is in
  passed,    \* the expiry times in the past: <<mail, returned>>
  cleaner,   \* the run of ProcessExpiredMails
  spent,     \* money that left the game: postage, cuts, deleted with a mail
  destroyed, \* items deleted with their mail
  exposed,   \* what a failure or a race may have lost or doubled
  inputs, faults

mailVars == <<wallet, bag, mails, attached, instances, calls, passed, cleaner, spent, destroyed, exposed, inputs, faults>>

-----------------------------------------------------------------------------
(* Rows                                                                     *)

Gone == [to |-> NoOne, from |-> NoOne, money |-> 0, cod |-> 0, hasItems |-> FALSE,
         read |-> FALSE, returned |-> FALSE, gone |-> TRUE]

NewMail(from, to, money, cod, items) ==
  [to |-> to, from |-> from, money |-> money, cod |-> cod, hasItems |-> items # {},
   read |-> FALSE, returned |-> FALSE, gone |-> FALSE]

Ids == DOMAIN mails
Exists(m) == m \in Ids /\ ~mails[m].gone
Attachments(m) == {x \in Items : attached[x] = m}

\* The rows of a mail, and of its items, can be scanned.
MailByID(m) == Exists(m) /\ Attachments(m) \subseteq instances

\* One transaction; mail_items has one row per item.
Accepts(mail, items) == mail.to # NoOne /\ \A x \in items : attached[x] = 0
AddMail(mail, items) ==
  /\ mails' = Append(mails, mail)
  /\ attached' = [x \in Items |-> IF x \in items THEN Len(mails) + 1 ELSE attached[x]]
  /\ instances' = instances \cup items

\* The statement writes every column but has_items.
UpdateMailByID(m, row) ==
  mails' = IF Exists(m) THEN [mails EXCEPT ![m] = [row EXCEPT !.hasItems = mails[m].hasItems]] ELSE mails

Overtaken(m, row) == IF Exists(m) /\ mails[m] # row THEN {"item", "money"} ELSE {}

-----------------------------------------------------------------------------
(* Handlers of a session: one at a time for each player                     *)

Idle == [at |-> "idle", mail |-> 0, items |-> {}, cash |-> 0, cod |-> 0, to |-> NoOne, row |-> Gone]

Resting == [at |-> "resting", read |-> <<>>, todo |-> {}, doomed |-> {}, items |-> {}]

Free(p) == calls[p].at = "idle"
At(p, step) == calls[p].at = step
Goto(p, step) == calls' = [calls EXCEPT ![p].at = step]
Done(p) == calls' = [calls EXCEPT ![p] = Idle]

Packet(p) == Free(p) /\ inputs < MaxMailInputs /\ inputs' = inputs + 1
Expose(what) == exposed' = exposed \cup what

\* What no handler of a session changes but the deletion of a mail.
backOffice == <<passed, cleaner, destroyed>>
postOffice == <<mails, attached, instances, backOffice>>

\* What is lost or doubled when the call a handler is in fails.
AtRisk(c) ==
  (IF \/ c.at \in {"payPostage", "post"} /\ c.items # {}
      \/ c.at \in {"removeItem", "deleteItem"} THEN {"item"} ELSE {})
  \cup
  (IF \/ c.at \in {"post", "credit", "sendCod"}
      \/ c.at \in {"addItem", "removeItem", "deleteItem"} /\ c.cod > 0 THEN {"money"} ELSE {})

const_costForOneMail == 30
\* The cost is multiplied in uint8, the type of the number of attachments.
Postage(n) == IF n > 0 THEN (const_costForOneMail * n) % 256 ELSE const_costForOneMail

HandleSendMail(p, w) ==
  /\ Packet(p) /\ w.from = p
  /\ Postage(Cardinality(w.items)) + w.money <= wallet[p]
  /\ w.items \subseteq bag[p]
  /\ bag' = [bag EXCEPT ![p] = @ \ w.items]
  /\ calls' = [calls EXCEPT ![p] = [Idle EXCEPT !.at = "payPostage", !.items = w.items,
                                                !.cash = w.money, !.cod = w.cod, !.to = w.to]]
  /\ UNCHANGED <<wallet, postOffice, spent, exposed, faults>>

PayPostage(p) ==
  /\ At(p, "payPostage")
  /\ LET postage == Postage(Cardinality(calls[p].items)) IN
     /\ wallet' = [wallet EXCEPT ![p] = @ - postage - calls[p].cash]
     /\ spent' = spent + postage
  /\ Goto(p, "post")
  /\ UNCHANGED <<bag, postOffice, exposed, inputs, faults>>

SendMail(p) ==
  /\ At(p, "post")
  /\ LET c == calls[p]
         mail == NewMail(p, c.to, c.cash, c.cod, c.items) IN
     IF Accepts(mail, c.items)
     THEN AddMail(mail, c.items) /\ UNCHANGED exposed
     ELSE Expose(AtRisk(c)) /\ UNCHANGED <<mails, attached, instances>>
  /\ Done(p)
  /\ UNCHANGED <<wallet, bag, backOffice, spent, inputs, faults>>

HandleMailTakeMoney(p, m) ==
  /\ Packet(p)
  /\ Exists(m) /\ mails[m].to = p
  /\ calls' = [calls EXCEPT ![p] = [Idle EXCEPT !.at = "clearMoney", !.mail = m, !.row = mails[m]]]
  /\ UNCHANGED <<wallet, bag, postOffice, spent, exposed, faults>>

\* Mutant: the number of changed rows is not looked at.
RemoveMailMoneyForPlayer_Unchecked(p) ==
  /\ At(p, "clearMoney")
  /\ LET c == calls[p]
         row == [c.row EXCEPT !.money = 0] IN
     /\ UpdateMailByID(c.mail, row)
     /\ Expose(Overtaken(c.mail, c.row))
     /\ IF c.row.money > 0 THEN Goto(p, "credit") ELSE Done(p)
  /\ UNCHANGED <<wallet, bag, attached, instances, backOffice, spent, inputs, faults>>

\* MySQL counts the rows it changed: no change is an error.
RemoveMailMoneyForPlayer(p) ==
  /\ At(p, "clearMoney")
  /\ LET c == calls[p]
         row == [c.row EXCEPT !.money = 0]
         changed == Exists(c.mail) /\ [mails[c.mail] EXCEPT !.hasItems = row.hasItems] # row IN
     /\ UpdateMailByID(c.mail, row)
     /\ Expose(IF changed THEN Overtaken(c.mail, c.row) ELSE {})
     /\ IF changed /\ c.row.money > 0 THEN Goto(p, "credit") ELSE Done(p)
  /\ UNCHANGED <<wallet, bag, attached, instances, backOffice, spent, inputs, faults>>

TakeMoney(p) ==
  /\ At(p, "credit")
  /\ wallet' = [wallet EXCEPT ![p] = @ + calls[p].row.money]
  /\ Done(p)
  /\ UNCHANGED <<bag, postOffice, spent, exposed, inputs, faults>>

HandleMailTakeItem(p, m, x) ==
  /\ Packet(p)
  /\ MailByID(m) /\ x \in Attachments(m) /\ mails[m].to = p
  /\ mails[m].cod <= wallet[p]
  /\ calls' = [calls EXCEPT ![p] = [Idle EXCEPT !.at = IF mails[m].cod > 0 THEN "payCod" ELSE "addItem",
                                                !.mail = m, !.items = {x}, !.cod = mails[m].cod]]
  /\ UNCHANGED <<wallet, bag, postOffice, spent, exposed, faults>>

PayCashOnDelivery(p) ==
  /\ At(p, "payCod")
  /\ wallet' = [wallet EXCEPT ![p] = @ - calls[p].cod]
  /\ Goto(p, "addItem")
  /\ UNCHANGED <<bag, postOffice, spent, exposed, inputs, faults>>

AddExistingItemToPlayer(p) ==
  /\ At(p, "addItem")
  /\ LET c == calls[p] IN
     /\ bag' = [bag EXCEPT ![p] = @ \cup c.items]
     /\ Expose(IF mails[c.mail].to = p /\ c.items \subseteq Attachments(c.mail) THEN {} ELSE {"item", "money"})
  /\ Goto(p, "removeItem")
  /\ UNCHANGED <<wallet, postOffice, spent, inputs, faults>>

\* A full bag ends the handler after the cash on delivery was paid.
NoSpace(p) ==
  /\ At(p, "addItem")
  /\ Expose(IF calls[p].cod > 0 THEN {"money"} ELSE {})
  /\ Done(p)
  /\ UNCHANGED <<wallet, bag, postOffice, spent, inputs, faults>>

RemoveMailItem(p) ==
  /\ At(p, "removeItem")
  /\ LET c == calls[p] IN
     IF MailByID(c.mail) /\ mails[c.mail].to = p
     THEN /\ calls' = [calls EXCEPT ![p].at = "deleteItem", ![p].row = mails[c.mail]]
          /\ UNCHANGED exposed
     ELSE Done(p) /\ Expose({"item", "money"})
  /\ UNCHANGED <<wallet, bag, postOffice, spent, inputs, faults>>

\* Mutant: the row of mail_items stays.
DeleteMailItem_Kept(p) ==
  /\ At(p, "deleteItem")
  /\ LET c == calls[p] IN
     IF c.items \subseteq Attachments(c.mail)
     THEN /\ attached' = attached
          /\ IF c.cod > 0 /\ c.row.cod > 0 THEN Goto(p, "sendCod")
             ELSE IF c.row.hasItems /\ Attachments(c.mail) = c.items THEN Goto(p, "update")
             ELSE Done(p)
          /\ UNCHANGED exposed
     ELSE /\ Done(p)
          /\ Expose({"item", "money"})
          /\ UNCHANGED attached
  /\ UNCHANGED <<wallet, bag, mails, instances, backOffice, spent, inputs, faults>>

DeleteMailItem(p) ==
  /\ At(p, "deleteItem")
  /\ LET c == calls[p] IN
     IF c.items \subseteq Attachments(c.mail)
     THEN /\ attached' = [x \in Items |-> IF x \in c.items THEN 0 ELSE attached[x]]
          /\ IF c.cod > 0 /\ c.row.cod > 0 THEN Goto(p, "sendCod")
             ELSE IF c.row.hasItems /\ Attachments(c.mail) = c.items THEN Goto(p, "update")
             ELSE Done(p)
          /\ UNCHANGED exposed
     ELSE /\ Done(p)
          /\ Expose({"item", "money"})
          /\ UNCHANGED attached
  /\ UNCHANGED <<wallet, bag, mails, instances, backOffice, spent, inputs, faults>>

SendCashOnDelivery(p) ==
  /\ At(p, "sendCod")
  /\ LET c == calls[p]
         mail == NewMail(c.row.to, c.row.from, c.row.cod, 0, {}) IN
     /\ AddMail(mail, {})
     /\ calls' = [calls EXCEPT ![p].at = "update"]
  /\ UNCHANGED <<wallet, bag, backOffice, spent, exposed, inputs, faults>>

\* The row as it was read, without the cash on delivery that was sent.
UpdateMailWithoutAttachments(p) ==
  /\ At(p, "update")
  /\ LET c == calls[p]
         row == IF c.cod > 0 THEN [c.row EXCEPT !.cod = 0] ELSE c.row IN
     /\ UpdateMailByID(c.mail, row)
     /\ Expose(Overtaken(c.mail, c.row))
  /\ Done(p)
  /\ UNCHANGED <<wallet, bag, attached, instances, backOffice, spent, inputs, faults>>

HandleDeleteMail(p, m) ==
  /\ Packet(p)
  /\ MailByID(m) /\ mails[m].cod = 0 /\ mails[m].to = p
  /\ calls' = [calls EXCEPT ![p] = [Idle EXCEPT !.at = "deleteMail", !.mail = m]]
  /\ UNCHANGED <<wallet, bag, postOffice, spent, exposed, faults>>

\* DeleteMail reads the mail again.
ReadMailToDelete(p) ==
  /\ At(p, "deleteMail")
  /\ IF MailByID(calls[p].mail)
     THEN calls' = [calls EXCEPT ![p].at = IF Attachments(calls[p].mail) = {} THEN "deleteRow" ELSE "deleteMailItems",
                                 ![p].items = Attachments(calls[p].mail)]
     ELSE Done(p)
  /\ UNCHANGED <<wallet, bag, postOffice, spent, exposed, inputs, faults>>

DeleteMailItemsWithIDs(items) ==
  /\ attached' = [x \in Items |-> IF x \in items THEN 0 ELSE attached[x]]
  /\ destroyed' = destroyed \cup items

DeleteMailsWithoutAttachments(ids) ==
  /\ mails' = [m \in Ids |-> IF m \in ids THEN Gone ELSE mails[m]]
  /\ spent' = spent + FoldSet(LAMBDA m, sum : sum + mails[m].money, 0, ids)

\* The items as they were read: somebody may have taken them meanwhile.
DeleteMailItems(p) ==
  /\ At(p, "deleteMailItems")
  /\ DeleteMailItemsWithIDs(calls[p].items)
  /\ Expose(IF calls[p].items \subseteq Attachments(calls[p].mail) THEN {} ELSE {"item"})
  /\ Goto(p, "deleteInstances")
  /\ UNCHANGED <<wallet, bag, mails, instances, passed, cleaner, spent, inputs, faults>>

DeleteInstances(p) ==
  /\ At(p, "deleteInstances")
  /\ instances' = instances \ calls[p].items
  /\ Goto(p, "deleteRow")
  /\ UNCHANGED <<wallet, bag, mails, attached, backOffice, spent, exposed, inputs, faults>>

DeleteMail(p) ==
  /\ At(p, "deleteRow")
  /\ DeleteMailsWithoutAttachments({calls[p].mail})
  /\ Done(p)
  /\ UNCHANGED <<wallet, bag, attached, instances, backOffice, exposed, inputs, faults>>

HandleMailMarksAsRead(p, m) ==
  /\ Packet(p)
  /\ MailByID(m)
  /\ calls' = [calls EXCEPT ![p] = [Idle EXCEPT !.at = "markRead", !.mail = m, !.row = mails[m]]]
  /\ UNCHANGED <<wallet, bag, postOffice, spent, exposed, faults>>

\* The whole mask of flags is written, if the player is still the receiver.
MarkMailAsReadForPlayer(p) ==
  /\ At(p, "markRead")
  /\ LET c == calls[p] IN
     mails' = IF Exists(c.mail) /\ mails[c.mail].to = p
              THEN [mails EXCEPT ![c.mail].read = TRUE, ![c.mail].returned = c.row.returned] ELSE mails
  /\ Done(p)
  /\ UNCHANGED <<wallet, bag, attached, instances, backOffice, spent, exposed, inputs, faults>>

\* A call returns an error or times out: the handler stops where it is.
HandlerFails(p) ==
  /\ calls[p].at \notin {"idle", "auction"}
  /\ faults < MaxFaults /\ faults' = faults + 1
  /\ Expose(AtRisk(calls[p]))
  /\ Done(p)
  /\ UNCHANGED <<wallet, bag, postOffice, spent, inputs>>

-----------------------------------------------------------------------------
(* The list of mails: two queries                                           *)

HandleGetMailList(p) ==
  /\ Packet(p)
  /\ calls' = [calls EXCEPT ![p] = [Idle EXCEPT !.at = "listItems", !.cash = Cardinality({m \in Ids : mails[m].to = p})]]
  /\ UNCHANGED <<wallet, bag, postOffice, spent, exposed, faults>>

\* Items of a mail that came between the queries are shown with the first
\* mail of the list; if the list is empty, indexing it panics.
MailListForPlayer(p) ==
  /\ At(p, "listItems")
  /\ ~(calls[p].cash = 0 /\ \E x \in Items : attached[x] # 0 /\ mails[attached[x]].to = p)
  /\ Done(p)
  /\ UNCHANGED <<wallet, bag, postOffice, spent, exposed, inputs, faults>>

InMailService == {"post", "clearMoney", "removeItem", "deleteItem", "sendCod", "update", "deleteMail",
                  "deleteMailItems", "deleteInstances", "deleteRow", "markRead", "listItems"}

\* The process ends: every call it was serving fails.
Abort ==
  /\ calls' = [p \in Players |-> IF calls[p].at \in InMailService THEN Idle ELSE calls[p]]
  /\ Expose(UNION {IF calls[p].at \in InMailService THEN AtRisk(calls[p]) ELSE {} : p \in Players})
  /\ cleaner' = Resting
  /\ UNCHANGED <<wallet, bag, mails, attached, instances, passed, destroyed, spent, inputs>>

ListPanics(p) ==
  /\ At(p, "listItems")
  /\ calls[p].cash = 0 /\ \E x \in Items : attached[x] # 0 /\ mails[attached[x]].to = p
  /\ Abort /\ UNCHANGED faults

MailCrash ==
  /\ faults < MaxFaults /\ faults' = faults + 1
  /\ \/ cleaner.at # "resting" \/ \E p \in Players : calls[p].at \in InMailService
  /\ Abort

-----------------------------------------------------------------------------
(* MailsCleanupTicker                                                       *)

Expired(m) == Exists(m) /\ <<m, mails[m].returned>> \in passed

\* Time passes; a mail that was returned has a new expiry time.
MailExpires(m) ==
  /\ Exists(m) /\ ~Expired(m)
  /\ passed' = passed \cup {<<m, mails[m].returned>>}
  /\ UNCHANGED <<wallet, bag, mails, attached, instances, calls, cleaner, spent, destroyed, exposed, inputs, faults>>

Cleaning(step) == cleaner.at = step
NoSession == UNCHANGED <<wallet, bag, calls, passed, inputs, faults>>

ExpiredMails ==
  /\ Cleaning("resting")
  /\ \E m \in Ids : Expired(m)
  /\ cleaner' = [Resting EXCEPT !.at = "deletePlain", !.read = [m \in {n \in Ids : Expired(n)} |-> mails[m]], !.todo = {m \in Ids : Expired(m)}]
  /\ NoSession /\ UNCHANGED <<mails, attached, instances, destroyed, spent, exposed>>

Plain == {m \in cleaner.todo : cleaner.read[m].money = 0 /\ ~cleaner.read[m].hasItems}

DeletePlainMails ==
  /\ Cleaning("deletePlain")
  /\ DeleteMailsWithoutAttachments(Plain)
  /\ cleaner' = [cleaner EXCEPT !.at = "return", !.todo = @ \ Plain]
  /\ NoSession /\ UNCHANGED <<attached, instances, destroyed, exposed>>

\* Mutant: a returned mail is not marked.
ReturnMail_Unmarked(m) ==
  /\ Cleaning("return") /\ m \in cleaner.todo
  /\ LET row == cleaner.read[m] IN
     IF row.returned
     THEN /\ cleaner' = [cleaner EXCEPT !.todo = @ \ {m}, !.doomed = @ \cup {m}]
          /\ UNCHANGED <<mails, exposed>>
     ELSE /\ UpdateMailByID(m, [row EXCEPT !.to = row.from])
          /\ Expose(Overtaken(m, row))
          /\ cleaner' = [cleaner EXCEPT !.todo = @ \ {m}]
  /\ NoSession /\ UNCHANGED <<attached, instances, destroyed, spent>>

\* A mail goes back to its sender once; the cash on delivery stays.
ReturnMail(m) ==
  /\ Cleaning("return") /\ m \in cleaner.todo
  /\ LET row == cleaner.read[m] IN
     IF row.returned
     THEN /\ cleaner' = [cleaner EXCEPT !.todo = @ \ {m}, !.doomed = @ \cup {m}]
          /\ UNCHANGED <<mails, exposed>>
     ELSE /\ UpdateMailByID(m, [row EXCEPT !.returned = TRUE, !.to = row.from])
          /\ Expose(Overtaken(m, row))
          /\ cleaner' = [cleaner EXCEPT !.todo = @ \ {m}]
  /\ NoSession /\ UNCHANGED <<attached, instances, destroyed, spent>>

MailItemsIDsByMailIDs ==
  /\ Cleaning("return") /\ cleaner.todo = {}
  /\ cleaner' = IF cleaner.doomed = {} THEN Resting
                ELSE [cleaner EXCEPT !.at = "deleteInstances",
                                     !.items = {x \in Items : attached[x] \in cleaner.doomed}]
  /\ NoSession /\ UNCHANGED <<mails, attached, instances, destroyed, spent, exposed>>

DeleteItemsWithIDs ==
  /\ Cleaning("deleteInstances")
  /\ instances' = instances \ cleaner.items
  /\ Expose(IF \A x \in cleaner.items : attached[x] \in cleaner.doomed /\ \A p \in Players : x \notin bag[p]
            THEN {} ELSE {"item"})
  /\ cleaner' = [cleaner EXCEPT !.at = "deleteMailItems"]
  /\ NoSession /\ UNCHANGED <<mails, attached, destroyed, spent>>

DeleteReturnedMailItems ==
  /\ Cleaning("deleteMailItems")
  /\ DeleteMailItemsWithIDs(cleaner.items)
  /\ cleaner' = [cleaner EXCEPT !.at = "deleteMails"]
  /\ NoSession /\ UNCHANGED <<mails, instances, spent, exposed>>

DeleteReturnedMails ==
  /\ Cleaning("deleteMails")
  /\ DeleteMailsWithoutAttachments(cleaner.doomed)
  /\ cleaner' = Resting
  /\ NoSession /\ UNCHANGED <<attached, instances, destroyed, exposed>>

\* A statement fails: the rest waits for the next tick.
CleanerFails ==
  /\ cleaner.at # "resting"
  /\ faults < MaxFaults /\ faults' = faults + 1
  /\ cleaner' = Resting
  /\ UNCHANGED <<wallet, bag, mails, attached, instances, calls, passed, spent, destroyed, exposed, inputs>>

-----------------------------------------------------------------------------
\* bags: what the players have; used: how many of the faults have happened.
MailStart(bags, used) ==
  /\ wallet = [p \in Players |-> FirstMoney] /\ bag = bags
  /\ mails = <<>> /\ attached = [x \in Items |-> 0] /\ instances = UNION {bag[p] : p \in Players}
  /\ calls = [p \in Players |-> Idle] /\ passed = {} /\ cleaner = Resting
  /\ spent = 0 /\ destroyed = {} /\ exposed = {} /\ inputs = 0 /\ faults = used
MailInit == MailStart(FirstBag, 0)

MailInput(p) ==
  \/ \E w \in Parcels : HandleSendMail(p, w)
  \/ HandleGetMailList(p)
  \/ \E m \in Ids : \/ HandleMailTakeMoney(p, m) \/ HandleDeleteMail(p, m) \/ HandleMailMarksAsRead(p, m)
                     \/ \E x \in Items : HandleMailTakeItem(p, m, x)

MailStep(p) ==
  \/ PayPostage(p) \/ SendMail(p) \/ RemoveMailMoneyForPlayer(p) \/ TakeMoney(p)
  \/ PayCashOnDelivery(p) \/ AddExistingItemToPlayer(p) \/ NoSpace(p)
  \/ RemoveMailItem(p) \/ DeleteMailItem(p) \/ SendCashOnDelivery(p) \/ UpdateMailWithoutAttachments(p)
  \/ ReadMailToDelete(p) \/ DeleteMailItems(p) \/ DeleteInstances(p) \/ DeleteMail(p)
  \/ MarkMailAsReadForPlayer(p) \/ MailListForPlayer(p) \/ ListPanics(p)

CleanerStep ==
  \/ ExpiredMails \/ DeletePlainMails \/ (\E m \in Ids : ReturnMail(m)) \/ MailItemsIDsByMailIDs
  \/ DeleteItemsWithIDs \/ DeleteReturnedMailItems \/ DeleteReturnedMails

MailFault == MailCrash \/ CleanerFails \/ \E p \in Players : HandlerFails(p)
MailNext ==
  \/ \E p \in Players : MailInput(p) \/ MailStep(p)
  \/ CleanerStep \/ MailFault \/ \E m \in Ids : MailExpires(m)

MailSpec == MailInit /\ [][MailNext]_mailVars /\ WF_mailVars(CleanerStep) /\ \A p \in Players : WF_mailVars(MailStep(p))

-----------------------------------------------------------------------------
(* Properties                                                               *)

SumOf(f) == FoldFunctionOnSet(+, 0, f, DOMAIN f)
MoneyInMails == FoldSet(LAMBDA m, sum : sum + mails[m].money, 0, Ids)
PlacesOf(x) == {p \in Players : x \in bag[p]} \cup ({attached[x]} \ {0})
Quiet == \A p \in Players : Free(p)

\* Money that leaves a purse arrives in a mail, in another purse, or is spent
\* on postage: through sending, cash on delivery, returns and deletions no
\* copper appears or disappears, as long as no call failed half way, no
\* snapshot overwrote a newer row, and no bag was full after paying (mail.go).
MoneyConserved ==
  Quiet /\ "money" \notin exposed => SumOf(wallet) + MoneyInMails + spent = Cardinality(Players) * FirstMoney

\* An item is in exactly one bag or attached to exactly one mail, whatever
\* takes, returns and deletions did to it; it is nowhere only once it was
\* deleted with its mail (HandleMailTakeItem adds it before it removes it).
ItemOnce ==
  Quiet /\ "item" \notin exposed =>
    \A x \in Items : IF x \in destroyed THEN PlacesOf(x) = {} ELSE /\ Cardinality(PlacesOf(x)) = 1
                                                                     /\ attached[x] = 0 => x \in instances

\* An expired mail does not stay: the ticker returns it to its sender or
\* deletes it, although statements fail and the service restarts
\* (MailsCleanupTicker, ProcessExpiredMails).
ExpiredMailLeaves == []<>(\A m \in Ids : ~Expired(m))
=============================================================================
