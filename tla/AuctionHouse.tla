---------------------------- MODULE AuctionHouse ----------------------------
(* The auction house (apps/auctionhouse) and the auction handlers of the     *)
(* gateway sessions (apps/gateway/session/auctionhouse.go).  Every instance  *)
(* of the service keeps all auctions in memory; the instances share a table  *)
(* and tell each other about changes over NATS.  Lots and money move through *)
(* the mail service and the worldserver of module Mail, one call at a time.  *)
EXTENDS Mail

CONSTANTS
  Servers,      \* instances of the auction house
  Openings,     \* the situations to start from, with their bounds; see opening
  AuctionIDs,   \* bound: 1..n, the ids that fit
  Prices,       \* what players bid
  StartBid, BuyoutPrice, \* of every auction; no buyout is 0
  CutPercent    \* 5, or 15 in the neutral house

\* no: the place of the auction among all auctions ever inserted.
Lots == [no : Nat, owner : Players \cup {NoOne}, items : SUBSET Items, bid : Nat, bidder : Players \cup {NoOne}]

ASSUME AuctionAssumption ==
  /\ AuctionIDs = 1..Cardinality(AuctionIDs)
  /\ Prices \subseteq Nat /\ {StartBid, BuyoutPrice} \subseteq Nat
  /\ CutPercent \in {5, 15}
  /\ \A o \in Openings :
       /\ o.servers \subseteq Servers /\ o.requests \in Nat /\ o.faults \in 0..MaxFaults
       /\ o.auctions \in Seq(Lots) /\ DOMAIN o.auctions \subseteq AuctionIDs /\ o.bags \in [Players -> SUBSET Items]
       /\ \A k \in DOMAIN o.auctions : o.auctions[k].no = k
       /\ \A x \in Items :
            LET sold == {k \in DOMAIN o.auctions : x \in o.auctions[k].items}
                kept == {p \in Players : x \in o.bags[p]} IN
            \/ kept = {} /\ \E k \in DOMAIN o.auctions : sold = {k}
            \/ sold = {} /\ \E p \in Players : kept = {p}

VARIABLES
  opening,  \* servers: the instances that run; auctions: the table at first, a sequence; bags: what players
            \* have at first; bounds: requests, of auction packets of all clients together, and faults
  rows,     \* table auctionhouse
  cache,    \* the auctions each instance has in memory
  nextID,   \* the next id of each instance
  news,     \* the NATS messages on their way to each instance
  sale,     \* the auction call each session is in
  clerk,    \* the run of ProcessExpiredAuctions of each instance
  overdue,  \* the auctions whose time is over
  listed,   \* the ids of all auctions ever inserted, in their order
  requests,
  unpaid,   \* the gold that players owed and did not pay (history)
  dropped   \* per instance: the auctions that left its cache, not the table, after a failed statement (history)

auctionVars == <<rows, cache, nextID, news, sale, clerk, overdue, listed, requests, unpaid, dropped>>
houseVars == <<mailVars, auctionVars>>

-----------------------------------------------------------------------------
NoLot == [no |-> 0, owner |-> NoOne, items |-> {}, bid |-> 0, bidder |-> NoOne]
Lot(p, x) == [NoLot EXCEPT !.owner = p, !.items = {x}]

\* at: the next step; old: the entry found under the lock; lot: the new one.
NoSale == [at |-> "none", srv |-> NoOne, id |-> 0, lot |-> NoLot, old |-> NoLot]
OffDuty == [at |-> "off", todo |-> {}, id |-> 0, row |-> NoLot]

Cached(i, id) == cache[i][id] # NoLot
Uncache(i, id) == cache' = [cache EXCEPT ![i][id] = NoLot]

Selling(p, step) == sale[p].at = step
Goes(p, step) == sale' = [sale EXCEPT ![p].at = step]
Begin(p, call) ==
  /\ Free(p) /\ requests < opening.requests /\ requests' = requests + 1
  /\ calls' = [calls EXCEPT ![p].at = "auction"]
  /\ sale' = [sale EXCEPT ![p] = call]
End(p) == Done(p) /\ sale' = [sale EXCEPT ![p] = NoSale]

\* NATS delivers to every instance, the sender too.
Publish(event) == news' = [i \in Servers |-> IF i \in opening.servers THEN Append(news[i], event) ELSE news[i]]
Event(kind, id, lot) == [kind |-> kind, id |-> id, lot |-> lot]

\* MailService.Send of the auction house: no sender.  The mails of one step go
\* out one after the other; only the one with the lot meets another call.
Deliverable(items) == \A x \in items : attached[x] = 0
Letter(sent, to, money, items) == IF sent THEN <<[to |-> to, money |-> money, items |-> items]>> ELSE <<>>
Send(letters) ==
  /\ mails' = mails \o [k \in DOMAIN letters |-> NewMail(NoOne, letters[k].to, letters[k].money, 0, letters[k].items)]
  /\ attached' = [x \in Items |-> IF \E k \in DOMAIN letters : x \in letters[k].items
                                   THEN Len(mails) + CHOOSE k \in DOMAIN letters : x \in letters[k].items
                                   ELSE attached[x]]
  /\ instances' = instances \cup UNION {letters[k].items : k \in DOMAIN letters}

\* One call may fail at a time, within the bound.
Fails(failed) == faults' = (IF failed = "none" THEN faults ELSE faults + 1) /\ faults' <= MaxFaults
NoTick == UNCHANGED <<backOffice, inputs, overdue>>
Unchanged == NoTick /\ UNCHANGED <<unpaid, dropped>>

calculateOutBid(bid) == IF (bid * 5) \div 100 = 0 THEN 1 ELSE (bid * 5) \div 100
calculateAuctionCut(bid) == (bid * CutPercent) \div 100

-----------------------------------------------------------------------------
(* Selling                                                                  *)

\* All the stacks are taken from the player, the first one is listed.
HandleAuctionSellItem(p, i, items, x) ==
  /\ x \in items /\ items \subseteq bag[p]
  /\ bag' = [bag EXCEPT ![p] = @ \ items]
  /\ Expose(IF items = {x} THEN {} ELSE {"item"})
  /\ Begin(p, [NoSale EXCEPT !.at = "insert", !.srv = i, !.lot = Lot(p, x)])
  /\ UNCHANGED <<wallet, postOffice, spent, inputs, faults, rows, cache, nextID, news, clerk, overdue, listed, unpaid, dropped>>

\* The id is a counter of this instance; an id in use is a duplicate key.
\* When the insert fails the item is gone.
InsertAuction(p, failed) ==
  /\ Selling(p, "insert") /\ Fails(failed)
  /\ LET i == sale[p].srv
         id == nextID[i] IN
     /\ id \in AuctionIDs
     /\ nextID' = [nextID EXCEPT ![i] = id + 1]
     /\ IF rows[id] = NoLot /\ failed = "none"
        THEN LET lot == [sale[p].lot EXCEPT !.no = Len(listed) + 1] IN
             /\ rows' = [rows EXCEPT ![id] = lot]
             /\ listed' = Append(listed, id)
             /\ sale' = [sale EXCEPT ![p].at = "list", ![p].id = id, ![p].lot = lot]
             /\ UNCHANGED <<exposed, calls>>
        ELSE End(p) /\ Expose({"item"}) /\ UNCHANGED <<rows, listed>>
  /\ Unchanged /\ UNCHANGED <<wallet, bag, mails, attached, instances, spent, cache, news, clerk, requests>>

SellItem(p) ==
  /\ Selling(p, "list")
  /\ LET c == sale[p] IN
     /\ cache' = [cache EXCEPT ![c.srv][c.id] = c.lot]
     /\ Publish(Event("created", c.id, c.lot))
  /\ End(p)
  /\ Unchanged /\ UNCHANGED <<wallet, bag, mails, attached, instances, spent, exposed, faults, rows, nextID, clerk, listed, requests>>

-----------------------------------------------------------------------------
(* Bidding                                                                  *)

IsBuyout(price) == price >= BuyoutPrice /\ BuyoutPrice > 0

Acceptable(p, lot, price) ==
  /\ lot.owner # p
  /\ price > lot.bid /\ price >= StartBid
  /\ IsBuyout(price) \/ price >= lot.bid + calculateOutBid(lot.bid)

\* Mutant: a player who raises an own bid pays all of it again.
Owes_Full(p, old, price) == price

\* What the bidder owes: the rest of an own bid, or the price.
Owes(p, old, price) == IF old.bidder = p THEN price - old.bid ELSE price

\* ModifyMoneyForPlayer: a worldserver takes what there is; the call may fail.
Pay(p, due, failed) ==
  LET taken == IF failed = "money" THEN 0 ELSE IF due > wallet[p] THEN wallet[p] ELSE due
  IN wallet' = [wallet EXCEPT ![p] = @ - taken] /\ unpaid' = unpaid + due - taken

\* Neither the session nor the service looks at the purse.
HandleAuctionPlaceBid(p, i, id, price) ==
  /\ Cached(i, id) /\ ~IsBuyout(price)
  /\ LET old == cache[i][id]
         lot == [old EXCEPT !.bid = price, !.bidder = p] IN
     /\ Acceptable(p, old, price)
     /\ cache' = [cache EXCEPT ![i][id] = lot]
     /\ Begin(p, [at |-> "updateBid", srv |-> i, id |-> id, lot |-> lot, old |-> old])
  /\ Unchanged /\ UNCHANGED <<wallet, bag, mails, attached, instances, spent, exposed, faults, rows, nextID, news, clerk, listed>>

\* The statement looks at the id only; after an error the cache keeps the bid.
UpdateBid(p, failed) ==
  /\ Selling(p, "updateBid") /\ Fails(failed)
  /\ LET c == sale[p] IN
     IF failed = "none"
     THEN /\ rows' = IF rows[c.id] = NoLot THEN rows ELSE [rows EXCEPT ![c.id].bid = c.lot.bid, ![c.id].bidder = p]
          /\ Expose(IF rows[c.id] = c.old THEN {} ELSE {"money"})
          /\ Goes(p, "announce") /\ UNCHANGED calls
     ELSE End(p) /\ UNCHANGED <<rows, exposed>>
  /\ Unchanged /\ UNCHANGED <<wallet, bag, mails, attached, instances, spent, cache, nextID, news, clerk, listed, requests>>

\* The refund of the player who was outbid, the event, the deduction.
PlaceBid(p, failed) ==
  /\ Selling(p, "announce") /\ Fails(failed)
  /\ LET c == sale[p] IN
     /\ Send(Letter(c.old.bidder \notin {NoOne, p} /\ failed # "refund", c.old.bidder, c.old.bid, {}))
     /\ Publish(Event("bid", c.id, c.lot))
     /\ Pay(p, Owes(p, c.old, c.lot.bid), failed)
     /\ Expose(IF failed = "refund" THEN {"money"} ELSE {})
  /\ End(p)
  /\ NoTick /\ UNCHANGED <<bag, spent, rows, cache, nextID, clerk, listed, requests, dropped>>

-----------------------------------------------------------------------------
(* Buying out: the mails first, then the table, then the cache              *)

Buyout(p, i, id, price) ==
  /\ Cached(i, id) /\ IsBuyout(price)
  /\ LET old == cache[i][id] IN
     /\ Acceptable(p, old, price)
     /\ Begin(p, [at |-> "mails", srv |-> i, id |-> id, old |-> old, lot |-> [old EXCEPT !.bid = BuyoutPrice, !.bidder = p]])
  /\ Unchanged /\ UNCHANGED <<wallet, bag, mails, attached, instances, spent, exposed, faults, rows, cache, nextID, news, clerk, listed>>

\* The seller is paid, the lot sent, the old bidder refunded, who may be the
\* buyer.  A lot that is in another mail already cannot be sent.
BuyoutMails(p, failed) ==
  /\ Selling(p, "mails") /\ Fails(failed)
  /\ LET lot == sale[p].lot
         old == sale[p].old
         paid == failed # "seller"
         delivered == paid /\ failed # "lot" /\ Deliverable(lot.items)
         refunded == delivered /\ old.bidder # NoOne /\ failed # "refund" IN
     /\ Send(Letter(paid, lot.owner, lot.bid - calculateAuctionCut(lot.bid), {})
             \o Letter(delivered, p, 0, lot.items)
             \o Letter(refunded, old.bidder, old.bid, {}))
     /\ spent' = IF paid THEN spent + calculateAuctionCut(lot.bid) ELSE spent
     /\ Expose(IF paid /\ (failed # "none" \/ ~delivered \/ old.bidder = p) THEN {"item", "money"} ELSE {})
     /\ IF delivered THEN Goes(p, "delete") /\ UNCHANGED calls ELSE End(p)
  /\ Unchanged /\ UNCHANGED <<wallet, bag, rows, cache, nextID, news, clerk, listed, requests>>

DeleteAuction(p, failed) ==
  /\ Selling(p, "delete") /\ Fails(failed)
  /\ LET c == sale[p] IN
     /\ rows' = IF failed = "none" THEN [rows EXCEPT ![c.id] = NoLot] ELSE rows
     /\ Expose(IF rows[c.id] = c.old /\ failed = "none" THEN {} ELSE {"item", "money"})
     /\ IF failed = "none" THEN Goes(p, "close") /\ UNCHANGED calls ELSE End(p)
  /\ Unchanged /\ UNCHANGED <<wallet, bag, mails, attached, instances, spent, cache, nextID, news, clerk, listed, requests>>

CloseAuction(p, failed) ==
  /\ Selling(p, "close") /\ Fails(failed)
  /\ LET c == sale[p] IN
     /\ Uncache(c.srv, c.id)
     /\ Publish(Event("buyout", c.id, c.lot))
     /\ Pay(p, Owes(p, c.old, c.lot.bid), failed)
  /\ End(p)
  /\ NoTick /\ UNCHANGED <<bag, mails, attached, instances, spent, exposed, rows, nextID, clerk, listed, requests, dropped>>

-----------------------------------------------------------------------------
(* Cancelling: the cache first, then the mails, then the table              *)

HandleAuctionRemoveItem(p, i, id) ==
  /\ Cached(i, id) /\ cache[i][id].owner = p
  /\ Begin(p, [at |-> "refund", srv |-> i, id |-> id, lot |-> cache[i][id], old |-> cache[i][id]])
  /\ Uncache(i, id)
  /\ Unchanged /\ UNCHANGED <<wallet, bag, mails, attached, instances, spent, exposed, faults, rows, nextID, news, clerk, listed>>

\* Mutant: with a bidder to refund, the lot is not sent back.
CancelMails_RefundOnly(p, failed) ==
  /\ Selling(p, "refund") /\ Fails(failed)
  /\ LET lot == sale[p].lot
         returned == failed # "lot" /\ Deliverable(lot.items) IN
     /\ Send(Letter(lot.bidder # NoOne /\ failed # "refund", lot.bidder, lot.bid, {})
             \o Letter(returned /\ lot.bidder = NoOne, p, 0, lot.items))
     /\ Expose(IF failed = "none" /\ returned THEN {} ELSE {"item", "money"})
  /\ Goes(p, "cancel")
  /\ Unchanged /\ UNCHANGED <<wallet, bag, calls, spent, rows, cache, nextID, news, clerk, listed, requests>>

\* To the highest bidder and to the owner; errors are logged.
CancelMails(p, failed) ==
  /\ Selling(p, "refund") /\ Fails(failed)
  /\ LET lot == sale[p].lot
         returned == failed # "lot" /\ Deliverable(lot.items) IN
     /\ Send(Letter(lot.bidder # NoOne /\ failed # "refund", lot.bidder, lot.bid, {})
             \o Letter(returned, p, 0, lot.items))
     /\ Expose(IF failed = "none" /\ returned THEN {} ELSE {"item", "money"})
  /\ Goes(p, "cancel")
  /\ Unchanged /\ UNCHANGED <<wallet, bag, calls, spent, rows, cache, nextID, news, clerk, listed, requests>>

\* A failed statement leaves the row of an auction that this instance has uncached.
Drop(i, id) == dropped' = [dropped EXCEPT ![i] = @ \cup ({rows[id].no} \ {NoLot.no})]

\* With a bidder the owner pays the cut of the bid.
CancelAuction(p, failed) ==
  /\ Selling(p, "cancel") /\ Fails(failed)
  /\ LET c == sale[p]
         cut == IF c.lot.bidder = NoOne THEN 0 ELSE calculateAuctionCut(c.lot.bid) IN
     IF failed = "delete"
     THEN Expose({"item", "money"}) /\ Drop(c.srv, c.id) /\ UNCHANGED <<rows, news, wallet, spent, unpaid>>
     ELSE /\ rows' = [rows EXCEPT ![c.id] = NoLot]
          /\ Publish(Event("canceled", c.id, c.lot))
          /\ Pay(p, cut, failed)
          /\ spent' = spent + cut
          /\ Expose(IF rows[c.id] = c.old THEN {} ELSE {"item", "money"})
          /\ UNCHANGED dropped
  /\ End(p)
  /\ NoTick /\ UNCHANGED <<bag, mails, attached, instances, cache, nextID, clerk, listed, requests>>

-----------------------------------------------------------------------------
(* Events of the instances: in order within a kind only                     *)

KindOf(e) == IF e.kind = "buyout" THEN "bid" ELSE e.kind
\* The first message of its subscription.
InOrder(i, k) == k \in DOMAIN news[i] /\ \A j \in 1..(k - 1) : KindOf(news[i][j]) # KindOf(news[i][k])

HandleAuctionEvent(i, k) ==
  /\ InOrder(i, k)
  /\ LET e == news[i][k]
         mine == cache[i][e.id] IN
     cache' = [cache EXCEPT ![i][e.id] =
       CASE e.kind = "created" -> IF mine = NoLot THEN e.lot ELSE mine
         [] e.kind = "bid" -> IF mine = NoLot THEN NoLot ELSE [mine EXCEPT !.bid = e.lot.bid, !.bidder = e.lot.bidder]
         [] OTHER -> NoLot]
  /\ news' = [news EXCEPT ![i] = RemoveAt(@, k)]
  /\ UNCHANGED <<mailVars, rows, nextID, sale, clerk, overdue, listed, requests, unpaid, dropped>>

-----------------------------------------------------------------------------
(* ProcessExpiredAuctions                                                   *)

AuctionExpires(id) ==
  /\ rows[id] # NoLot /\ rows[id].no \notin overdue
  /\ overdue' = overdue \cup {rows[id].no}
  /\ UNCHANGED <<mailVars, rows, cache, nextID, news, sale, clerk, listed, requests, unpaid, dropped>>

Overdue(lot) == lot # NoLot /\ lot.no \in overdue
Clerk(i, step) == clerk[i].at = step
\* After the last candidate the ticker waits for its next tick.
WithCandidates(ids) == IF ids = {} THEN OffDuty ELSE [OffDuty EXCEPT !.at = "load", !.todo = ids]
NoCall == UNCHANGED <<calls, sale>>

\* Mutant: auctions with a bid are passed over.
ProcessExpiredAuctions_Unsold(i) ==
  /\ Clerk(i, "off")
  /\ LET candidates == {id \in AuctionIDs : Overdue(cache[i][id]) /\ cache[i][id].bidder = NoOne} IN
     /\ candidates # {}
     /\ clerk' = [clerk EXCEPT ![i] = WithCandidates(candidates)]
  /\ UNCHANGED <<mailVars, rows, cache, nextID, news, sale, overdue, listed, requests, unpaid, dropped>>

ProcessExpiredAuctions(i) ==
  /\ Clerk(i, "off")
  /\ LET candidates == {id \in AuctionIDs : Overdue(cache[i][id])} IN
     /\ candidates # {}
     /\ clerk' = [clerk EXCEPT ![i] = WithCandidates(candidates)]
  /\ UNCHANGED <<mailVars, rows, cache, nextID, news, sale, overdue, listed, requests, unpaid, dropped>>

\* An auction that is not in the table, or seems not to be, leaves the cache.
Forget(i, id) == Uncache(i, id) /\ clerk' = [clerk EXCEPT ![i] = WithCandidates(clerk[i].todo \ {id})]

LoadAuctionByID(i, id, failed) ==
  /\ Clerk(i, "load") /\ id \in clerk[i].todo /\ Fails(failed)
  /\ IF rows[id] = NoLot \/ failed # "none"
     THEN Forget(i, id) /\ Drop(i, id)
     ELSE /\ clerk' = [clerk EXCEPT ![i] = [at |-> "claim", todo |-> @.todo \ {id}, id |-> id, row |-> rows[id]]]
          /\ UNCHANGED <<cache, dropped>>
  /\ NoCall
  /\ NoTick /\ UNCHANGED <<wallet, bag, mails, attached, instances, spent, exposed, rows, nextID, news, listed, requests, unpaid>>

\* Mutant: the number of deleted rows is not looked at.
DeleteAuctionIfExists_Unchecked(i, failed) ==
  /\ Clerk(i, "claim") /\ Fails(failed)
  /\ LET c == clerk[i] IN
     IF failed = "none"
     THEN /\ rows' = [rows EXCEPT ![c.id] = NoLot]
          /\ clerk' = [clerk EXCEPT ![i].at = "settle"]
          /\ Expose(IF rows[c.id] = c.row THEN {} ELSE {"item", "money"})
          /\ UNCHANGED <<cache, dropped>>
     ELSE Forget(i, c.id) /\ Drop(i, c.id) /\ UNCHANGED <<rows, exposed>>
  /\ NoCall
  /\ NoTick /\ UNCHANGED <<wallet, bag, mails, attached, instances, spent, nextID, news, listed, requests, unpaid>>

\* Only the instance whose DELETE finds the row goes on; a failed statement
\* reads as an auction that another instance took.
DeleteAuctionIfExists(i, failed) ==
  /\ Clerk(i, "claim") /\ Fails(failed)
  /\ LET c == clerk[i] IN
     IF rows[c.id] # NoLot /\ failed = "none"
     THEN /\ rows' = [rows EXCEPT ![c.id] = NoLot]
          /\ clerk' = [clerk EXCEPT ![i].at = "settle"]
          /\ Expose(IF rows[c.id] = c.row THEN {} ELSE {"item", "money"})
          /\ UNCHANGED <<cache, dropped>>
     ELSE Forget(i, c.id) /\ Drop(i, c.id) /\ UNCHANGED <<rows, exposed>>
  /\ NoCall
  /\ NoTick /\ UNCHANGED <<wallet, bag, mails, attached, instances, spent, nextID, news, listed, requests, unpaid>>

\* The seller gets the bid and the bidder the lot; without a bid the lot goes
\* back to the owner.  Errors are logged.
SettleAuction(i, failed) ==
  /\ Clerk(i, "settle") /\ Fails(failed)
  /\ LET lot == clerk[i].row
         sold == lot.bidder # NoOne
         delivered == failed # "lot" /\ Deliverable(lot.items) IN
     /\ Send(Letter(sold /\ failed # "seller", lot.owner, lot.bid - calculateAuctionCut(lot.bid), {})
             \o Letter(delivered, IF sold THEN lot.bidder ELSE lot.owner, 0, lot.items))
     /\ spent' = spent + calculateAuctionCut(lot.bid)
     /\ Expose(IF failed = "none" /\ delivered THEN {} ELSE {"item", "money"})
     /\ Publish(Event("expired", clerk[i].id, lot))
  /\ Forget(i, clerk[i].id)
  /\ NoCall
  /\ Unchanged /\ UNCHANGED <<wallet, bag, rows, nextID, listed, requests>>

-----------------------------------------------------------------------------
(* Restarts                                                                 *)

\* LoadAuctions: the table, and an id above all ids in it.
LoadAuctions(i) ==
  /\ cache' = [cache EXCEPT ![i] = rows]
  /\ nextID' = [nextID EXCEPT ![i] = 1 + Max({0} \cup {id \in AuctionIDs : rows[id] # NoLot})]

\* A call that ends here has moved neither lot nor money yet.
Harmless(c) == c.at \in {"none", "list", "updateBid", "mails"}

\* An instance ends and starts again; what it did not hear is lost.
AuctionCrash(i) ==
  /\ Fails("crash")
  /\ LET served == {p \in Players : sale[p].srv = i} IN
     /\ calls' = [p \in Players |-> IF p \in served THEN Idle ELSE calls[p]]
     /\ sale' = [p \in Players |-> IF p \in served THEN NoSale ELSE sale[p]]
     /\ Expose(IF clerk[i].at # "settle" /\ \A p \in served : Harmless(sale[p]) THEN {} ELSE {"item", "money"})
  /\ LoadAuctions(i)
  /\ news' = [news EXCEPT ![i] = <<>>]
  /\ clerk' = [clerk EXCEPT ![i] = OffDuty]
  /\ dropped' = [dropped EXCEPT ![i] = {}]
  /\ NoTick /\ UNCHANGED <<wallet, bag, mails, attached, instances, spent, rows, listed, requests, unpaid>>

-----------------------------------------------------------------------------
AuctionInit ==
  /\ opening \in Openings
  /\ MailStart(opening.bags, MaxFaults - opening.faults)
  /\ rows = [id \in AuctionIDs |-> IF id \in DOMAIN opening.auctions THEN opening.auctions[id] ELSE NoLot]
  /\ cache = [i \in Servers |-> IF i \in opening.servers THEN rows ELSE [id \in AuctionIDs |-> NoLot]]
  /\ nextID = [i \in Servers |-> 1 + Len(opening.auctions)] /\ news = [i \in Servers |-> <<>>]
  /\ sale = [p \in Players |-> NoSale] /\ clerk = [i \in Servers |-> OffDuty]
  /\ overdue = {} /\ listed = [k \in DOMAIN opening.auctions |-> k] /\ requests = 0
  /\ unpaid = 0 /\ dropped = [i \in Servers |-> {}]

AuctionInput(p, i) ==
  \/ \E items \in SUBSET Items : \E x \in items : HandleAuctionSellItem(p, i, items, x)
  \/ \E id \in AuctionIDs : \/ HandleAuctionRemoveItem(p, i, id)
                            \/ \E price \in Prices : HandleAuctionPlaceBid(p, i, id, price) \/ Buyout(p, i, id, price)

AuctionStep(p) ==
  \/ SellItem(p)
  \/ \E failed \in {"none", "insert"} : InsertAuction(p, failed)
  \/ \E failed \in {"none", "update"} : UpdateBid(p, failed)
  \/ \E failed \in {"none", "refund", "money"} : PlaceBid(p, failed)
  \/ \E failed \in {"none", "seller", "lot", "refund"} : BuyoutMails(p, failed)
  \/ \E failed \in {"none", "delete"} : DeleteAuction(p, failed)
  \/ \E failed \in {"none", "money"} : CloseAuction(p, failed)
  \/ \E failed \in {"none", "refund", "lot"} : CancelMails(p, failed)
  \/ \E failed \in {"none", "delete", "money"} : CancelAuction(p, failed)

ClerkStep(i) ==
  \/ ProcessExpiredAuctions(i)
  \/ \E failed \in {"none", "load"}, id \in AuctionIDs : LoadAuctionByID(i, id, failed)
  \/ \E failed \in {"none", "delete"} : DeleteAuctionIfExists(i, failed)
  \/ \E failed \in {"none", "seller", "lot"} : SettleAuction(i, failed)

AuctionNext ==
  /\ \/ \E p \in Players : AuctionStep(p) \/ \E i \in opening.servers : AuctionInput(p, i)
     \/ \E i \in opening.servers : ClerkStep(i) \/ AuctionCrash(i) \/ \E k \in DOMAIN news[i] : HandleAuctionEvent(i, k)
     \/ \E id \in AuctionIDs : AuctionExpires(id)
  /\ UNCHANGED opening

AuctionSpec ==
  /\ AuctionInit /\ [][AuctionNext]_<<opening, houseVars>>
  /\ \A i \in Servers : WF_houseVars(ClerkStep(i))
  /\ \A p \in Players : WF_houseVars(AuctionStep(p))

-----------------------------------------------------------------------------
(* Properties                                                               *)

AllQuiet == Quiet /\ \A i \in Servers : clerk[i].at = "off"
Escrow == FoldSet(LAMBDA id, sum : sum + rows[id].bid, 0, AuctionIDs)
FirstBids == FoldSeq(LAMBDA lot, sum : sum + lot.bid, 0, opening.auctions)
Auctioned(x) == {id \in AuctionIDs : x \in rows[id].items}
Reused(id) == \E k, l \in DOMAIN listed : k # l /\ {listed[k], listed[l]} = {id}

\* Bids, refunds, buyouts, cancellations and expired auctions move gold
\* between purses, mails and the highest bids of the table.  Nobody looks at
\* the purse when a bid or a buyout is accepted, so there is as much gold more
\* as players owed and did not pay, and no other, unless a mail or the deletion
\* failed half way, a row was overwritten or deleted under another call, an
\* instance ended in a call, or the highest bidder bought out (auction.go).
GoldConserved ==
  AllQuiet /\ "money" \notin exposed =>
    SumOf(wallet) + MoneyInMails + Escrow + spent = Cardinality(Players) * FirstMoney + FirstBids + unpaid

\* A lot is in one bag, one mail or one auction, never in two and never
\* nowhere, under the same conditions (SellItem removes it from the bag
\* before it is listed; mails are sent before or after the row is deleted).
LotOnce ==
  AllQuiet /\ "item" \notin exposed =>
    \A x \in Items : x \notin destroyed => Cardinality(PlacesOf(x)) + Cardinality(Auctioned(x)) = 1

\* Two instances settle the same expired auction only if its id was given to
\* another auction as well: the DELETE decides (comment in
\* ProcessExpiredAuctions, "only one instance succeeds"), but by the id, which
\* generateAuctionID of another instance, or after a restart, may give again.
OneClerkPerLot ==
  \A i, j \in Servers :
    i # j /\ {clerk[i].at, clerk[j].at} = {"settle"} /\ clerk[i].row.no = clerk[j].row.no => Reused(clerk[i].id)

\* An auction whose time is over leaves the table, over errors and restarts,
\* unless every running instance has dropped it: a failed SELECT or DELETE of the
\* ticker reads as an auction that another instance took (auction.go:504-513), and
\* a cancellation uncaches before its DELETE.  Then its row stays until a restart.
OverdueAuctionsEnd ==
  []<>(\A id \in AuctionIDs : Overdue(rows[id]) => \A i \in opening.servers : rows[id].no \in dropped[i])
=============================================================================
