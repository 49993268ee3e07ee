----------------------------- MODULE TradeProofs -----------------------------
(***************************************************************************)
(* Proofs about AuctionHouse, for any players, items, instances, openings, *)
(* prices and bounds:                                                      *)
(*   HouseInvariantHolds  types, and the invariant the others rest on;     *)
(*   OneClerkSettles      OneClerkPerLot;                                  *)
(*   LotsAreKept          LotOnce;                                         *)
(* and, in the second half, about the mail service of Mail by itself:      *)
(*   ItemsAreKept         ItemOnce.                                        *)
(*                                                                         *)
(* An id may be given to a second auction, so a row, the copies of it in   *)
(* caches, events and calls, and the lot in the mail need not be the same  *)
(* auction.  What holds is that all copies with an item carry one id, the  *)
(* home of the item, and that an item in a mail is in a row only while the *)
(* call that mailed it is about to delete that row.                        *)
(*                                                                         *)
(* A player who takes an item has it before its mail has lost it, and the  *)
(* ticker deletes the row of an item before the mail loses it.  So the     *)
(* owners of an item are the holders that are not taking it (Takers), and  *)
(* it is with one owner, with one call that sends it, or in a mail.        *)
(***************************************************************************)
EXTENDS AuctionHouse, FiniteSetTheorems, SequenceTheorems, TLAPS

-----------------------------------------------------------------------------
(* The state of the auction house, field by field                           *)

MailRows == [to : Players \cup {NoOne}, from : Players \cup {NoOne}, money : Int, cod : Int, hasItems : BOOLEAN,
             read : BOOLEAN, returned : BOOLEAN, gone : BOOLEAN]
Kinds == {"created", "bid", "buyout", "canceled", "expired"}
SaleSteps == {"none", "insert", "list", "updateBid", "announce", "mails", "delete", "close", "refund", "cancel"}
ClerkSteps == {"off", "load", "claim", "settle"}
LotEvents == [kind : Kinds, id : AuctionIDs, lot : Lots]
Sales == [at : SaleSteps, srv : Servers \cup {NoOne}, id : AuctionIDs \cup {0}, lot : Lots, old : Lots]
Clerks == [at : ClerkSteps, todo : SUBSET AuctionIDs, id : AuctionIDs \cup {0}, row : Lots]
InCall == [Idle EXCEPT !.at = "auction"]

TableOK ==
  /\ opening \in Openings
  /\ rows \in [AuctionIDs -> Lots]
  /\ cache \in [Servers -> [AuctionIDs -> Lots]]
  /\ news \in [Servers -> Seq(LotEvents)]
  /\ listed \in Seq(AuctionIDs)

PostOK ==
  /\ bag \in [Players -> SUBSET Items]
  /\ attached \in [Items -> Nat]
  /\ mails \in Seq(MailRows)

\* A session is in an auction call exactly as long as the call has a next step.
SaleShape(c) == (c.at # "none" => c.srv \in Servers) /\ (c.at \notin {"none", "insert"} => c.id \in AuctionIDs)
SaleOK ==
  /\ sale \in [Players -> Sales] /\ \A p \in Players : SaleShape(sale[p])
  /\ calls \in [Players -> {Idle, InCall}]
  /\ \A p \in Players : sale[p].at # "none" => calls[p] = InCall

ClerkShape(c) == c.at \in {"claim", "settle"} => c.id \in AuctionIDs
ClerkOK == clerk \in [Servers -> Clerks] /\ \A i \in Servers : ClerkShape(clerk[i])

\* The number of an auction finds its id; who settles one has deleted its row.
Numbered(id, lot) == lot # NoLot => lot.no \in DOMAIN listed /\ listed[lot.no] = id
Claims(i) ==
  /\ clerk[i].at \in {"claim", "settle"} => clerk[i].row # NoLot /\ Numbered(clerk[i].id, clerk[i].row)
  /\ clerk[i].at = "settle" => rows[clerk[i].id] = NoLot \/ Reused(clerk[i].id)
ClerksClaim == (\A id \in AuctionIDs : Numbered(id, rows[id])) /\ (\A i \in Servers : Claims(i)) /\ OneClerkPerLot

\* Every copy of an auction is filed under the id its items were listed with.
Home(home, id, lot) == \A x \in lot.items : home[x] = id
Sellers(x) == {p \in Players : sale[p].at = "insert" /\ x \in sale[p].lot.items}
Holders(x) == {p \in Players : x \in bag[p]}
FiledSale(home, c) ==
  /\ c.at \notin {"none", "insert"} => Home(home, c.id, c.lot)
  /\ c.at \notin {"none", "insert", "list"} => c.old.items = c.lot.items
FiledRows(home) == \A id \in AuctionIDs : Home(home, id, rows[id])
FiledCaches(home) == \A i \in Servers, id \in AuctionIDs : Home(home, id, cache[i][id])
FiledNews(home) == \A i \in Servers : \A k \in DOMAIN news[i] : Home(home, news[i][k].id, news[i][k].lot)
FiledSales(home) == \A p \in Players : FiledSale(home, sale[p])
FiledClerks(home) == \A i \in Servers : clerk[i].at \in {"claim", "settle"} => Home(home, clerk[i].id, clerk[i].row)
Unlisted(home) == \A x \in Items : Holders(x) \cup Sellers(x) # {} => home[x] = 0
FiledBy(home) ==
  FiledRows(home) /\ FiledCaches(home) /\ FiledNews(home) /\ FiledSales(home) /\ FiledClerks(home) /\ Unlisted(home)
Homes == [Items -> AuctionIDs \cup {0}]
Filed == "item" \notin exposed => \E home \in Homes : FiledBy(home)

Settlers(x) == {i \in Servers : clerk[i].at = "settle" /\ x \in clerk[i].row.items}
\* The calls that have sent a lot and not yet deleted its row.
Closing(p) == sale[p].at \in {"delete", "cancel"}

Unsent(x) ==
  \/ Sellers(x) = {} /\ Auctioned(x) = {} /\ Settlers(x) = {} /\ \E p \in Players : Holders(x) = {p}
  \/ Holders(x) = {} /\ Auctioned(x) = {} /\ Settlers(x) = {} /\ \E p \in Players : Sellers(x) = {p}
  \/ Holders(x) = {} /\ Sellers(x) = {} /\ Settlers(x) = {} /\ \E id \in AuctionIDs : Auctioned(x) = {id}
  \/ Holders(x) = {} /\ Sellers(x) = {} /\ Auctioned(x) = {} /\ \E i \in Servers : Settlers(x) = {i}
Sent(x) ==
  /\ Holders(x) = {} /\ Sellers(x) = {}
  /\ \/ Auctioned(x) = {}
     \/ \E p \in Players : Closing(p) /\ x \in sale[p].lot.items /\ Auctioned(x) = {sale[p].id}
Place(x) == IF attached[x] = 0 THEN Unsent(x) ELSE Sent(x)
LotsKept ==
  "item" \notin exposed =>
    /\ \A x \in Items : Place(x)
    /\ \A p \in Players : Closing(p) => \A x \in sale[p].lot.items : attached[x] # 0

HouseInvariant == TableOK /\ PostOK /\ SaleOK /\ ClerkOK /\ ClerksClaim /\ Filed /\ LotsKept

-----------------------------------------------------------------------------
(* Lots, letters and calls                                                  *)

\* No auction and a fresh one (AuctionEntry) are lots.
LEMMA LotTypes ==
  /\ NoLot \in Lots /\ NoLot.items = {} /\ NoLot.no = 0
  /\ \A p \in Players, x \in Items : Lot(p, x) \in Lots /\ Lot(p, x).items = {x}
<1>1. NoLot \in Lots /\ NoLot.items = {} /\ NoLot.no = 0
  BY DEF Lots, NoLot
<1>2. ASSUME NEW p \in Players, NEW x \in Items PROVE Lot(p, x) \in Lots /\ Lot(p, x).items = {x}
  BY DEF Lots, NoLot, Lot
<1> QED BY <1>1, <1>2

\* A session that is free is in no call.
LEMMA CallTypes ==
  /\ Idle.at = "idle" /\ InCall.at = "auction" /\ Idle # InCall
  /\ \A c \in {Idle, InCall} : c.at = "idle" => c = Idle
<1>1. Idle.at = "idle"
  BY DEF Idle
<1>2. InCall.at = "auction"
  BY DEF Idle, InCall
<1> QED BY <1>1, <1>2

\* A packet of a free session opens one auction call.
LEMMA BeginCalls ==
  ASSUME NEW p \in Players, NEW call, calls \in [Players -> {Idle, InCall}], sale \in [Players -> Sales], Begin(p, call)
  PROVE  /\ calls' = [calls EXCEPT ![p] = InCall] /\ sale' = [sale EXCEPT ![p] = call]
         /\ calls' \in [Players -> {Idle, InCall}]
<1>1. calls[p] = Idle
  BY CallTypes DEF Begin, Free
<1>2. calls' = [calls EXCEPT ![p].at = "auction"] /\ sale' = [sale EXCEPT ![p] = call]
  BY DEF Begin
<1>3. [calls[p] EXCEPT !.at = "auction"] = InCall
  BY <1>1 DEF InCall
<1>4. calls' = [calls EXCEPT ![p] = InCall]
  BY <1>2, <1>3
<1> QED BY <1>2, <1>4

\* The answer of the auction house ends the call.
LEMMA EndCalls ==
  ASSUME NEW p \in Players, calls \in [Players -> {Idle, InCall}], sale \in [Players -> Sales], End(p)
  PROVE  /\ calls' = [calls EXCEPT ![p] = Idle] /\ sale' = [sale EXCEPT ![p] = NoSale]
         /\ calls' \in [Players -> {Idle, InCall}]
BY DEF End, Done

\* No call has no lot and no step.
LEMMA SaleTypes == NoSale \in Sales /\ NoSale.at = "none" /\ NoSale.lot = NoLot /\ NoSale.old = NoLot
BY LotTypes DEF NoSale, Sales, SaleSteps

\* A ticker between two ticks has nothing to do.
LEMMA ClerkTypes == OffDuty \in Clerks /\ OffDuty.at = "off"
BY LotTypes DEF OffDuty, Clerks, ClerkSteps

\* With or without further candidates the ticker holds no auction.
LEMMA CandidateTypes ==
  ASSUME NEW ids \in SUBSET AuctionIDs
  PROVE  WithCandidates(ids) \in Clerks /\ WithCandidates(ids).at \in {"off", "load"}
<1>1. [OffDuty EXCEPT !.at = "load", !.todo = ids] \in Clerks /\ [OffDuty EXCEPT !.at = "load", !.todo = ids].at = "load"
  BY LotTypes DEF OffDuty, Clerks, ClerkSteps
<1> QED BY <1>1, ClerkTypes DEF WithCandidates

Letters == [to : Players \cup {NoOne}, money : Int, items : SUBSET Items]
Enclosed(letters, x) == \E k \in DOMAIN letters : x \in letters[k].items

\* A mail of the auction house encloses its items if it is sent.
LEMMA LetterTypes ==
  ASSUME NEW sent \in BOOLEAN, NEW to \in Players \cup {NoOne}, NEW money \in Int, NEW items \in SUBSET Items
  PROVE  /\ Letter(sent, to, money, items) \in Seq(Letters)
         /\ \A x : Enclosed(Letter(sent, to, money, items), x) <=> sent /\ x \in items
<1> DEFINE letter == [to |-> to, money |-> money, items |-> items]
<1>1. letter \in Letters /\ letter.items = items
  BY DEF Letters
<1>2. Letter(sent, to, money, items) = IF sent THEN <<letter>> ELSE <<>>
  BY DEF Letter
<1> HIDE DEF letter
<1>3. CASE sent
  <2>1. <<letter>> \in Seq(Letters) /\ DOMAIN <<letter>> = {1} /\ <<letter>>[1] = letter
    BY <1>1
  <2> QED BY <1>1, <1>2, <1>3, <2>1 DEF Enclosed
<1>4. CASE ~sent
  <2>1. <<>> \in Seq(Letters) /\ DOMAIN <<>> = {}
    OBVIOUS
  <2> QED BY <1>2, <1>4, <2>1 DEF Enclosed
<1> QED BY <1>3, <1>4

\* What two batches of mails enclose.
LEMMA EnclosedInBoth ==
  ASSUME NEW s \in Seq(Letters), NEW t \in Seq(Letters), NEW x
  PROVE  s \o t \in Seq(Letters) /\ (Enclosed(s \o t, x) <=> Enclosed(s, x) \/ Enclosed(t, x))
<1>1. s \o t \in Seq(Letters) /\ Len(s \o t) = Len(s) + Len(t) /\ Len(s) \in Nat /\ Len(t) \in Nat
      /\ DOMAIN s = 1..Len(s) /\ DOMAIN t = 1..Len(t) /\ DOMAIN (s \o t) = 1..(Len(s) + Len(t))
  OBVIOUS
<1>2. \A k \in 1..(Len(s) + Len(t)) : (s \o t)[k] = IF k <= Len(s) THEN s[k] ELSE t[k - Len(s)]
  OBVIOUS
<1>3. ASSUME Enclosed(s \o t, x) PROVE Enclosed(s, x) \/ Enclosed(t, x)
  <2>1. PICK k \in 1..(Len(s) + Len(t)) : x \in (s \o t)[k].items
    BY <1>1, <1>3 DEF Enclosed
  <2>2. CASE k <= Len(s)
    BY <1>1, <1>2, <2>1, <2>2 DEF Enclosed
  <2>3. CASE ~(k <= Len(s))
    <3>1. k - Len(s) \in 1..Len(t) /\ x \in t[k - Len(s)].items
      BY <1>1, <1>2, <2>1, <2>3
    <3> QED BY <1>1, <3>1 DEF Enclosed
  <2> QED BY <2>2, <2>3
<1>4. ASSUME Enclosed(s, x) PROVE Enclosed(s \o t, x)
  <2>1. PICK k \in 1..Len(s) : x \in s[k].items
    BY <1>1, <1>4 DEF Enclosed
  <2>2. k \in 1..(Len(s) + Len(t)) /\ (s \o t)[k] = s[k]
    BY <1>1, <1>2
  <2> QED BY <1>1, <2>1, <2>2 DEF Enclosed
<1>5. ASSUME Enclosed(t, x) PROVE Enclosed(s \o t, x)
  <2>1. PICK k \in 1..Len(t) : x \in t[k].items
    BY <1>1, <1>5 DEF Enclosed
  <2>2. k + Len(s) \in 1..(Len(s) + Len(t)) /\ (s \o t)[k + Len(s)] = t[k]
    BY <1>1, <1>2
  <2> QED BY <1>1, <2>1, <2>2 DEF Enclosed
<1> QED BY <1>1, <1>3, <1>4, <1>5

\* MailService.Send attaches exactly the enclosed items to mails that exist.
LEMMA SendTypes ==
  ASSUME mails \in Seq(MailRows), attached \in [Items -> Nat], NEW letters \in Seq(Letters), Send(letters)
  PROVE  /\ mails' \in Seq(MailRows) /\ attached' \in [Items -> Nat]
         /\ \A x \in Items : IF Enclosed(letters, x) THEN attached'[x] # 0 ELSE attached'[x] = attached[x]
<1>1. DOMAIN letters = 1..Len(letters) /\ Len(letters) \in Nat /\ Len(mails) \in Nat
  OBVIOUS
<1>2. mails' \in Seq(MailRows)
  <2>1. ASSUME NEW k \in DOMAIN letters
        PROVE  NewMail(NoOne, letters[k].to, letters[k].money, 0, letters[k].items) \in MailRows
    <3>1. letters[k] \in Letters
      BY <1>1
    <3>2. letters[k].to \in Players \cup {NoOne} /\ letters[k].money \in Int
      BY <3>1 DEF Letters
    <3>3. (letters[k].items # {}) \in BOOLEAN /\ NoOne \in Players \cup {NoOne} /\ 0 \in Int
      OBVIOUS
    <3> QED BY <3>2, <3>3 DEF NewMail, MailRows
  <2> DEFINE new == [k \in DOMAIN letters |-> NewMail(NoOne, letters[k].to, letters[k].money, 0, letters[k].items)]
  <2>2. new \in Seq(MailRows)
    BY <1>1, <2>1
  <2>3. mails' = mails \o new
    BY DEF Send
  <2> HIDE DEF new
  <2> QED BY <2>2, <2>3
<1>3. \A x \in Items : attached'[x] = IF Enclosed(letters, x)
                                     THEN Len(mails) + CHOOSE k \in DOMAIN letters : x \in letters[k].items
                                     ELSE attached[x]
  BY DEF Send, Enclosed
<1>4. DOMAIN attached' = Items /\ attached' = [x \in Items |-> attached'[x]]
  BY DEF Send
<1>5. ASSUME NEW x \in Items
      PROVE  attached'[x] \in Nat /\ IF Enclosed(letters, x) THEN attached'[x] # 0 ELSE attached'[x] = attached[x]
  <2>1. CASE Enclosed(letters, x)
    <3> DEFINE k == CHOOSE n \in DOMAIN letters : x \in letters[n].items
    <3>1. k \in DOMAIN letters
      BY <2>1 DEF Enclosed
    <3>2. attached'[x] = Len(mails) + k
      BY <1>3, <2>1
    <3> HIDE DEF k
    <3> QED BY <1>1, <2>1, <3>1, <3>2
  <2>2. CASE ~Enclosed(letters, x)
    BY <1>3, <2>2
  <2> QED BY <2>1, <2>2
<1> QED BY <1>2, <1>4, <1>5

\* The cut of a bid is a number.
LEMMA CutTypes == \A bid \in Nat : calculateAuctionCut(bid) \in Int
<1>1. CutPercent = 5 \/ CutPercent = 15
  BY AuctionAssumption
<1> QED BY <1>1 DEF calculateAuctionCut

\* NATS appends the event to queues and loses nothing.
LEMMA PublishTypes ==
  ASSUME news \in [Servers -> Seq(LotEvents)], NEW kind \in Kinds, NEW id \in AuctionIDs, NEW lot \in Lots,
         Publish(Event(kind, id, lot))
  PROVE  /\ news' \in [Servers -> Seq(LotEvents)]
         /\ \A i \in Servers : \A k \in DOMAIN news'[i] :
              (k \in DOMAIN news[i] /\ news'[i][k] = news[i][k]) \/ news'[i][k] = Event(kind, id, lot)
<1>1. Event(kind, id, lot) \in LotEvents
  BY DEF Event, LotEvents
<1> DEFINE e == Event(kind, id, lot)
<1> HIDE DEF e
<1>2. news' = [i \in Servers |-> IF i \in opening.servers THEN Append(news[i], e) ELSE news[i]]
  BY DEF Publish, e
<1>3. \A i \in Servers : news[i] \in Seq(LotEvents)
  OBVIOUS
<1>4. e \in LotEvents
  BY <1>1 DEF e
<1>5. ASSUME NEW i \in Servers
      PROVE  /\ news'[i] \in Seq(LotEvents)
             /\ \A k \in DOMAIN news'[i] : (k \in DOMAIN news[i] /\ news'[i][k] = news[i][k]) \/ news'[i][k] = e
  BY <1>2, <1>3, <1>4
<1> QED BY <1>2, <1>5 DEF e

\* A handled event leaves the others in the queue.
LEMMA RemoveTypes ==
  ASSUME NEW s \in Seq(LotEvents), NEW k \in DOMAIN s
  PROVE  /\ RemoveAt(s, k) \in Seq(LotEvents)
         /\ \A j \in DOMAIN RemoveAt(s, k) : \E l \in DOMAIN s : RemoveAt(s, k)[j] = s[l]
<1>1. k \in 1..Len(s) /\ Len(s) \in Nat
  OBVIOUS
<1> DEFINE a == SubSeq(s, 1, k - 1)
           b == SubSeq(s, k + 1, Len(s))
<1>2. a \in Seq(LotEvents) /\ Len(a) = k - 1 /\ \A j \in 1..(k - 1) : a[j] = s[j]
  BY <1>1
<1>3. b \in Seq(LotEvents) /\ Len(b) = Len(s) - k /\ \A j \in 1..(Len(s) - k) : b[j] = s[k + j]
  BY <1>1
<1>4. RemoveAt(s, k) = a \o b
  BY DEF RemoveAt
<1> HIDE DEF a, b
<1>5. a \o b \in Seq(LotEvents) /\ DOMAIN (a \o b) = 1..(Len(s) - 1)
  BY <1>1, <1>2, <1>3
<1>6. ASSUME NEW j \in 1..(Len(s) - 1) PROVE \E l \in DOMAIN s : (a \o b)[j] = s[l]
  <2>1. CASE j <= k - 1
    BY <1>1, <1>2, <1>3, <2>1
  <2>2. CASE ~(j <= k - 1)
    <3>1. (a \o b)[j] = b[j - (k - 1)] /\ j - (k - 1) \in 1..(Len(s) - k)
      BY <1>1, <1>2, <1>3, <2>2
    <3>2. (a \o b)[j] = s[j + 1] /\ j + 1 \in DOMAIN s
      BY <1>1, <1>3, <3>1
    <3> QED BY <3>2
  <2> QED BY <2>1, <2>2
<1> QED BY <1>4, <1>5, <1>6

-----------------------------------------------------------------------------
(* What the parts of the invariant are kept by                              *)

\* Only instances of the service run.
LEMMA OpenServers == ASSUME TableOK, NEW i \in opening.servers PROVE i \in Servers
BY AuctionAssumption DEF TableOK

\* What a step of a call must do to keep calls and sessions in agreement.
LEMMA SetSale ==
  ASSUME SaleOK, NEW p \in Players, NEW c \in Sales, SaleShape(c), sale' = [sale EXCEPT ![p] = c],
         \/ UNCHANGED calls /\ sale[p].at # "none"
         \/ calls' = [calls EXCEPT ![p] = InCall]
         \/ calls' = [calls EXCEPT ![p] = Idle] /\ c.at = "none"
  PROVE  SaleOK'
<1>1. sale' \in [Players -> Sales] /\ calls' \in [Players -> {Idle, InCall}]
  BY DEF SaleOK
<1>2. ASSUME NEW q \in Players PROVE SaleShape(sale'[q]) /\ (sale'[q].at # "none" => calls'[q] = InCall)
  BY <1>1, <1>2 DEF SaleOK
<1> QED BY <1>1, <1>2 DEF SaleOK

\* The first step of an auction call of a session.
LEMMA BeginSale ==
  ASSUME SaleOK, NEW p \in Players, NEW c \in Sales, SaleShape(c), Begin(p, c)
  PROVE  SaleOK' /\ sale' = [sale EXCEPT ![p] = c] /\ sale[p].at = "none"
<1>1. calls' = [calls EXCEPT ![p] = InCall] /\ sale' = [sale EXCEPT ![p] = c]
  BY BeginCalls DEF SaleOK
<1>2. calls[p] # InCall
  BY CallTypes DEF Begin, Free
<1> QED BY <1>1, <1>2, SetSale DEF SaleOK

\* The last one.
LEMMA EndSale ==
  ASSUME SaleOK, NEW p \in Players, End(p)
  PROVE  SaleOK' /\ sale' = [sale EXCEPT ![p] = NoSale]
<1>1. calls' = [calls EXCEPT ![p] = Idle] /\ sale' = [sale EXCEPT ![p] = NoSale]
  BY EndCalls DEF SaleOK
<1> QED BY <1>1, SetSale, SaleTypes DEF SaleShape

\* The record of a call that goes to its next step.
Moved(p, step) == [sale[p] EXCEPT !.at = step]
\* A step in the middle of a call keeps what the call is about.
LEMMA GoesSale ==
  ASSUME SaleOK, NEW p \in Players, sale[p].at \notin {"none", "insert"}, NEW step \in SaleSteps, Goes(p, step), UNCHANGED calls
  PROVE  /\ SaleOK' /\ sale' = [sale EXCEPT ![p] = Moved(p, step)] /\ Moved(p, step).at = step
         /\ Moved(p, step).id = sale[p].id /\ Moved(p, step).lot = sale[p].lot /\ Moved(p, step).old = sale[p].old
<1>1. sale[p] \in Sales /\ SaleShape(sale[p])
  BY DEF SaleOK
<1>2. /\ Moved(p, step) \in Sales /\ Moved(p, step).at = step /\ Moved(p, step).srv = sale[p].srv
      /\ Moved(p, step).id = sale[p].id /\ Moved(p, step).lot = sale[p].lot /\ Moved(p, step).old = sale[p].old
  BY <1>1 DEF Moved, Sales
<1>3. SaleShape(Moved(p, step))
  BY <1>1, <1>2 DEF SaleShape
<1>4. sale' = [sale EXCEPT ![p] = Moved(p, step)]
  BY DEF Goes, Moved, SaleOK
<1> QED BY <1>2, <1>3, <1>4, SetSale

\* Ids are reused by InsertAuction only.
LEMMA SameReuse == ASSUME UNCHANGED listed PROVE \A id : Reused(id)' <=> Reused(id)
BY DEF Reused

\* Rows and tickers left alone keep the claims of the tickers.
LEMMA SameClaims == ASSUME ClerksClaim, UNCHANGED <<rows, clerk, listed>> PROVE ClerksClaim'
<1>1. (\A id \in AuctionIDs : Numbered(id, rows[id]))' /\ (\A i \in Servers : Claims(i))'
  BY DEF ClerksClaim, Claims, Numbered, Reused
<1>2. OneClerkPerLot'
  BY SameReuse DEF ClerksClaim, OneClerkPerLot
<1> QED BY <1>1, <1>2 DEF ClerksClaim

\* One call changes; the copies of the others stay filed.
LEMMA SetFiledSale ==
  ASSUME SaleOK, NEW home, FiledSales(home), NEW p \in Players, NEW c, sale' = [sale EXCEPT ![p] = c], FiledSale(home, c)
  PROVE  FiledSales(home)'
BY DEF SaleOK, FiledSales, FiledSale, Home

\* An event about an auction is filed as that auction is.
LEMMA NewsFiled ==
  ASSUME TableOK, NEW home, FiledNews(home), NEW kind \in Kinds, NEW id \in AuctionIDs, NEW lot \in Lots, Home(home, id, lot),
         Publish(Event(kind, id, lot))
  PROVE  FiledNews(home)'
<1>1. Event(kind, id, lot).id = id /\ Event(kind, id, lot).lot = lot
  BY DEF Event
<1>2. \A i \in Servers : \A k \in DOMAIN news'[i] :
         (k \in DOMAIN news[i] /\ news'[i][k] = news[i][k]) \/ news'[i][k] = Event(kind, id, lot)
  BY PublishTypes DEF TableOK
<1>3. ASSUME NEW i \in Servers, NEW k \in DOMAIN news'[i] PROVE Home(home, news'[i][k].id, news'[i][k].lot)
  BY <1>1, <1>2 DEF FiledNews
<1> QED BY <1>3 DEF FiledNews

\* So is a new entry of a cache.
LEMMA CacheTypes ==
  ASSUME TableOK, NEW i \in Servers, NEW id \in AuctionIDs, NEW lot \in Lots, cache' = [cache EXCEPT ![i][id] = lot]
  PROVE  /\ cache' \in [Servers -> [AuctionIDs -> Lots]]
         /\ \A home : FiledCaches(home) /\ Home(home, id, lot) => FiledCaches(home)'
<1>1. cache' \in [Servers -> [AuctionIDs -> Lots]]
  BY DEF TableOK
<1>2. \A j \in Servers, k \in AuctionIDs : cache'[j][k] = IF j = i /\ k = id THEN lot ELSE cache[j][k]
  BY DEF TableOK
<1> QED BY <1>1, <1>2 DEF FiledCaches, Home

\* An entry that leaves a cache.
LEMMA Uncached ==
  ASSUME TableOK, NEW i \in Servers, NEW id \in AuctionIDs, Uncache(i, id)
  PROVE  /\ cache' \in [Servers -> [AuctionIDs -> Lots]]
         /\ \A home : FiledCaches(home) => FiledCaches(home)'
<1>1. cache' = [cache EXCEPT ![i][id] = NoLot] /\ NoLot \in Lots
  BY LotTypes DEF Uncache
<1>2. \A home : Home(home, id, NoLot)
  BY LotTypes DEF Home
<1> QED BY <1>1, <1>2, CacheTypes

\* An item nobody touches is where it was.
LEMMA SamePlace ==
  ASSUME NEW x \in Items, Place(x), attached'[x] = attached[x],
         Holders(x)' = Holders(x), Sellers(x)' = Sellers(x), Auctioned(x)' = Auctioned(x), Settlers(x)' = Settlers(x),
         \A p \in Players : Closing(p) /\ x \in sale[p].lot.items =>
            Closing(p)' /\ x \in sale'[p].lot.items /\ sale'[p].id = sale[p].id
  PROVE  Place(x)'
<1>1. Unsent(x)' <=> Unsent(x)
  BY DEF Unsent
<1>2. Sent(x) => Sent(x)'
  BY DEF Sent
<1> QED BY <1>1, <1>2 DEF Place

\* A step of a call that has not sent a lot and does not send one.
LEMMA QuietSale ==
  ASSUME SaleOK, LotsKept, NEW p \in Players, NEW c \in Sales, sale' = [sale EXCEPT ![p] = c],
         {sale[p].at, c.at} \cap {"insert", "delete", "cancel"} = {},
         UNCHANGED <<bag, attached, clerk>>, exposed \subseteq exposed', \A x \in Items : Auctioned(x)' = Auctioned(x)
  PROVE  LotsKept'
<1> SUFFICES ASSUME "item" \notin exposed'
             PROVE  (\A x \in Items : Place(x))' /\ (\A q \in Players : Closing(q) => \A x \in sale[q].lot.items : attached[x] # 0)'
  BY DEF LotsKept
<1>1. (\A x \in Items : Place(x)) /\ \A q \in Players : Closing(q) => \A x \in sale[q].lot.items : attached[x] # 0
  BY DEF LotsKept
<1>2. \A q \in Players : (Closing(q)' <=> Closing(q)) /\ (Closing(q) => sale'[q] = sale[q])
  BY DEF Closing, SaleOK
<1>3. ASSUME NEW x \in Items PROVE Place(x)'
  <2>1. Holders(x)' = Holders(x) /\ Settlers(x)' = Settlers(x)
    BY DEF Holders, Settlers
  <2>2. Sellers(x)' = Sellers(x)
    BY DEF Sellers, SaleOK
  <2> QED BY <1>1, <1>2, <2>1, <2>2, SamePlace
<1> QED BY <1>1, <1>2, <1>3

\* The same rows auction the same items.
LEMMA SameAuctioned == ASSUME UNCHANGED rows PROVE \A x \in Items : Auctioned(x)' = Auctioned(x)
BY DEF Auctioned

\* Only SellItem of the gateway makes an item a lot to be listed.
LEMMA UnlistedSame ==
  ASSUME SaleOK, NEW home, Unlisted(home), NEW p \in Players, NEW c, sale' = [sale EXCEPT ![p] = c], c.at # "insert", UNCHANGED bag
  PROVE  Unlisted(home)'
<1>1. ASSUME NEW x \in Items PROVE Holders(x)' = Holders(x) /\ Sellers(x)' \subseteq Sellers(x)
  BY DEF Holders, Sellers, SaleOK
<1> QED BY <1>1 DEF Unlisted

-----------------------------------------------------------------------------
(* The steps of a sale                                                      *)

\* A call that begins with an entry of the cache, or a bid on it.
LEMMA KeepsBeginning ==
  ASSUME HouseInvariant, UNCHANGED <<opening, rows, news, clerk, listed, bag, attached, mails, exposed>>,
         NEW p \in Players, NEW i \in opening.servers, NEW id \in AuctionIDs, NEW c \in Sales, Begin(p, c),
         c.at \in {"updateBid", "mails", "refund"}, c.srv = i, c.id = id, c.old = cache[i][id], c.lot.items = cache[i][id].items,
         cache' \in [Servers -> [AuctionIDs -> Lots]], \A home : FiledCaches(home) => FiledCaches(home)'
  PROVE  HouseInvariant'
<1>0. TableOK /\ PostOK /\ SaleOK /\ ClerkOK /\ ClerksClaim /\ Filed /\ LotsKept
  BY DEF HouseInvariant
<1>i. i \in Servers
  BY <1>0, OpenServers
<1>e. exposed \subseteq exposed'
  OBVIOUS
<1>1. SaleOK' /\ sale' = [sale EXCEPT ![p] = c] /\ sale[p].at = "none"
  BY <1>0, <1>i, BeginSale DEF SaleShape
<1>2. TableOK' /\ PostOK' /\ ClerkOK'
  BY <1>0 DEF TableOK, PostOK, ClerkOK
<1>3. ClerksClaim'
  BY <1>0, SameClaims
<1>4. Filed'
  <2> SUFFICES ASSUME "item" \notin exposed' PROVE \E home \in Homes : FiledBy(home)'
    BY DEF Filed
  <2>0. PICK home \in Homes : FiledBy(home)
    BY <1>0, <1>e DEF Filed
  <2>1. FiledRows(home) /\ FiledCaches(home) /\ FiledNews(home) /\ FiledSales(home) /\ FiledClerks(home) /\ Unlisted(home)
    BY <2>0 DEF FiledBy
  <2>2. FiledSale(home, c)
    BY <1>i, <2>1 DEF FiledSale, FiledCaches, Home
  <2>3. FiledSales(home)'
    BY <1>0, <1>1, <2>1, <2>2, SetFiledSale
  <2>4. FiledRows(home)' /\ FiledNews(home)' /\ FiledClerks(home)' /\ FiledCaches(home)'
    BY <2>1 DEF FiledRows, FiledNews, FiledClerks, Home
  <2>5. Unlisted(home)'
    BY <1>0, <1>1, <2>1, UnlistedSame
  <2> QED BY <2>3, <2>4, <2>5 DEF FiledBy
<1>5. LotsKept'
  BY <1>0, <1>1, QuietSale, SameAuctioned
<1> QED BY <1>1, <1>2, <1>3, <1>4, <1>5 DEF HouseInvariant

\* PlaceBid under the lock: the bid enters the cache.
LEMMA KeepsPlaceBidBegins ==
  ASSUME HouseInvariant, UNCHANGED opening, NEW p \in Players, NEW i \in opening.servers, NEW id \in AuctionIDs, NEW price \in Prices,
         HandleAuctionPlaceBid(p, i, id, price)
  PROVE  HouseInvariant'
<1>0. TableOK /\ price \in Nat
  BY AuctionAssumption DEF HouseInvariant
<1> DEFINE old == cache[i][id]
           lot == [old EXCEPT !.bid = price, !.bidder = p]
           c == [at |-> "updateBid", srv |-> i, id |-> id, lot |-> lot, old |-> old]
<1>1. cache' = [cache EXCEPT ![i][id] = lot] /\ Begin(p, c)
      /\ UNCHANGED <<rows, news, clerk, listed, bag, attached, mails, exposed>>
  BY DEF HandleAuctionPlaceBid
<1>o. i \in Servers /\ old \in Lots
  BY <1>0, OpenServers DEF TableOK
<1> HIDE DEF old
<1>2. i \in Servers /\ old \in Lots /\ lot \in Lots /\ lot.items = old.items
  BY <1>0, <1>o DEF Lots
<1> HIDE DEF lot
<1>3. c \in Sales
  BY <1>2 DEF Sales, SaleSteps
<1>4. cache' \in [Servers -> [AuctionIDs -> Lots]] /\ \A home : FiledCaches(home) /\ Home(home, id, lot) => FiledCaches(home)'
  BY <1>0, <1>1, <1>2, CacheTypes
<1>5. ASSUME NEW home, FiledCaches(home) PROVE Home(home, id, lot)
  BY <1>2, <1>5 DEF FiledCaches, Home, old
<1> QED BY <1>1, <1>2, <1>3, <1>4, <1>5, KeepsBeginning DEF old

\* PlaceBid with the buyout price: nothing is written yet.
LEMMA KeepsBuyout ==
  ASSUME HouseInvariant, UNCHANGED opening, NEW p \in Players, NEW i \in opening.servers, NEW id \in AuctionIDs, NEW price \in Prices,
         Buyout(p, i, id, price)
  PROVE  HouseInvariant'
<1>0. TableOK /\ BuyoutPrice \in Nat
  BY AuctionAssumption DEF HouseInvariant
<1> DEFINE old == cache[i][id]
           lot == [old EXCEPT !.bid = BuyoutPrice, !.bidder = p]
           c == [at |-> "mails", srv |-> i, id |-> id, old |-> old, lot |-> lot]
<1>1. Begin(p, c) /\ UNCHANGED <<rows, cache, news, clerk, listed, bag, attached, mails, exposed>>
  BY DEF Buyout
<1>o. i \in Servers /\ old \in Lots
  BY <1>0, OpenServers DEF TableOK
<1> HIDE DEF old
<1>2. i \in Servers /\ old \in Lots /\ lot \in Lots /\ lot.items = old.items
  BY <1>0, <1>o DEF Lots
<1> HIDE DEF lot
<1>3. c \in Sales
  BY <1>2 DEF Sales, SaleSteps
<1>4. cache' \in [Servers -> [AuctionIDs -> Lots]] /\ \A home : FiledCaches(home) => FiledCaches(home)'
  BY <1>0, <1>1 DEF TableOK, FiledCaches, Home
<1> QED BY <1>1, <1>2, <1>3, <1>4, KeepsBeginning DEF old

\* CancelAuction under the lock: the entry leaves the cache.
LEMMA KeepsRemoveItem ==
  ASSUME HouseInvariant, UNCHANGED opening, NEW p \in Players, NEW i \in opening.servers, NEW id \in AuctionIDs,
         HandleAuctionRemoveItem(p, i, id)
  PROVE  HouseInvariant'
<1>0. TableOK
  BY DEF HouseInvariant
<1> DEFINE old == cache[i][id]
           c == [at |-> "refund", srv |-> i, id |-> id, lot |-> old, old |-> old]
<1>1. Begin(p, c) /\ Uncache(i, id) /\ UNCHANGED <<rows, news, clerk, listed, bag, attached, mails, exposed>>
  BY DEF HandleAuctionRemoveItem
<1>2. i \in Servers /\ old \in Lots
  BY <1>0, OpenServers DEF TableOK
<1> HIDE DEF old
<1>3. c \in Sales
  BY <1>2 DEF Sales, SaleSteps
<1>4. cache' \in [Servers -> [AuctionIDs -> Lots]] /\ \A home : FiledCaches(home) => FiledCaches(home)'
  BY <1>0, <1>1, <1>2, Uncached
<1> QED BY <1>1, <1>2, <1>3, <1>4, KeepsBeginning DEF old

\* The player's items: one of them becomes the lot.
LEMMA KeepsSellItemBegins ==
  ASSUME HouseInvariant, UNCHANGED opening, NEW p \in Players, NEW i \in opening.servers, NEW items \in SUBSET Items, NEW y \in items,
         HandleAuctionSellItem(p, i, items, y)
  PROVE  HouseInvariant'
<1>0. TableOK /\ PostOK /\ SaleOK /\ ClerkOK /\ ClerksClaim /\ Filed /\ LotsKept
  BY DEF HouseInvariant
<1> DEFINE c == [NoSale EXCEPT !.at = "insert", !.srv = i, !.lot = Lot(p, y)]
<1>1. bag' = [bag EXCEPT ![p] = @ \ items] /\ Begin(p, c) /\ exposed' = exposed \cup (IF items = {y} THEN {} ELSE {"item"})
      /\ items \subseteq bag[p] /\ y \in Items
      /\ UNCHANGED <<rows, cache, news, clerk, listed, attached, mails>>
  BY DEF HandleAuctionSellItem, Expose, postOffice
<1>e. exposed \subseteq exposed'
  BY <1>1
<1>2. i \in Servers /\ Lot(p, y) \in Lots /\ Lot(p, y).items = {y}
  BY <1>0, <1>1, OpenServers, LotTypes
<1>3. c \in Sales /\ c.at = "insert" /\ c.srv = i /\ c.lot = Lot(p, y)
  BY <1>2, SaleTypes DEF Sales, SaleSteps
<1> HIDE DEF c
<1>4. SaleOK' /\ sale' = [sale EXCEPT ![p] = c] /\ sale[p].at = "none"
  BY <1>0, <1>1, <1>2, <1>3, BeginSale DEF SaleShape
<1>5. TableOK' /\ ClerkOK' /\ PostOK'
  BY <1>0, <1>1 DEF TableOK, PostOK, ClerkOK
<1>6. ClerksClaim'
  BY <1>0, <1>1, SameClaims
<1>h. \A x \in Items : Holders(x)' = IF x \in items THEN Holders(x) \ {p} ELSE Holders(x)
  BY <1>0, <1>1 DEF Holders, PostOK
<1>s. \A x \in Items : Sellers(x)' = IF x = y THEN Sellers(x) \cup {p} ELSE Sellers(x)
  BY <1>0, <1>2, <1>3, <1>4 DEF Sellers, SaleOK
<1>p. \A x \in items : p \in Holders(x)
  BY <1>1 DEF Holders
<1>7. Filed'
  <2> SUFFICES ASSUME "item" \notin exposed' PROVE \E home \in Homes : FiledBy(home)'
    BY DEF Filed
  <2>0. PICK home \in Homes : FiledBy(home)
    BY <1>0, <1>e DEF Filed
  <2>1. FiledRows(home) /\ FiledCaches(home) /\ FiledNews(home) /\ FiledSales(home) /\ FiledClerks(home) /\ Unlisted(home)
    BY <2>0 DEF FiledBy
  <2>3. FiledSales(home)'
    BY <1>0, <1>3, <1>4, <2>1, SetFiledSale DEF FiledSale
  <2>4. FiledRows(home)' /\ FiledNews(home)' /\ FiledClerks(home)' /\ FiledCaches(home)'
    BY <1>1, <2>1 DEF FiledRows, FiledNews, FiledClerks, FiledCaches, Home
  <2>5. Unlisted(home)'
    BY <1>1, <1>h, <1>s, <1>p, <2>1 DEF Unlisted
  <2> QED BY <2>3, <2>4, <2>5 DEF FiledBy
<1>8. LotsKept'
  <2> SUFFICES ASSUME "item" \notin exposed'
               PROVE  (\A x \in Items : Place(x))' /\ (\A q \in Players : Closing(q) => \A x \in sale[q].lot.items : attached[x] # 0)'
    BY DEF LotsKept
  <2>1. (\A x \in Items : Place(x)) /\ (\A q \in Players : Closing(q) => \A x \in sale[q].lot.items : attached[x] # 0) /\ items = {y}
    BY <1>0, <1>1 DEF LotsKept
  <2>2. \A q \in Players : (Closing(q)' <=> Closing(q)) /\ (Closing(q) => sale'[q] = sale[q])
    BY <1>0, <1>3, <1>4 DEF Closing, SaleOK
  <2>3. ASSUME NEW x \in Items PROVE Place(x)'
    <3>1. Auctioned(x)' = Auctioned(x) /\ Settlers(x)' = Settlers(x)
      BY <1>1 DEF Auctioned, Settlers
    <3>2. CASE x # y
      BY <1>1, <1>h, <1>s, <2>1, <2>2, <3>1, <3>2, SamePlace
    <3>3. CASE x = y
      <4>1. p \in Holders(x)
        BY <1>p, <3>3
      <4>2. attached[x] = 0 /\ Unsent(x)
        BY <2>1, <4>1 DEF Place, Sent
      <4>3. Holders(x) = {p} /\ Sellers(x) = {} /\ Auctioned(x) = {} /\ Settlers(x) = {}
        BY <4>1, <4>2 DEF Unsent
      <4>4. Holders(x)' = {} /\ Sellers(x)' = {p} /\ Auctioned(x)' = {} /\ Settlers(x)' = {}
        BY <1>h, <1>s, <2>1, <3>1, <3>3, <4>3
      <4>5. Unsent(x)'
        BY <4>4 DEF Unsent
      <4> QED BY <1>1, <4>2, <4>5 DEF Place
    <3> QED BY <3>2, <3>3
  <2>4. \A q \in Players : Closing(q)' => \A x \in sale'[q].lot.items : attached'[x] # 0
    BY <1>1, <2>1, <2>2
  <2> QED BY <2>3, <2>4
<1> QED BY <1>4, <1>5, <1>6, <1>7, <1>8 DEF HouseInvariant

\* What is exposed stays exposed.
LEMMA Exposing == ASSUME NEW what, Expose(what) PROVE exposed' = exposed \cup what /\ exposed \subseteq exposed'
BY DEF Expose

\* No auction has the id 0.
LEMMA IdsArePositive == 0 \notin AuctionIDs
<1> DEFINE n == Cardinality(AuctionIDs)
<1>1. AuctionIDs = 1..n
  BY AuctionAssumption
<1> HIDE DEF n
<1>2. \A m : 0 \notin 1..m
  OBVIOUS
<1> QED BY <1>1, <1>2

\* A call ends or goes on without a lot of its own on the way.
LEMMA KeepsQuietStep ==
  ASSUME HouseInvariant, UNCHANGED <<opening, clerk, listed, bag, attached>>,
         NEW p \in Players, NEW c \in Sales, sale' = [sale EXCEPT ![p] = c], SaleOK',
         {sale[p].at, c.at} \cap {"insert", "delete", "cancel"} = {},
         \A home : FiledSale(home, sale[p]) => FiledSale(home, c),
         exposed \subseteq exposed', mails' \in Seq(MailRows),
         rows' \in [AuctionIDs -> Lots], \A id \in AuctionIDs : rows'[id].items = rows[id].items,
         ClerksClaim',
         cache' \in [Servers -> [AuctionIDs -> Lots]], news' \in [Servers -> Seq(LotEvents)],
         \A home : FiledSale(home, sale[p]) => (FiledCaches(home) => FiledCaches(home)') /\ (FiledNews(home) => FiledNews(home)')
  PROVE  HouseInvariant'
<1>0. TableOK /\ PostOK /\ SaleOK /\ ClerkOK /\ ClerksClaim /\ Filed /\ LotsKept
  BY DEF HouseInvariant
<1>1. TableOK' /\ PostOK' /\ ClerkOK'
  BY <1>0 DEF TableOK, PostOK, ClerkOK
<1>2. Filed'
  <2> SUFFICES ASSUME "item" \notin exposed' PROVE \E home \in Homes : FiledBy(home)'
    BY DEF Filed
  <2>0. PICK home \in Homes : FiledBy(home)
    BY <1>0 DEF Filed
  <2>1. FiledRows(home) /\ FiledCaches(home) /\ FiledNews(home) /\ FiledSales(home) /\ FiledClerks(home) /\ Unlisted(home)
    BY <2>0 DEF FiledBy
  <2>2. FiledSale(home, sale[p])
    BY <2>1 DEF FiledSales
  <2>3. FiledSales(home)'
    BY <1>0, <2>1, <2>2, SetFiledSale
  <2>4. FiledRows(home)' /\ FiledNews(home)' /\ FiledClerks(home)' /\ FiledCaches(home)'
    BY <2>1, <2>2 DEF FiledRows, FiledClerks, Home
  <2>5. Unlisted(home)'
    BY <1>0, <2>1, UnlistedSame
  <2> QED BY <2>3, <2>4, <2>5 DEF FiledBy
<1>3. \A x \in Items : Auctioned(x)' = Auctioned(x)
  BY DEF Auctioned
<1>4. LotsKept'
  BY <1>0, <1>3, QuietSale
<1> QED BY <1>0, <1>1, <1>2, <1>4 DEF HouseInvariant

\* No call has no copies of an auction.
LEMMA NoSaleFiled == \A home : FiledSale(home, NoSale)
BY SaleTypes DEF FiledSale

\* SellItem puts the listed auction into the cache and announces it.
LEMMA KeepsSellItem == ASSUME HouseInvariant, UNCHANGED opening, NEW p \in Players, SellItem(p) PROVE HouseInvariant'
<1>0. TableOK /\ PostOK /\ SaleOK /\ ClerksClaim
  BY DEF HouseInvariant
<1> DEFINE c == sale[p]
<1>1. cache' = [cache EXCEPT ![c.srv][c.id] = c.lot] /\ Publish(Event("created", c.id, c.lot)) /\ End(p) /\ c.at = "list"
      /\ UNCHANGED <<bag, mails, attached, exposed, rows, clerk, listed>>
  BY DEF SellItem, Selling
<1>2. c \in Sales /\ c.lot \in Lots /\ c.id \in AuctionIDs /\ c.srv \in Servers
  BY <1>0, <1>1 DEF SaleOK, SaleShape, Sales
<1>3. SaleOK' /\ sale' = [sale EXCEPT ![p] = NoSale]
  BY <1>0, <1>1, EndSale
<1>4. ClerksClaim'
  BY <1>0, <1>1, SameClaims
<1> HIDE DEF c
<1>5. cache' \in [Servers -> [AuctionIDs -> Lots]] /\ news' \in [Servers -> Seq(LotEvents)]
      /\ \A home : Home(home, c.id, c.lot) => (FiledCaches(home) => FiledCaches(home)') /\ (FiledNews(home) => FiledNews(home)')
  <2>1. "created" \in Kinds
    BY DEF Kinds
  <2>2. cache' \in [Servers -> [AuctionIDs -> Lots]] /\ \A home : FiledCaches(home) /\ Home(home, c.id, c.lot) => FiledCaches(home)'
    BY <1>0, <1>1, <1>2, CacheTypes
  <2>3. news' \in [Servers -> Seq(LotEvents)]
    BY <1>0, <1>1, <1>2, <2>1, PublishTypes DEF TableOK
  <2>4. ASSUME NEW home, FiledNews(home), Home(home, c.id, c.lot) PROVE FiledNews(home)'
    BY <1>0, <1>1, <1>2, <2>1, <2>4, NewsFiled
  <2> QED BY <2>2, <2>3, <2>4
<1>6. \A home : FiledSale(home, c) => Home(home, c.id, c.lot)
  BY <1>1 DEF FiledSale
<1>7. {c.at, NoSale.at} \cap {"insert", "delete", "cancel"} = {}
  BY <1>1, SaleTypes
<1> QED BY <1>0, <1>1, <1>3, <1>4, <1>5, <1>6, <1>7, NoSaleFiled, SaleTypes, KeepsQuietStep DEF c, TableOK, PostOK

\* Rows are deleted, or only their bid and bidder change.
LEMMA BidClaims ==
  ASSUME TableOK, ClerkOK, ClerksClaim, UNCHANGED <<clerk, listed>>, rows' \in [AuctionIDs -> Lots],
         \A id \in AuctionIDs : rows'[id] = NoLot \/ (rows[id] # NoLot /\ rows'[id].no = rows[id].no)
  PROVE  ClerksClaim'
<1>1. ASSUME NEW id \in AuctionIDs PROVE Numbered(id, rows[id])'
  BY DEF ClerksClaim, Numbered
<1>2. ASSUME NEW i \in Servers PROVE Claims(i)'
  <2>1. Claims(i) /\ (clerk[i].at = "settle" => clerk[i].id \in AuctionIDs) /\ clerk'[i] = clerk[i]
    BY DEF ClerksClaim, ClerkOK, ClerkShape
  <2>2. clerk[i].at = "settle" => rows'[clerk[i].id] = NoLot \/ Reused(clerk[i].id)'
    BY <2>1, SameReuse DEF Claims
  <2> QED BY <2>1, <2>2 DEF Claims, Numbered
<1>3. OneClerkPerLot'
  BY SameReuse DEF ClerksClaim, OneClerkPerLot
<1> QED BY <1>1, <1>2, <1>3 DEF ClerksClaim

\* UpdateBid of the repository changes the bid of a row, never its lot.
LEMMA KeepsUpdateBid ==
  ASSUME HouseInvariant, UNCHANGED opening, NEW p \in Players, NEW failed \in {"none", "update"}, UpdateBid(p, failed)
  PROVE  HouseInvariant'
<1>0. TableOK /\ PostOK /\ SaleOK /\ ClerkOK /\ ClerksClaim
  BY DEF HouseInvariant
<1>1. sale[p].at = "updateBid" /\ UNCHANGED <<bag, mails, attached, cache, news, clerk, listed>>
  BY DEF UpdateBid, Selling
<1>2. sale[p] \in Sales /\ sale[p].lot \in Lots /\ sale[p].id \in AuctionIDs /\ sale[p].srv \in Servers
  BY <1>0, <1>1 DEF SaleOK, SaleShape, Sales
<1>3. cache' \in [Servers -> [AuctionIDs -> Lots]] /\ news' \in [Servers -> Seq(LotEvents)] /\ mails' \in Seq(MailRows)
      /\ \A home : (FiledCaches(home) => FiledCaches(home)') /\ (FiledNews(home) => FiledNews(home)')
  BY <1>0, <1>1 DEF TableOK, PostOK, FiledCaches, FiledNews, Home
<1>4. CASE failed = "none"
  <2> DEFINE id == sale[p].id
             lot == [rows[id] EXCEPT !.bid = sale[p].lot.bid, !.bidder = p]
             c == Moved(p, "announce")
  <2>1. rows' = IF rows[id] = NoLot THEN rows ELSE [rows EXCEPT ![id].bid = sale[p].lot.bid, ![id].bidder = p]
    BY <1>4 DEF UpdateBid
  <2>2. Goes(p, "announce") /\ UNCHANGED calls /\ exposed \subseteq exposed'
    BY <1>4, Exposing DEF UpdateBid
  <2>3. rows[id] \in Lots /\ sale[p].lot.bid \in Nat
    BY <1>0, <1>2 DEF TableOK, Lots
  <2>4. lot \in Lots /\ lot.items = rows[id].items /\ lot.no = rows[id].no
    BY <2>3 DEF Lots
  <2>5. rows[id] # NoLot => rows' = [rows EXCEPT ![id] = lot]
    BY <2>1
  <2>6. SaleOK' /\ sale' = [sale EXCEPT ![p] = c] /\ c.at = "announce" /\ c.id = sale[p].id /\ c.lot = sale[p].lot /\ c.old = sale[p].old
    BY <1>0, <1>1, <2>2, GoesSale DEF SaleSteps
  <2> HIDE DEF lot, id, c
  <2>7. rows' \in [AuctionIDs -> Lots] /\ \A k \in AuctionIDs :
           rows'[k].items = rows[k].items /\ rows'[k].no = rows[k].no /\ (rows[k] = NoLot => rows'[k] = NoLot)
    BY <1>0, <2>1, <2>4, <2>5 DEF TableOK
  <2>8. ClerksClaim'
    BY <1>0, <1>1, <2>7, BidClaims
  <2>9. c \in Sales
    BY <1>0, <2>6 DEF SaleOK
  <2>10. \A home : FiledSale(home, sale[p]) => FiledSale(home, c)
    BY <1>1, <2>6 DEF FiledSale
  <2> QED BY <1>1, <1>3, <2>2, <2>6, <2>7, <2>8, <2>9, <2>10, KeepsQuietStep
<1>5. CASE failed # "none"
  <2>1. End(p) /\ UNCHANGED <<rows, exposed>>
    BY <1>5 DEF UpdateBid
  <2>2. SaleOK' /\ sale' = [sale EXCEPT ![p] = NoSale]
    BY <1>0, <2>1, EndSale
  <2>3. ClerksClaim'
    BY <1>0, <1>1, <2>1, SameClaims
  <2> QED BY <1>0, <1>1, <1>3, <2>1, <2>2, <2>3, NoSaleFiled, SaleTypes, KeepsQuietStep DEF TableOK
<1> QED BY <1>4, <1>5

\* An announcement of a bid or a buyout.
LEMMA EventFiled ==
  ASSUME TableOK, SaleOK, NEW p \in Players, sale[p].at \notin {"none", "insert"}, NEW kind \in Kinds,
         Publish(Event(kind, sale[p].id, sale[p].lot))
  PROVE  /\ news' \in [Servers -> Seq(LotEvents)]
         /\ \A home : FiledSale(home, sale[p]) /\ FiledNews(home) => FiledNews(home)'
<1>1. sale[p].lot \in Lots /\ sale[p].id \in AuctionIDs
  BY DEF SaleOK, SaleShape, Sales
<1>2. news' \in [Servers -> Seq(LotEvents)]
  BY <1>1, PublishTypes DEF TableOK
<1>3. ASSUME NEW home, FiledSale(home, sale[p]), FiledNews(home) PROVE FiledNews(home)'
  <2>1. Home(home, sale[p].id, sale[p].lot)
    BY <1>3 DEF FiledSale
  <2> QED BY <1>1, <1>3, <2>1, NewsFiled
<1> QED BY <1>2, <1>3

\* PlaceBid refunds by a mail without a lot.
LEMMA KeepsPlaceBid ==
  ASSUME HouseInvariant, UNCHANGED opening, NEW p \in Players, NEW failed \in {"none", "refund", "money"}, PlaceBid(p, failed)
  PROVE  HouseInvariant'
<1>0. TableOK /\ PostOK /\ SaleOK /\ ClerkOK /\ ClerksClaim
  BY DEF HouseInvariant
<1> DEFINE c == sale[p]
           sent == c.old.bidder \notin {NoOne, p} /\ failed # "refund"
           letters == Letter(sent, c.old.bidder, c.old.bid, {})
<1>1. c.at = "announce" /\ Send(letters) /\ Publish(Event("bid", c.id, c.lot)) /\ End(p)
      /\ UNCHANGED <<bag, rows, cache, clerk, listed>>
  BY DEF PlaceBid, Selling
<1>2. exposed \subseteq exposed'
  BY DEF PlaceBid, Pay, Expose
<1>3. c.old.bidder \in Players \cup {NoOne} /\ c.old.bid \in Int
  BY <1>0 DEF SaleOK, Sales, Lots
<1>4. letters \in Seq(Letters) /\ \A x : ~Enclosed(letters, x)
  <2>1. sent \in BOOLEAN /\ {} \in SUBSET Items
    OBVIOUS
  <2> HIDE DEF sent
  <2> QED BY <1>3, <2>1, LetterTypes
<1> HIDE DEF letters
<1>5. mails' \in Seq(MailRows) /\ attached' = attached
  <2>1. mails' \in Seq(MailRows) /\ attached' \in [Items -> Nat] /\ \A x \in Items : attached'[x] = attached[x]
    BY <1>0, <1>1, <1>4, SendTypes DEF PostOK
  <2> QED BY <1>0, <2>1 DEF PostOK
<1>6. news' \in [Servers -> Seq(LotEvents)] /\ \A home : FiledSale(home, c) /\ FiledNews(home) => FiledNews(home)'
  BY <1>0, <1>1, EventFiled DEF Kinds
<1>7. SaleOK' /\ sale' = [sale EXCEPT ![p] = NoSale]
  BY <1>0, <1>1, EndSale
<1>8. ClerksClaim'
  BY <1>0, <1>1, SameClaims
<1>9. cache' \in [Servers -> [AuctionIDs -> Lots]] /\ rows' \in [AuctionIDs -> Lots]
      /\ \A home : FiledCaches(home) => FiledCaches(home)'
  BY <1>0, <1>1 DEF TableOK, FiledCaches, Home
<1>10. {c.at, NoSale.at} \cap {"insert", "delete", "cancel"} = {}
  BY <1>1, SaleTypes
<1> QED BY <1>1, <1>2, <1>5, <1>6, <1>7, <1>8, <1>9, <1>10, NoSaleFiled, SaleTypes, KeepsQuietStep

\* A buyout ends after the row is gone: the cache and the event.
LEMMA KeepsCloseAuction ==
  ASSUME HouseInvariant, UNCHANGED opening, NEW p \in Players, NEW failed \in {"none", "money"}, CloseAuction(p, failed)
  PROVE  HouseInvariant'
<1>0. TableOK /\ PostOK /\ SaleOK /\ ClerkOK /\ ClerksClaim
  BY DEF HouseInvariant
<1> DEFINE c == sale[p]
<1>1. c.at = "close" /\ Uncache(c.srv, c.id) /\ Publish(Event("buyout", c.id, c.lot)) /\ End(p)
      /\ UNCHANGED <<bag, rows, mails, attached, clerk, listed>>
  BY DEF CloseAuction, Selling
<1>2. exposed \subseteq exposed'
  BY DEF CloseAuction, Pay, Expose
<1>3. c.srv \in Servers /\ c.id \in AuctionIDs
  BY <1>0, <1>1 DEF SaleOK, SaleShape
<1>6. news' \in [Servers -> Seq(LotEvents)] /\ \A home : FiledSale(home, c) /\ FiledNews(home) => FiledNews(home)'
  BY <1>0, <1>1, EventFiled DEF Kinds
<1>7. SaleOK' /\ sale' = [sale EXCEPT ![p] = NoSale]
  BY <1>0, <1>1, EndSale
<1>8. ClerksClaim'
  BY <1>0, <1>1, SameClaims
<1>9. rows' \in [AuctionIDs -> Lots] /\ mails' \in Seq(MailRows)
  BY <1>0, <1>1 DEF TableOK, PostOK
<1>10. cache' \in [Servers -> [AuctionIDs -> Lots]] /\ \A home : FiledCaches(home) => FiledCaches(home)'
  BY <1>0, <1>1, <1>3, Uncached
<1>11. {c.at, NoSale.at} \cap {"insert", "delete", "cancel"} = {}
  BY <1>1, SaleTypes
<1> QED BY <1>1, <1>2, <1>6, <1>7, <1>8, <1>9, <1>10, <1>11, NoSaleFiled, SaleTypes, KeepsQuietStep

\* The first step of a sale: the row.
LEMMA KeepsInsertAuction ==
  ASSUME HouseInvariant, UNCHANGED opening, NEW p \in Players, NEW failed \in {"none", "insert"}, InsertAuction(p, failed)
  PROVE  HouseInvariant'
<1>0. TableOK /\ PostOK /\ SaleOK /\ ClerkOK /\ ClerksClaim /\ Filed /\ LotsKept
  BY DEF HouseInvariant
<1> DEFINE id == nextID[sale[p].srv]
           lot == [sale[p].lot EXCEPT !.no = Len(listed) + 1]
           c == [sale[p] EXCEPT !.at = "list", !.id = id, !.lot = lot]
<1>1. sale[p].at = "insert" /\ id \in AuctionIDs /\ UNCHANGED <<bag, mails, attached, cache, news, clerk>>
  BY DEF InsertAuction, Selling
<1>2. PostOK' /\ ClerkOK'
  BY <1>0, <1>1 DEF PostOK, ClerkOK
<1>3. ASSUME ~(rows[id] = NoLot /\ failed = "none") PROVE HouseInvariant'
  <2>1. End(p) /\ "item" \in exposed' /\ UNCHANGED <<rows, listed>>
    BY <1>3 DEF InsertAuction, Expose
  <2>2. SaleOK'
    BY <1>0, <2>1, EndSale
  <2>3. TableOK' /\ ClerksClaim'
    BY <1>0, <1>1, <2>1, SameClaims DEF TableOK
  <2> QED BY <1>2, <2>1, <2>2, <2>3 DEF HouseInvariant, Filed, LotsKept
<1>4. ASSUME rows[id] = NoLot, failed = "none" PROVE HouseInvariant'
  <2>1. rows' = [rows EXCEPT ![id] = lot] /\ listed' = Append(listed, id) /\ UNCHANGED <<exposed, calls>>
    BY <1>4 DEF InsertAuction
  <2>2. sale' = [sale EXCEPT ![p] = c]
    BY <1>0, <1>4 DEF InsertAuction, SaleOK
  <2>3. sale[p] \in Sales /\ sale[p].lot \in Lots /\ sale[p].srv \in Servers /\ Len(listed) \in Nat
    BY <1>0, <1>1 DEF SaleOK, SaleShape, Sales, TableOK
  <2>4. lot \in Lots /\ lot.items = sale[p].lot.items /\ lot.no = Len(listed) + 1
    BY <2>3 DEF Lots
  <2> HIDE DEF lot, id
  <2>5. c \in Sales /\ c.at = "list" /\ c.srv \in Servers /\ c.id = id /\ c.lot = lot
    BY <1>1, <2>3, <2>4 DEF Sales, SaleSteps
  <2> HIDE DEF c
  <2>6. SaleOK'
    BY <1>0, <1>1, <2>1, <2>2, <2>5, SetSale DEF SaleShape
  <2>7. listed' \in Seq(AuctionIDs) /\ DOMAIN listed' = DOMAIN listed \cup {Len(listed) + 1} /\ listed'[Len(listed) + 1] = id
        /\ \A k \in DOMAIN listed : listed'[k] = listed[k] /\ k # Len(listed) + 1
    <3>1. listed \in Seq(AuctionIDs)
      BY <1>0 DEF TableOK
    <3> QED BY <1>1, <2>1, <3>1
  <2>8. TableOK'
    BY <1>0, <1>1, <2>1, <2>4, <2>7 DEF TableOK
  <2>9. ClerksClaim'
    <3>1. \A k, l : Numbered(k, l) => Numbered(k, l)'
      BY <2>7 DEF Numbered
    <3>2. ASSUME NEW k \in AuctionIDs PROVE Numbered(k, rows[k])'
      BY <1>0, <2>1, <2>4, <2>7, <3>1 DEF ClerksClaim, Numbered, TableOK
    <3>3. ASSUME NEW k, Reused(k) PROVE Reused(k)'
      BY <2>7, <3>3 DEF Reused
    <3>4. ASSUME NEW i \in Servers PROVE Claims(i)'
      <4>1. Claims(i) /\ clerk[i] = clerk'[i] /\ (clerk[i].at = "settle" => clerk[i].id \in AuctionIDs)
        BY <1>0, <1>1 DEF ClerksClaim, ClerkOK, ClerkShape
      <4>2. clerk[i].at \in {"claim", "settle"} => clerk'[i].row # NoLot /\ Numbered(clerk[i].id, clerk[i].row)'
        BY <1>1, <3>1, <4>1 DEF Claims, Numbered
      <4>3. ASSUME clerk[i].at = "settle" PROVE rows'[clerk[i].id] = NoLot \/ Reused(clerk[i].id)'
        <5>1. CASE clerk[i].id # id
          BY <1>0, <2>1, <3>3, <4>1, <4>3, <5>1 DEF Claims, TableOK
        <5>2. CASE clerk[i].id = id
          <6>1. clerk[i].row.no \in DOMAIN listed /\ listed[clerk[i].row.no] = id
            BY <4>1, <4>3, <5>2 DEF Claims, Numbered
          <6> QED BY <1>1, <2>7, <5>2, <6>1 DEF Reused
        <5> QED BY <5>1, <5>2
      <4> QED BY <1>1, <4>2, <4>3 DEF Claims
    <3>5. OneClerkPerLot'
      BY <1>0, <1>1, <3>3 DEF ClerksClaim, OneClerkPerLot
    <3> QED BY <3>2, <3>4, <3>5 DEF ClerksClaim
  <2> DEFINE items == lot.items
  <2>s. \A x \in Items : Sellers(x)' = Sellers(x) \ {p}
    BY <1>0, <2>2, <2>5 DEF Sellers, SaleOK
  <2>i. \A x \in Items : p \in Sellers(x) <=> x \in items
    BY <1>1, <2>4 DEF Sellers
  <2>a. \A x \in Items : Auctioned(x)' = IF x \in items THEN Auctioned(x) \cup {id} ELSE Auctioned(x)
    <3>1. \A k \in AuctionIDs : rows'[k] = IF k = id THEN lot ELSE rows[k]
      BY <1>0, <2>1 DEF TableOK
    <3>2. rows[id].items = {}
      BY <1>4, LotTypes
    <3> QED BY <1>1, <3>1, <3>2 DEF Auctioned
  <2>h. \A x \in Items : Holders(x)' = Holders(x) /\ Settlers(x)' = Settlers(x)
    BY <1>1 DEF Holders, Settlers
  <2> SUFFICES ASSUME "item" \notin exposed PROVE HouseInvariant'
    BY <1>2, <2>1, <2>6, <2>8, <2>9 DEF HouseInvariant, Filed, LotsKept
  <2>10. (\A x \in Items : Place(x)) /\ (\A q \in Players : Closing(q) => \A x \in sale[q].lot.items : attached[x] # 0)
    BY <1>0 DEF LotsKept
  <2>11. ASSUME NEW x \in items PROVE x \in Items /\ attached[x] = 0 /\ Holders(x) = {} /\ Sellers(x) = {p} /\ Auctioned(x) = {} /\ Settlers(x) = {}
    <3>1. x \in Items
      BY <2>4 DEF Lots
    <3>2. p \in Sellers(x)
      BY <2>i, <3>1
    <3>3. attached[x] = 0 /\ Unsent(x)
      BY <2>10, <3>1, <3>2 DEF Place, Sent
    <3> QED BY <3>1, <3>2, <3>3 DEF Unsent
  <2>12. Filed'
    <3>1. PICK home \in Homes : FiledBy(home)
      BY <1>0 DEF Filed
    <3>2. FiledRows(home) /\ FiledCaches(home) /\ FiledNews(home) /\ FiledSales(home) /\ FiledClerks(home) /\ Unlisted(home)
      BY <3>1 DEF FiledBy
    <3>3. PICK now \in Homes : \A x \in Items : now[x] = IF x \in items THEN id ELSE home[x]
      <4>1. [x \in Items |-> IF x \in items THEN id ELSE home[x]] \in Homes
        BY <1>1, <3>1 DEF Homes
      <4> QED BY <4>1
    <3>4. \A x \in items : home[x] = 0
      BY <2>11, <3>2 DEF Unlisted
    <3>5. ASSUME NEW k \in AuctionIDs, NEW l \in Lots, Home(home, k, l) PROVE Home(now, k, l)
      <4>1. k # 0 /\ l.items \subseteq Items
        BY IdsArePositive DEF Lots
      <4> QED BY <3>3, <3>4, <3>5, <4>1 DEF Home
    <3>6. Home(now, id, lot)
      BY <2>4, <3>3 DEF Home, Lots
    <3>7. FiledRows(now)'
      BY <1>0, <2>1, <3>2, <3>5, <3>6 DEF FiledRows, TableOK, Home
    <3>8. FiledCaches(now)'
      <4>1. \A i \in Servers, k \in AuctionIDs : cache[i][k] \in Lots /\ Home(home, k, cache[i][k])
        BY <1>0, <3>2 DEF TableOK, FiledCaches
      <4>2. \A i \in Servers, k \in AuctionIDs : Home(now, k, cache[i][k])
        BY <3>5, <4>1
      <4> QED BY <1>1, <4>2 DEF FiledCaches, Home
    <3>9. FiledNews(now)'
      <4>1. ASSUME NEW i \in Servers, NEW k \in DOMAIN news[i] PROVE Home(now, news[i][k].id, news[i][k].lot)
        <5>1. news[i][k] \in LotEvents
          BY <1>0 DEF TableOK
        <5>2. Home(home, news[i][k].id, news[i][k].lot)
          BY <3>2 DEF FiledNews
        <5> QED BY <3>5, <5>1, <5>2 DEF LotEvents
      <4> QED BY <1>1, <4>1 DEF FiledNews, Home
    <3>10. FiledSales(now)'
      <4>1. FiledSale(now, c)
        BY <2>5, <3>6 DEF FiledSale
      <4>2. ASSUME NEW q \in Players PROVE FiledSale(now, sale[q])
        <5>1. FiledSale(home, sale[q]) /\ sale[q] \in Sales /\ SaleShape(sale[q])
          BY <1>0, <3>2 DEF FiledSales, SaleOK
        <5> QED BY <3>5, <5>1 DEF FiledSale, SaleShape, Sales
      <4> QED BY <1>0, <2>2, <4>1, <4>2, SetFiledSale DEF FiledSales
    <3>11. FiledClerks(now)'
      <4>1. ASSUME NEW i \in Servers, clerk[i].at \in {"claim", "settle"} PROVE Home(now, clerk[i].id, clerk[i].row)
        <5>1. clerk[i].id \in AuctionIDs /\ clerk[i].row \in Lots
          BY <1>0, <4>1 DEF ClerkOK, ClerkShape, Clerks
        <5>2. Home(home, clerk[i].id, clerk[i].row)
          BY <3>2, <4>1 DEF FiledClerks
        <5> QED BY <3>5, <5>1, <5>2
      <4> QED BY <1>1, <4>1 DEF FiledClerks, Home
    <3>12. Unlisted(now)'
      <4>1. ASSUME NEW x \in Items, Holders(x)' \cup Sellers(x)' # {} PROVE now[x] = 0
        <5>1. x \notin items
          BY <2>11, <2>s, <2>h, <4>1
        <5>2. home[x] = 0
          BY <2>s, <2>h, <3>2, <4>1 DEF Unlisted
        <5> QED BY <3>3, <5>1, <5>2
      <4> QED BY <4>1 DEF Unlisted
    <3> QED BY <3>3, <3>7, <3>8, <3>9, <3>10, <3>11, <3>12 DEF Filed, FiledBy
  <2>13. LotsKept'
    <3>1. \A q \in Players : (Closing(q)' <=> Closing(q)) /\ (Closing(q) => sale'[q] = sale[q])
      BY <1>0, <1>1, <2>2, <2>5 DEF Closing, SaleOK
    <3>2. ASSUME NEW x \in Items PROVE Place(x)'
      <4>1. CASE x \notin items
        <5>1. Sellers(x)' = Sellers(x) /\ Auctioned(x)' = Auctioned(x)
          BY <2>s, <2>i, <2>a, <4>1
        <5> QED BY <1>1, <2>10, <2>h, <3>1, <5>1, SamePlace
      <4>2. CASE x \in items
        <5>1. Holders(x)' = {} /\ Sellers(x)' = {} /\ Settlers(x)' = {} /\ Auctioned(x)' = {id}
          BY <2>11, <2>s, <2>a, <2>h, <4>2
        <5>2. Unsent(x)'
          BY <1>1, <5>1 DEF Unsent
        <5> QED BY <1>1, <2>11, <4>2, <5>2 DEF Place
      <4> QED BY <4>1, <4>2
    <3>3. \A q \in Players : Closing(q)' => \A x \in sale'[q].lot.items : attached'[x] # 0
      BY <1>1, <2>10, <3>1
    <3> QED BY <3>2, <3>3 DEF LotsKept
  <2> QED BY <1>2, <2>6, <2>8, <2>9, <2>12, <2>13 DEF HouseInvariant
<1> QED BY <1>3, <1>4

\* After a failure that can lose or double an item, types and claims remain.
LEMMA KeepsExposed ==
  ASSUME TableOK', PostOK', SaleOK', ClerkOK', ClerksClaim', "item" \in exposed'
  PROVE  HouseInvariant'
BY DEF HouseInvariant, Filed, LotsKept

\* A call that has sent its lot goes on to delete the row.
LEMMA KeepsSending ==
  ASSUME HouseInvariant, UNCHANGED <<opening, rows, cache, news, clerk, listed, bag>>,
         NEW p \in Players, NEW c \in Sales, sale' = [sale EXCEPT ![p] = c], SaleOK',
         sale[p].at \in {"mails", "refund"}, c.at \in {"delete", "cancel"},
         c.id = sale[p].id, c.lot = sale[p].lot, c.old = sale[p].old, exposed \subseteq exposed',
         mails' \in Seq(MailRows), attached' \in [Items -> Nat],
         "item" \notin exposed' => \A x \in Items : IF x \in c.lot.items THEN attached[x] = 0 /\ attached'[x] # 0
                                                   ELSE attached'[x] = attached[x]
  PROVE  HouseInvariant'
<1>0. TableOK /\ PostOK /\ SaleOK /\ ClerkOK /\ ClerksClaim /\ Filed /\ LotsKept
  BY DEF HouseInvariant
<1>1. TableOK' /\ PostOK' /\ ClerkOK'
  BY <1>0 DEF TableOK, PostOK, ClerkOK
<1>2. ClerksClaim'
  BY <1>0, SameClaims
<1> SUFFICES ASSUME "item" \notin exposed' PROVE HouseInvariant'
  BY <1>1, <1>2, KeepsExposed
<1>3. (\A x \in Items : Place(x)) /\ (\A q \in Players : Closing(q) => \A x \in sale[q].lot.items : attached[x] # 0)
  BY <1>0 DEF LotsKept
<1>4. PICK home \in Homes : FiledBy(home)
  BY <1>0 DEF Filed
<1>5. FiledRows(home) /\ FiledCaches(home) /\ FiledNews(home) /\ FiledSales(home) /\ FiledClerks(home) /\ Unlisted(home)
  BY <1>4 DEF FiledBy
<1>6. Filed'
  <2>1. FiledSale(home, c)
    BY <1>5 DEF FiledSales, FiledSale
  <2>2. FiledSales(home)' /\ Unlisted(home)'
    BY <1>0, <1>5, <2>1, SetFiledSale, UnlistedSame
  <2>3. FiledRows(home)' /\ FiledNews(home)' /\ FiledClerks(home)' /\ FiledCaches(home)'
    BY <1>5 DEF FiledRows, FiledNews, FiledClerks, FiledCaches, Home
  <2> QED BY <2>2, <2>3 DEF FiledBy, Filed
<1>7. c.id \in AuctionIDs /\ c.lot \in Lots /\ c.id # 0
  BY <1>0, IdsArePositive DEF SaleOK, SaleShape, Sales
<1>8. Closing(p)' /\ sale'[p] = c /\ ~Closing(p)
      /\ \A q \in Players : Closing(q) => sale'[q] = sale[q] /\ Closing(q)'
  BY <1>0 DEF Closing, SaleOK
<1>9. \A x \in Items : Holders(x)' = Holders(x) /\ Settlers(x)' = Settlers(x) /\ Auctioned(x)' = Auctioned(x)
  BY DEF Holders, Settlers, Auctioned
<1>10. \A x \in Items : Sellers(x)' = Sellers(x)
  BY <1>0 DEF Sellers, SaleOK
<1>11. ASSUME NEW x \in Items PROVE Place(x)'
  <2>1. CASE x \notin c.lot.items
    BY <1>3, <1>8, <1>9, <1>10, <2>1, SamePlace
  <2>2. CASE x \in c.lot.items
    <3>1. attached[x] = 0 /\ Unsent(x) /\ attached'[x] # 0
      BY <1>3, <2>2 DEF Place
    <3>2. home[x] = c.id
      BY <1>5, <2>2 DEF FiledSales, FiledSale, Home
    <3>3. Holders(x) = {} /\ Sellers(x) = {}
      BY <1>5, <1>7, <3>2 DEF Unlisted
    <3>4. \A id \in Auctioned(x) : id = c.id
      BY <1>5, <3>2 DEF Auctioned, FiledRows, Home
    <3>5. Auctioned(x) = {} \/ Auctioned(x) = {c.id}
      BY <3>4
    <3>6. Sent(x)'
      BY <1>8, <1>9, <1>10, <2>2, <3>3, <3>5 DEF Sent
    <3> QED BY <3>1, <3>6 DEF Place
  <2> QED BY <2>1, <2>2
<1>12. ASSUME NEW q \in Players, Closing(q)', NEW x \in sale'[q].lot.items PROVE attached'[x] # 0
  <2>1. sale'[q].lot \in Lots
    BY <1>0, <1>7, <1>8 DEF SaleOK, Sales
  <2>2. x \in Items
    BY <2>1 DEF Lots
  <2>3. CASE q = p
    BY <1>8, <2>2, <2>3
  <2>4. CASE q # p
    <3>1. Closing(q) /\ sale'[q] = sale[q]
      BY <1>0, <1>12, <2>4 DEF Closing, SaleOK
    <3> QED BY <1>3, <2>2, <3>1
  <2> QED BY <2>3, <2>4
<1> QED BY <1>0, <1>1, <1>2, <1>6, <1>11, <1>12 DEF HouseInvariant, LotsKept

\* CancelAuction sends the lot back, if no other mail holds it.
LEMMA KeepsCancelMails ==
  ASSUME HouseInvariant, UNCHANGED opening, NEW p \in Players, NEW failed \in {"none", "refund", "lot"}, CancelMails(p, failed)
  PROVE  HouseInvariant'
<1>0. TableOK /\ PostOK /\ SaleOK /\ ClerkOK /\ ClerksClaim /\ Filed /\ LotsKept
  BY DEF HouseInvariant
<1> DEFINE lot == sale[p].lot
           returned == failed # "lot" /\ Deliverable(lot.items)
           refunded == lot.bidder # NoOne /\ failed # "refund"
           refund == Letter(refunded, lot.bidder, lot.bid, {})
           parcel == Letter(returned, p, 0, lot.items)
           c == Moved(p, "cancel")
<1>1. sale[p].at = "refund" /\ Send(refund \o parcel) /\ Goes(p, "cancel")
      /\ exposed' = exposed \cup (IF failed = "none" /\ returned THEN {} ELSE {"item", "money"})
      /\ UNCHANGED <<rows, cache, news, clerk, listed, bag, calls>>
  BY DEF CancelMails, Selling, Expose
<1>2. lot \in Lots /\ lot.bidder \in Players \cup {NoOne} /\ lot.bid \in Int /\ lot.items \in SUBSET Items
  BY <1>0 DEF SaleOK, Sales, Lots
<1>3. SaleOK' /\ sale' = [sale EXCEPT ![p] = c] /\ c.at = "cancel" /\ c.id = sale[p].id /\ c.lot = sale[p].lot /\ c.old = sale[p].old
  BY <1>0, <1>1, GoesSale DEF SaleSteps
<1>4. c \in Sales
  BY <1>0, <1>3 DEF SaleOK
<1>5. refund \in Seq(Letters) /\ \A x : ~Enclosed(refund, x)
  <2>1. {} \in SUBSET Items /\ refunded \in BOOLEAN
    OBVIOUS
  <2>2. PICK sent \in BOOLEAN, to \in Players \cup {NoOne}, money \in Int :
             sent = refunded /\ to = lot.bidder /\ money = lot.bid
    BY <1>2, <2>1
  <2>3. Letter(sent, to, money, {}) \in Seq(Letters) /\ \A x : Enclosed(Letter(sent, to, money, {}), x) <=> sent /\ x \in {}
    BY <2>1, LetterTypes
  <2>4. refund = Letter(sent, to, money, {})
    BY <2>2
  <2> HIDE DEF refunded, lot, refund
  <2> QED BY <2>3, <2>4
<1>6. parcel \in Seq(Letters) /\ \A x : Enclosed(parcel, x) <=> returned /\ x \in lot.items
  <2>1. returned \in BOOLEAN
    BY DEF Deliverable
  <2>2. PICK sent \in BOOLEAN, items \in SUBSET Items : sent = returned /\ items = lot.items
    BY <1>2, <2>1
  <2>3. Letter(sent, p, 0, items) \in Seq(Letters) /\ \A x : Enclosed(Letter(sent, p, 0, items), x) <=> sent /\ x \in items
    BY LetterTypes
  <2>4. parcel = Letter(sent, p, 0, items)
    BY <2>2
  <2> HIDE DEF returned, lot, parcel
  <2> QED BY <2>2, <2>3, <2>4
<1> HIDE DEF refund, parcel, c
<1>7. refund \o parcel \in Seq(Letters) /\ \A x : Enclosed(refund \o parcel, x) <=> returned /\ x \in lot.items
  BY <1>5, <1>6, EnclosedInBoth
<1>8. mails' \in Seq(MailRows) /\ attached' \in [Items -> Nat]
      /\ \A x \in Items : IF Enclosed(refund \o parcel, x) THEN attached'[x] # 0 ELSE attached'[x] = attached[x]
  BY <1>0, <1>1, <1>7, SendTypes DEF PostOK
<1>9. "item" \notin exposed' => \A x \in Items : IF x \in lot.items THEN attached[x] = 0 /\ attached'[x] # 0
                                                ELSE attached'[x] = attached[x]
  BY <1>1, <1>7, <1>8 DEF Deliverable
<1> QED BY <1>1, <1>3, <1>4, <1>8, <1>9, KeepsSending

\* A buyout sends the lot to the buyer, if no other mail holds it, or ends
\* there.
LEMMA KeepsBuyoutMails ==
  ASSUME HouseInvariant, UNCHANGED opening, NEW p \in Players, NEW failed \in {"none", "seller", "lot", "refund"}, BuyoutMails(p, failed)
  PROVE  HouseInvariant'
<1>0. TableOK /\ PostOK /\ SaleOK /\ ClerkOK /\ ClerksClaim /\ Filed /\ LotsKept
  BY DEF HouseInvariant
<1> DEFINE lot == sale[p].lot
           old == sale[p].old
           paid == failed # "seller"
           delivered == paid /\ failed # "lot" /\ Deliverable(lot.items)
           refunded == delivered /\ old.bidder # NoOne /\ failed # "refund"
           pay == Letter(paid, lot.owner, lot.bid - calculateAuctionCut(lot.bid), {})
           parcel == Letter(delivered, p, 0, lot.items)
           refund == Letter(refunded, old.bidder, old.bid, {})
           c == Moved(p, "delete")
<1>1. sale[p].at = "mails" /\ Send(pay \o parcel \o refund)
      /\ exposed' = exposed \cup (IF paid /\ (failed # "none" \/ ~delivered \/ old.bidder = p) THEN {"item", "money"} ELSE {})
      /\ (IF delivered THEN Goes(p, "delete") /\ UNCHANGED calls ELSE End(p))
      /\ UNCHANGED <<rows, cache, news, clerk, listed, bag>>
  BY DEF BuyoutMails, Selling, Expose
<1>2. /\ lot.owner \in Players \cup {NoOne} /\ lot.bid \in Nat /\ lot.items \in SUBSET Items
      /\ old.bidder \in Players \cup {NoOne} /\ old.bid \in Int
  BY <1>0 DEF SaleOK, Sales, Lots
<1>3. delivered \in BOOLEAN /\ refunded \in BOOLEAN /\ paid \in BOOLEAN /\ (refunded => delivered) /\ (delivered => paid)
  BY DEF Deliverable
<1>4. pay \in Seq(Letters) /\ \A x : ~Enclosed(pay, x)
  <2>1. lot.bid - calculateAuctionCut(lot.bid) \in Int
    BY <1>2, CutTypes
  <2>2. PICK sent \in BOOLEAN, to \in Players \cup {NoOne}, money \in Int :
             sent = paid /\ to = lot.owner /\ money = lot.bid - calculateAuctionCut(lot.bid)
    BY <1>2, <1>3, <2>1
  <2>3. {} \in SUBSET Items
    OBVIOUS
  <2>4. Letter(sent, to, money, {}) \in Seq(Letters) /\ \A x : Enclosed(Letter(sent, to, money, {}), x) <=> sent /\ x \in {}
    BY <2>3, LetterTypes
  <2>5. pay = Letter(sent, to, money, {})
    BY <2>2
  <2> HIDE DEF paid, lot, pay
  <2> QED BY <2>4, <2>5
<1>5. parcel \in Seq(Letters) /\ \A x : Enclosed(parcel, x) <=> delivered /\ x \in lot.items
  <2>2. PICK sent \in BOOLEAN, items \in SUBSET Items : sent = delivered /\ items = lot.items
    BY <1>2, <1>3
  <2>3. Letter(sent, p, 0, items) \in Seq(Letters) /\ \A x : Enclosed(Letter(sent, p, 0, items), x) <=> sent /\ x \in items
    BY LetterTypes
  <2>4. parcel = Letter(sent, p, 0, items)
    BY <2>2
  <2> HIDE DEF delivered, lot, parcel
  <2> QED BY <2>2, <2>3, <2>4
<1>6. refund \in Seq(Letters) /\ \A x : ~Enclosed(refund, x)
  <2>1. {} \in SUBSET Items
    OBVIOUS
  <2>2. PICK sent \in BOOLEAN, to \in Players \cup {NoOne}, money \in Int :
             sent = refunded /\ to = old.bidder /\ money = old.bid
    BY <1>2, <1>3
  <2>3. Letter(sent, to, money, {}) \in Seq(Letters) /\ \A x : Enclosed(Letter(sent, to, money, {}), x) <=> sent /\ x \in {}
    BY <2>1, LetterTypes
  <2>4. refund = Letter(sent, to, money, {})
    BY <2>2
  <2> HIDE DEF refunded, old, refund
  <2> QED BY <2>3, <2>4
<1> HIDE DEF pay, parcel, refund, c
<1>7. pay \o parcel \o refund \in Seq(Letters) /\ \A x : Enclosed(pay \o parcel \o refund, x) <=> delivered /\ x \in lot.items
  <2>1. pay \o parcel \in Seq(Letters) /\ \A x : Enclosed(pay \o parcel, x) <=> delivered /\ x \in lot.items
    BY <1>4, <1>5, EnclosedInBoth
  <2> QED BY <1>6, <2>1, EnclosedInBoth
<1>8. mails' \in Seq(MailRows) /\ attached' \in [Items -> Nat]
      /\ \A x \in Items : IF Enclosed(pay \o parcel \o refund, x) THEN attached'[x] # 0 ELSE attached'[x] = attached[x]
  BY <1>0, <1>1, <1>7, SendTypes DEF PostOK
<1>9. CASE delivered
  <2>1. SaleOK' /\ sale' = [sale EXCEPT ![p] = c] /\ c.at = "delete" /\ c.id = sale[p].id /\ c.lot = sale[p].lot /\ c.old = sale[p].old
    BY <1>0, <1>1, <1>9, GoesSale DEF SaleSteps, c
  <2>2. c \in Sales
    BY <1>0, <2>1 DEF SaleOK
  <2>3. \A x \in Items : IF x \in lot.items THEN attached[x] = 0 /\ attached'[x] # 0 ELSE attached'[x] = attached[x]
    BY <1>7, <1>8, <1>9 DEF Deliverable
  <2> QED BY <1>1, <1>8, <2>1, <2>2, <2>3, KeepsSending
<1>10. CASE ~delivered
  <2>1. SaleOK' /\ sale' = [sale EXCEPT ![p] = NoSale]
    BY <1>0, <1>1, <1>10, EndSale
  <2>2. attached' = attached
    BY <1>0, <1>7, <1>8, <1>10 DEF PostOK
  <2>3. ClerksClaim'
    BY <1>0, <1>1, SameClaims
  <2>4. {sale[p].at, NoSale.at} \cap {"insert", "delete", "cancel"} = {}
    BY <1>1, SaleTypes
  <2>5. cache' \in [Servers -> [AuctionIDs -> Lots]] /\ news' \in [Servers -> Seq(LotEvents)] /\ rows' \in [AuctionIDs -> Lots]
        /\ exposed \subseteq exposed'
    BY <1>0, <1>1 DEF TableOK
  <2>6. \A home : (FiledCaches(home) => FiledCaches(home)') /\ (FiledNews(home) => FiledNews(home)')
    BY <1>1 DEF FiledCaches, FiledNews, Home
  <2> QED BY <1>1, <1>8, <2>1, <2>2, <2>3, <2>4, <2>5, <2>6, NoSaleFiled, SaleTypes, KeepsQuietStep
<1> QED BY <1>9, <1>10

\* The lot is on its way already: its row leaves the table.
LEMMA KeepsClosing ==
  ASSUME HouseInvariant, UNCHANGED <<opening, cache, clerk, listed, bag, attached, mails>>,
         NEW p \in Players, NEW c \in Sales, sale' = [sale EXCEPT ![p] = c], SaleOK', Closing(p),
         c.at \notin {"insert", "delete", "cancel"},
         \A home : FiledSale(home, sale[p]) => FiledSale(home, c), exposed \subseteq exposed',
         rows' = [rows EXCEPT ![sale[p].id] = NoLot], "item" \notin exposed' => rows[sale[p].id] = sale[p].old,
         news' \in [Servers -> Seq(LotEvents)], \A home : FiledSale(home, sale[p]) /\ FiledNews(home) => FiledNews(home)'
  PROVE  HouseInvariant'
<1>0. TableOK /\ PostOK /\ SaleOK /\ ClerkOK /\ ClerksClaim /\ Filed /\ LotsKept
  BY DEF HouseInvariant
<1>p. sale[p].at \in {"delete", "cancel"} /\ sale[p].id \in AuctionIDs /\ sale[p].lot \in Lots
  BY <1>0 DEF Closing, SaleOK, SaleShape, Sales
<1>r. \A id \in AuctionIDs : rows'[id] = IF id = sale[p].id THEN NoLot ELSE rows[id]
  BY <1>0 DEF TableOK
<1>1. TableOK' /\ PostOK' /\ ClerkOK'
  BY <1>0, <1>p, LotTypes DEF TableOK, PostOK, ClerkOK
<1>2. ClerksClaim'
  <2>1. rows' \in [AuctionIDs -> Lots] /\ \A id \in AuctionIDs : rows'[id] = NoLot \/ (rows[id] # NoLot /\ rows'[id].no = rows[id].no)
    BY <1>1, <1>r DEF TableOK
  <2> QED BY <1>0, <2>1, BidClaims
<1> SUFFICES ASSUME "item" \notin exposed' PROVE HouseInvariant'
  BY <1>1, <1>2, KeepsExposed
<1>3. (\A x \in Items : Place(x)) /\ \A q \in Players : Closing(q) => \A x \in sale[q].lot.items : attached[x] # 0
  BY <1>0 DEF LotsKept
<1>4. PICK home \in Homes : FiledBy(home)
  BY <1>0 DEF Filed
<1>5. FiledRows(home) /\ FiledCaches(home) /\ FiledNews(home) /\ FiledSales(home) /\ FiledClerks(home) /\ Unlisted(home)
  BY <1>4 DEF FiledBy
<1>6. FiledSale(home, sale[p])
  BY <1>5 DEF FiledSales
<1>7. Filed'
  <2>1. FiledSales(home)' /\ Unlisted(home)'
    BY <1>0, <1>5, <1>6, SetFiledSale, UnlistedSame
  <2>2. FiledRows(home)'
    BY <1>5, <1>r, LotTypes DEF FiledRows, Home
  <2>3. FiledNews(home)' /\ FiledClerks(home)' /\ FiledCaches(home)'
    BY <1>5, <1>6 DEF FiledClerks, FiledCaches, Home
  <2> QED BY <2>1, <2>2, <2>3 DEF FiledBy, Filed
<1>8. rows[sale[p].id].items = sale[p].lot.items
  BY <1>6, <1>p DEF FiledSale
<1>9. \A x \in Items : Auctioned(x)' = Auctioned(x) \ (IF x \in sale[p].lot.items THEN {sale[p].id} ELSE {})
  BY <1>p, <1>r, <1>8, LotTypes DEF Auctioned
<1>10. \A x \in Items : Holders(x)' = Holders(x) /\ Settlers(x)' = Settlers(x) /\ Sellers(x)' = Sellers(x)
  BY <1>0, <1>p DEF Holders, Settlers, Sellers, SaleOK
<1>11. \A q \in Players : Closing(q)' => q # p
  BY <1>0 DEF Closing, SaleOK
<1>12. \A q \in Players : q # p => sale'[q] = sale[q] /\ (Closing(q)' <=> Closing(q))
  BY <1>0 DEF Closing, SaleOK
<1>13. ASSUME NEW x \in Items PROVE Place(x)'
  <2>1. CASE x \notin sale[p].lot.items
    BY <1>3, <1>9, <1>10, <1>12, <2>1, SamePlace
  <2>2. CASE x \in sale[p].lot.items
    <3>1. attached[x] # 0 /\ Sent(x)
      BY <1>3, <2>2 DEF Place
    <3>2. sale[p].id \in Auctioned(x)
      BY <1>p, <1>8, <2>2 DEF Auctioned
    <3>3. Auctioned(x) = {sale[p].id}
      BY <3>1, <3>2 DEF Sent
    <3>4. Auctioned(x)' = {}
      BY <1>9, <2>2, <3>3
    <3>5. Sent(x)'
      BY <1>10, <3>1, <3>4 DEF Sent
    <3> QED BY <3>1, <3>5 DEF Place
  <2> QED BY <2>1, <2>2
<1>14. \A q \in Players : Closing(q)' => \A x \in sale'[q].lot.items : attached'[x] # 0
  BY <1>3, <1>11, <1>12
<1> QED BY <1>0, <1>1, <1>2, <1>7, <1>13, <1>14 DEF HouseInvariant, LotsKept

\* A closing call that fails leaves the lot in two places.
LEMMA KeepsExposure ==
  ASSUME HouseInvariant, UNCHANGED <<opening, rows, cache, news, clerk, listed, bag, attached, mails>>, SaleOK', "item" \in exposed'
  PROVE  HouseInvariant'
<1>0. TableOK /\ PostOK /\ SaleOK /\ ClerkOK /\ ClerksClaim
  BY DEF HouseInvariant
<1>1. TableOK' /\ PostOK' /\ ClerkOK'
  BY <1>0 DEF TableOK, PostOK, ClerkOK
<1> QED BY <1>0, <1>1, SameClaims, KeepsExposed

\* DeleteAuction of a buyout.
LEMMA KeepsDeleteAuction ==
  ASSUME HouseInvariant, UNCHANGED opening, NEW p \in Players, NEW failed \in {"none", "delete"}, DeleteAuction(p, failed)
  PROVE  HouseInvariant'
<1>0. TableOK /\ PostOK /\ SaleOK /\ ClerkOK /\ ClerksClaim
  BY DEF HouseInvariant
<1>1. /\ sale[p].at = "delete" /\ rows' = (IF failed = "none" THEN [rows EXCEPT ![sale[p].id] = NoLot] ELSE rows)
      /\ Expose(IF rows[sale[p].id] = sale[p].old /\ failed = "none" THEN {} ELSE {"item", "money"})
      /\ (IF failed = "none" THEN Goes(p, "close") /\ UNCHANGED calls ELSE End(p))
      /\ UNCHANGED <<bag, mails, attached, cache, news, clerk, listed>>
  BY DEF DeleteAuction, Selling
<1>2. CASE failed = "none"
  <2> DEFINE c == Moved(p, "close")
  <2>1. SaleOK' /\ sale' = [sale EXCEPT ![p] = c] /\ c.at = "close" /\ c.id = sale[p].id /\ c.lot = sale[p].lot /\ c.old = sale[p].old
    BY <1>0, <1>1, <1>2, GoesSale DEF SaleSteps
  <2>2. c \in Sales
    BY <1>0, <2>1 DEF SaleOK
  <2> HIDE DEF c
  <2>3. \A home : FiledSale(home, sale[p]) => FiledSale(home, c)
    BY <1>1, <2>1 DEF FiledSale
  <2>4. exposed \subseteq exposed' /\ ("item" \notin exposed' => rows[sale[p].id] = sale[p].old)
    BY <1>1, <1>2 DEF Expose
  <2>5. news' \in [Servers -> Seq(LotEvents)] /\ \A home : FiledNews(home) => FiledNews(home)'
    BY <1>0, <1>1 DEF TableOK, FiledNews, Home
  <2>6. Closing(p)
    BY <1>1 DEF Closing
  <2> QED BY <1>1, <1>2, <2>1, <2>2, <2>3, <2>4, <2>5, <2>6, KeepsClosing
<1>3. CASE failed # "none"
  <2>1. SaleOK'
    BY <1>0, <1>1, <1>3, EndSale
  <2>2. "item" \in exposed'
    BY <1>1, <1>3 DEF Expose
  <2> QED BY <1>1, <1>3, <2>1, <2>2, KeepsExposure
<1> QED BY <1>2, <1>3

\* DeleteAuction of a cancellation, and its event.
LEMMA KeepsCancelAuction ==
  ASSUME HouseInvariant, UNCHANGED opening, NEW p \in Players, NEW failed \in {"none", "delete", "money"}, CancelAuction(p, failed)
  PROVE  HouseInvariant'
<1>0. TableOK /\ PostOK /\ SaleOK /\ ClerkOK /\ ClerksClaim
  BY DEF HouseInvariant
<1>1. sale[p].at = "cancel" /\ End(p) /\ UNCHANGED <<bag, mails, attached, cache, clerk, listed>>
  BY DEF CancelAuction, Selling
<1>2. SaleOK' /\ sale' = [sale EXCEPT ![p] = NoSale]
  BY <1>0, <1>1, EndSale
<1>3. CASE failed = "delete"
  <2>1. "item" \in exposed' /\ UNCHANGED <<rows, news>>
    BY <1>3 DEF CancelAuction, Expose
  <2> QED BY <1>1, <1>2, <2>1, KeepsExposure
<1>4. CASE failed # "delete"
  <2>1. rows' = [rows EXCEPT ![sale[p].id] = NoLot] /\ Publish(Event("canceled", sale[p].id, sale[p].lot))
    BY <1>4 DEF CancelAuction
  <2>2. exposed \subseteq exposed' /\ ("item" \notin exposed' => rows[sale[p].id] = sale[p].old)
    BY <1>4 DEF CancelAuction, Expose
  <2>3. news' \in [Servers -> Seq(LotEvents)] /\ \A home : FiledSale(home, sale[p]) /\ FiledNews(home) => FiledNews(home)'
    BY <1>0, <1>1, <2>1, EventFiled DEF Kinds
  <2>4. Closing(p)
    BY <1>1 DEF Closing
  <2> QED BY <1>1, <1>2, <2>1, <2>2, <2>3, <2>4, NoSaleFiled, SaleTypes, KeepsClosing
<1> QED BY <1>3, <1>4

-----------------------------------------------------------------------------
(* Events, and the auctions whose time is over                              *)

\* An event adds, changes or removes a copy that is filed like its own.
LEMMA KeepsHandleAuctionEvent ==
  ASSUME HouseInvariant, UNCHANGED opening, NEW i \in opening.servers, NEW k \in DOMAIN news[i], HandleAuctionEvent(i, k)
  PROVE  HouseInvariant'
<1>0. TableOK /\ PostOK /\ SaleOK /\ ClerkOK /\ ClerksClaim /\ Filed /\ LotsKept /\ i \in Servers
  BY OpenServers DEF HouseInvariant
<1>u. UNCHANGED <<bag, mails, attached, calls, exposed, rows, sale, clerk, listed>>
  BY DEF HandleAuctionEvent, mailVars, postOffice, backOffice
<1> DEFINE e == news[i][k]
           mine == cache[i][e.id]
           lot == CASE e.kind = "created" -> IF mine = NoLot THEN e.lot ELSE mine
                    [] e.kind = "bid" -> IF mine = NoLot THEN NoLot ELSE [mine EXCEPT !.bid = e.lot.bid, !.bidder = e.lot.bidder]
                    [] OTHER -> NoLot
<1>1. cache' = [cache EXCEPT ![i][e.id] = lot] /\ news' = [news EXCEPT ![i] = RemoveAt(@, k)]
  BY DEF HandleAuctionEvent
<1>2. e \in LotEvents /\ e.id \in AuctionIDs /\ e.lot \in Lots
  <2>1. e \in LotEvents
    BY <1>0 DEF TableOK
  <2> QED BY <2>1 DEF LotEvents
<1>3. mine \in Lots /\ e.lot.bid \in Nat /\ e.lot.bidder \in Players \cup {NoOne}
  BY <1>0, <1>2 DEF TableOK, Lots
<1> HIDE DEF e, mine
<1>4. [mine EXCEPT !.bid = e.lot.bid, !.bidder = e.lot.bidder] \in Lots
      /\ [mine EXCEPT !.bid = e.lot.bid, !.bidder = e.lot.bidder].items = mine.items
  BY <1>3 DEF Lots
<1>5. lot \in Lots /\ (lot.items = e.lot.items \/ lot.items = mine.items \/ lot.items = {})
  BY <1>2, <1>3, <1>4, LotTypes
<1> HIDE DEF lot
<1>6. cache' \in [Servers -> [AuctionIDs -> Lots]] /\ \A home : FiledCaches(home) /\ Home(home, e.id, lot) => FiledCaches(home)'
  BY <1>0, <1>1, <1>2, <1>5, CacheTypes
<1>7. news[i] \in Seq(LotEvents)
  BY <1>0 DEF TableOK
<1>8. /\ RemoveAt(news[i], k) \in Seq(LotEvents)
      /\ \A j \in DOMAIN RemoveAt(news[i], k) : \E l \in DOMAIN news[i] : RemoveAt(news[i], k)[j] = news[i][l]
  BY <1>7, RemoveTypes
<1>9. TableOK'
  BY <1>0, <1>u, <1>1, <1>6, <1>8 DEF TableOK
<1>10. PostOK' /\ SaleOK' /\ ClerkOK' /\ ClerksClaim'
  BY <1>0, <1>u, SameClaims DEF PostOK, SaleOK, ClerkOK
<1>11. LotsKept'
  BY <1>0, <1>u DEF LotsKept, Place, Unsent, Sent, Holders, Sellers, Settlers, Auctioned, Closing
<1>12. Filed'
  <2> SUFFICES ASSUME "item" \notin exposed' PROVE \E home \in Homes : FiledBy(home)'
    BY DEF Filed
  <2>0. PICK home \in Homes : FiledBy(home)
    BY <1>0, <1>u DEF Filed
  <2>1. FiledRows(home) /\ FiledCaches(home) /\ FiledNews(home) /\ FiledSales(home) /\ FiledClerks(home) /\ Unlisted(home)
    BY <2>0 DEF FiledBy
  <2>2. Home(home, e.id, e.lot)
    BY <1>0, <2>1 DEF FiledNews, e
  <2>3. Home(home, e.id, mine)
    BY <1>0, <1>2, <2>1 DEF FiledCaches, mine
  <2>4. Home(home, e.id, lot)
    BY <1>5, <2>2, <2>3 DEF Home
  <2>5. FiledCaches(home)'
    BY <1>6, <2>1, <2>4
  <2>6. FiledNews(home)'
    <3>1. ASSUME NEW j \in Servers, NEW l \in DOMAIN news'[j] PROVE Home(home, news'[j][l].id, news'[j][l].lot)
      <4>1. PICK m \in DOMAIN news[j] : news'[j][l] = news[j][m]
        BY <1>0, <1>1, <1>8, <3>1 DEF TableOK
      <4> QED BY <2>1, <4>1 DEF FiledNews
    <3> QED BY <3>1 DEF FiledNews, Home
  <2>7. FiledRows(home)' /\ FiledSales(home)' /\ FiledClerks(home)' /\ Unlisted(home)'
    BY <1>u, <2>1 DEF FiledRows, FiledSales, FiledSale, FiledClerks, Unlisted, Holders, Sellers, Home
  <2> QED BY <2>5, <2>6, <2>7 DEF FiledBy
<1> QED BY <1>9, <1>10, <1>11, <1>12 DEF HouseInvariant

\* A clerk that reads: from the ticker to the auction it wants to delete.
LEMMA KeepsReading ==
  ASSUME HouseInvariant, UNCHANGED <<opening, rows, news, listed, bag, attached, mails, sale, calls, exposed>>,
         NEW i \in Servers, NEW c \in Clerks, clerk' = [clerk EXCEPT ![i] = c], clerk[i].at # "settle",
         \/ c.at \in {"off", "load"}
         \/ c.at = "claim" /\ c.id \in AuctionIDs /\ c.row = rows[c.id] /\ c.row # NoLot,
         cache' \in [Servers -> [AuctionIDs -> Lots]], \A home : FiledCaches(home) => FiledCaches(home)'
  PROVE  HouseInvariant'
<1>0. TableOK /\ PostOK /\ SaleOK /\ ClerkOK /\ ClerksClaim /\ Filed /\ LotsKept
  BY DEF HouseInvariant
<1>c. \A j \in Servers : clerk'[j] = IF j = i THEN c ELSE clerk[j]
  BY <1>0 DEF ClerkOK
<1>1. TableOK' /\ PostOK' /\ SaleOK' /\ ClerkOK'
  BY <1>0, <1>c DEF TableOK, PostOK, SaleOK, ClerkOK, ClerkShape
<1>2. ClerksClaim'
  <2>1. \A id \in AuctionIDs : Numbered(id, rows[id])'
    BY <1>0 DEF ClerksClaim, Numbered
  <2>2. ASSUME NEW j \in Servers PROVE Claims(j)'
    <3>1. CASE j = i
      <4>1. c.at = "claim" => c.row # NoLot /\ Numbered(c.id, c.row)'
        BY <1>0 DEF ClerksClaim, Numbered
      <4> QED BY <1>c, <3>1, <4>1 DEF Claims, Numbered
    <3>2. CASE j # i
      <4>1. Claims(j) /\ clerk'[j] = clerk[j]
        BY <1>0, <1>c, <3>2 DEF ClerksClaim
      <4>2. clerk[j].at = "settle" => rows'[clerk[j].id] = NoLot \/ Reused(clerk[j].id)'
        BY <4>1, SameReuse DEF Claims
      <4> QED BY <4>1, <4>2 DEF Claims, Numbered
    <3> QED BY <3>1, <3>2
  <2>3. OneClerkPerLot'
    <3>1. ASSUME NEW j \in Servers, NEW k \in Servers, j # k, {clerk'[j].at, clerk'[k].at} = {"settle"}, clerk'[j].row.no = clerk'[k].row.no
          PROVE  Reused(clerk[j].id)'
      <4>1. clerk'[j].at = "settle" /\ clerk'[k].at = "settle"
        BY <3>1
      <4>2. clerk'[j] = clerk[j] /\ clerk'[k] = clerk[k]
        BY <1>c, <4>1
      <4>3. PICK id : id = clerk[j].id
        OBVIOUS
      <4>4. Reused(id)
        BY <1>0, <3>1, <4>2, <4>3 DEF ClerksClaim, OneClerkPerLot
      <4> QED BY <4>2, <4>3, <4>4, SameReuse
    <3> QED BY <3>1 DEF OneClerkPerLot
  <2> QED BY <2>1, <2>2, <2>3 DEF ClerksClaim
<1>3. \A x \in Items : Settlers(x)' = Settlers(x)
  BY <1>c DEF Settlers
<1>4. LotsKept'
  <2>1. \A x \in Items : Holders(x)' = Holders(x) /\ Sellers(x)' = Sellers(x) /\ Auctioned(x)' = Auctioned(x)
    BY DEF Holders, Sellers, Auctioned
  <2>2. \A x \in Items : Place(x) => Place(x)'
    BY <1>3, <2>1, SamePlace DEF Closing
  <2> QED BY <1>0, <2>2 DEF LotsKept, Closing
<1>5. Filed'
  <2> SUFFICES ASSUME "item" \notin exposed' PROVE \E home \in Homes : FiledBy(home)'
    BY DEF Filed
  <2>0. PICK home \in Homes : FiledBy(home)
    BY <1>0 DEF Filed
  <2>1. FiledRows(home) /\ FiledCaches(home) /\ FiledNews(home) /\ FiledSales(home) /\ FiledClerks(home) /\ Unlisted(home)
    BY <2>0 DEF FiledBy
  <2>2. FiledClerks(home)'
    BY <1>c, <2>1 DEF FiledClerks, FiledRows, Home
  <2>3. FiledRows(home)' /\ FiledSales(home)' /\ FiledNews(home)' /\ Unlisted(home)'
    BY <2>1 DEF FiledRows, FiledSales, FiledSale, FiledNews, Unlisted, Holders, Sellers, Home
  <2> QED BY <2>1, <2>2, <2>3 DEF FiledBy
<1> QED BY <1>1, <1>2, <1>4, <1>5 DEF HouseInvariant

\* ProcessExpiredAuctions passes over an auction: entry and candidate go.
LEMMA Forgets ==
  ASSUME TableOK, ClerkOK, NEW i \in Servers, NEW id \in AuctionIDs, Forget(i, id)
  PROVE  \E c \in Clerks :
           /\ clerk' = [clerk EXCEPT ![i] = c] /\ c.at \in {"off", "load"}
           /\ cache' \in [Servers -> [AuctionIDs -> Lots]] /\ \A home : FiledCaches(home) => FiledCaches(home)'
<1>1. clerk[i].todo \ {id} \in SUBSET AuctionIDs
  BY DEF ClerkOK, Clerks
<1>2. PICK ids \in SUBSET AuctionIDs : ids = clerk[i].todo \ {id}
  BY <1>1
<1>3. clerk' = [clerk EXCEPT ![i] = WithCandidates(ids)] /\ Uncache(i, id)
  BY <1>2 DEF Forget
<1> QED BY <1>3, CandidateTypes, Uncached

\* A tick collects candidates.
LEMMA KeepsProcessExpiredAuctions ==
  ASSUME HouseInvariant, UNCHANGED opening, NEW i \in opening.servers, ProcessExpiredAuctions(i)
  PROVE  HouseInvariant'
<1>0. TableOK /\ ClerkOK /\ i \in Servers
  BY OpenServers DEF HouseInvariant
<1>1. UNCHANGED <<rows, cache, news, listed, bag, attached, mails, sale, calls, exposed>> /\ clerk[i].at = "off"
  BY DEF ProcessExpiredAuctions, Clerk, mailVars, postOffice, backOffice
<1>2. PICK ids \in SUBSET AuctionIDs : clerk' = [clerk EXCEPT ![i] = WithCandidates(ids)]
  <2> DEFINE candidates == {id \in AuctionIDs : Overdue(cache[i][id])}
  <2>1. candidates \in SUBSET AuctionIDs /\ clerk' = [clerk EXCEPT ![i] = WithCandidates(candidates)]
    BY DEF ProcessExpiredAuctions
  <2> QED BY <2>1
<1>3. WithCandidates(ids) \in Clerks /\ WithCandidates(ids).at \in {"off", "load"}
  BY CandidateTypes
<1>4. cache' \in [Servers -> [AuctionIDs -> Lots]] /\ \A home : FiledCaches(home) => FiledCaches(home)'
  BY <1>0, <1>1 DEF TableOK, FiledCaches, Home
<1> QED BY <1>0, <1>1, <1>2, <1>3, <1>4, KeepsReading

\* The SELECT of DeleteAuctionIfExists: the row as it is now, or no row.
LEMMA KeepsLoadAuctionByID ==
  ASSUME HouseInvariant, UNCHANGED opening, NEW i \in opening.servers, NEW id \in AuctionIDs, NEW failed \in {"none", "load"},
         LoadAuctionByID(i, id, failed)
  PROVE  HouseInvariant'
<1>0. TableOK /\ ClerkOK /\ i \in Servers
  BY OpenServers DEF HouseInvariant
<1>1. UNCHANGED <<rows, news, listed, bag, attached, mails, sale, calls, exposed>> /\ clerk[i].at = "load"
  BY DEF LoadAuctionByID, Clerk, NoCall
<1>2. CASE rows[id] = NoLot \/ failed # "none"
  <2>1. Forget(i, id)
    BY <1>2 DEF LoadAuctionByID
  <2>2. PICK c \in Clerks :
           /\ clerk' = [clerk EXCEPT ![i] = c] /\ c.at \in {"off", "load"}
           /\ cache' \in [Servers -> [AuctionIDs -> Lots]] /\ \A home : FiledCaches(home) => FiledCaches(home)'
    BY <1>0, <2>1, Forgets
  <2> QED BY <1>0, <1>1, <2>2, KeepsReading
<1>3. CASE ~(rows[id] = NoLot \/ failed # "none")
  <2> DEFINE c == [at |-> "claim", todo |-> clerk[i].todo \ {id}, id |-> id, row |-> rows[id]]
  <2>1. clerk' = [clerk EXCEPT ![i] = c] /\ UNCHANGED cache
    BY <1>3 DEF LoadAuctionByID
  <2>2. rows[id] \in Lots /\ clerk[i].todo \in SUBSET AuctionIDs
    BY <1>0 DEF TableOK, ClerkOK, Clerks
  <2>3. c \in Clerks /\ c.at = "claim" /\ c.id = id /\ c.row = rows[id]
    BY <2>2 DEF Clerks, ClerkSteps
  <2> HIDE DEF c
  <2>4. cache' \in [Servers -> [AuctionIDs -> Lots]] /\ \A home : FiledCaches(home) => FiledCaches(home)'
    BY <1>0, <2>1 DEF TableOK, FiledCaches, Home
  <2> QED BY <1>0, <1>1, <1>3, <2>1, <2>3, <2>4, KeepsReading
<1> QED BY <1>2, <1>3

\* The DELETE that finds the row.
LEMMA KeepsClaiming ==
  ASSUME HouseInvariant, UNCHANGED <<opening, cache, news, listed, bag, attached, mails, sale, calls>>,
         NEW i \in Servers, clerk[i].at = "claim", rows[clerk[i].id] # NoLot,
         rows' = [rows EXCEPT ![clerk[i].id] = NoLot], clerk' = [clerk EXCEPT ![i].at = "settle"],
         exposed \subseteq exposed', "item" \notin exposed' => rows[clerk[i].id] = clerk[i].row
  PROVE  HouseInvariant'
<1>0. TableOK /\ PostOK /\ SaleOK /\ ClerkOK /\ ClerksClaim /\ Filed /\ LotsKept
  BY DEF HouseInvariant
<1> DEFINE c == [clerk[i] EXCEPT !.at = "settle"]
<1>1. clerk[i] \in Clerks /\ clerk[i].id \in AuctionIDs
  BY <1>0 DEF ClerkOK, ClerkShape
<1>2. c \in Clerks /\ c.at = "settle" /\ c.id = clerk[i].id /\ c.row = clerk[i].row
  BY <1>1 DEF Clerks, ClerkSteps
<1>3. clerk' = [clerk EXCEPT ![i] = c]
  BY <1>0 DEF ClerkOK
<1> HIDE DEF c
<1>c. \A j \in Servers : clerk'[j] = IF j = i THEN c ELSE clerk[j]
  BY <1>0, <1>3 DEF ClerkOK
<1>r. \A id \in AuctionIDs : rows'[id] = IF id = clerk[i].id THEN NoLot ELSE rows[id]
  BY <1>0 DEF TableOK
<1>4. TableOK' /\ PostOK' /\ SaleOK'
  BY <1>0, <1>1, LotTypes DEF TableOK, PostOK, SaleOK
<1>5. ClerkOK'
  BY <1>0, <1>1, <1>2, <1>3, <1>c DEF ClerkOK, ClerkShape
<1>6. ClerksClaim'
  <2>1. \A id \in AuctionIDs : Numbered(id, rows[id])'
    BY <1>0, <1>r DEF ClerksClaim, Numbered
  <2>2. ASSUME NEW j \in Servers PROVE Claims(j)'
    <3>1. CASE j = i
      <4>1. Claims(i)
        BY <1>0 DEF ClerksClaim
      <4>2. rows'[c.id] = NoLot
        BY <1>1, <1>2, <1>r
      <4> QED BY <1>2, <1>c, <3>1, <4>1, <4>2 DEF Claims, Numbered
    <3>2. CASE j # i
      <4>1. Claims(j) /\ clerk'[j] = clerk[j] /\ (clerk[j].at = "settle" => clerk[j].id \in AuctionIDs)
        BY <1>0, <1>c, <3>2 DEF ClerksClaim, ClerkOK, ClerkShape
      <4>2. clerk[j].at = "settle" => rows'[clerk[j].id] = NoLot \/ Reused(clerk[j].id)'
        BY <1>r, <4>1, SameReuse DEF Claims
      <4> QED BY <4>1, <4>2 DEF Claims, Numbered
    <3> QED BY <3>1, <3>2
  <2>3. OneClerkPerLot'
    \* The other one deleted its row before: the id was given to this auction too.
    <3>1. ASSUME NEW j \in Servers, j # i, clerk[j].at = "settle", clerk[j].row.no = clerk[i].row.no
          PROVE  clerk[j].id = clerk[i].id /\ Reused(clerk[i].id)
      <4>1. Claims(i) /\ Claims(j)
        BY <1>0 DEF ClerksClaim
      <4>2. clerk[j].id = clerk[i].id
        BY <3>1, <4>1 DEF Claims, Numbered
      <4> QED BY <3>1, <4>1, <4>2 DEF Claims
    <3>2. ASSUME NEW j \in Servers, NEW k \in Servers, j # k, {clerk'[j].at, clerk'[k].at} = {"settle"}, clerk'[j].row.no = clerk'[k].row.no
          PROVE  Reused(clerk[j].id)'
      <4>1. clerk'[j].at = "settle" /\ clerk'[k].at = "settle"
        BY <3>2
      <4>2. PICK id : id = clerk'[j].id
        OBVIOUS
      <4>3. CASE j = i
        BY <1>2, <1>c, <3>1, <3>2, <4>1, <4>2, <4>3, SameReuse
      <4>4. CASE k = i
        BY <1>2, <1>c, <3>1, <3>2, <4>1, <4>2, <4>4, SameReuse
      <4>5. CASE i \notin {j, k}
        <5>1. clerk'[j] = clerk[j] /\ clerk'[k] = clerk[k]
          BY <1>c, <4>5
        <5>2. Reused(id)
          BY <1>0, <3>2, <4>2, <5>1 DEF ClerksClaim, OneClerkPerLot
        <5> QED BY <4>2, <5>2, SameReuse
      <4> QED BY <4>3, <4>4, <4>5
    <3> QED BY <3>2 DEF OneClerkPerLot
  <2> QED BY <2>1, <2>2, <2>3 DEF ClerksClaim
<1> SUFFICES ASSUME "item" \notin exposed' PROVE HouseInvariant'
  BY <1>4, <1>5, <1>6, KeepsExposed
<1>7. (\A x \in Items : Place(x)) /\ \A q \in Players : Closing(q) => \A x \in sale[q].lot.items : attached[x] # 0
  BY <1>0 DEF LotsKept
<1>8. Filed'
  <2>0. PICK home \in Homes : FiledBy(home)
    BY <1>0 DEF Filed
  <2>1. FiledRows(home) /\ FiledCaches(home) /\ FiledNews(home) /\ FiledSales(home) /\ FiledClerks(home) /\ Unlisted(home)
    BY <2>0 DEF FiledBy
  <2>2. FiledRows(home)'
    BY <1>r, <2>1, LotTypes DEF FiledRows, Home
  <2>3. FiledClerks(home)'
    BY <1>2, <1>c, <2>1 DEF FiledClerks, Home
  <2>4. FiledCaches(home)' /\ FiledSales(home)' /\ FiledNews(home)' /\ Unlisted(home)'
    BY <2>1 DEF FiledCaches, FiledSales, FiledSale, FiledNews, Unlisted, Holders, Sellers, Home
  <2> QED BY <2>0, <2>2, <2>3, <2>4 DEF FiledBy, Filed
<1>9. \A x \in Items : Auctioned(x)' = Auctioned(x) \ (IF x \in clerk[i].row.items THEN {clerk[i].id} ELSE {})
  BY <1>1, <1>r, LotTypes DEF Auctioned
<1>10. \A x \in Items : Settlers(x)' = IF x \in clerk[i].row.items THEN Settlers(x) \cup {i} ELSE Settlers(x)
  BY <1>2, <1>c DEF Settlers
<1>11. \A x \in Items : Holders(x)' = Holders(x) /\ Sellers(x)' = Sellers(x)
  BY DEF Holders, Sellers
<1>12. ASSUME NEW x \in Items PROVE Place(x)'
  <2>1. CASE x \notin clerk[i].row.items
    BY <1>7, <1>9, <1>10, <1>11, <2>1, SamePlace DEF Closing
  <2>2. CASE x \in clerk[i].row.items
    <3>1. clerk[i].id \in Auctioned(x)
      BY <1>1, <2>2 DEF Auctioned
    <3>2. CASE attached[x] # 0
      <4>1. Sent(x)
        BY <1>7, <3>2 DEF Place
      <4>2. Auctioned(x)' = {}
        BY <1>9, <2>2, <3>1, <4>1 DEF Sent
      <4>3. Sent(x)'
        BY <1>11, <4>1, <4>2 DEF Sent
      <4> QED BY <3>2, <4>3 DEF Place
    <3>3. CASE attached[x] = 0
      <4>1. Unsent(x)
        BY <1>7, <3>3 DEF Place
      <4>2. Auctioned(x) = {clerk[i].id} /\ Holders(x) = {} /\ Sellers(x) = {} /\ Settlers(x) = {}
        BY <3>1, <4>1 DEF Unsent
      <4>3. Auctioned(x)' = {} /\ Settlers(x)' = {i} /\ Holders(x)' = {} /\ Sellers(x)' = {}
        BY <1>9, <1>10, <1>11, <2>2, <4>2
      <4>4. Unsent(x)'
        BY <4>3 DEF Unsent
      <4> QED BY <3>3, <4>4 DEF Place
    <3> QED BY <3>2, <3>3
  <2> QED BY <2>1, <2>2
<1>13. LotsKept'
  BY <1>7, <1>12 DEF LotsKept, Closing
<1> QED BY <1>4, <1>5, <1>6, <1>8, <1>13 DEF HouseInvariant

\* Its DELETE: the claim, or an auction of somebody else.
LEMMA KeepsDeleteAuctionIfExists ==
  ASSUME HouseInvariant, UNCHANGED opening, NEW i \in opening.servers, NEW failed \in {"none", "delete"}, DeleteAuctionIfExists(i, failed)
  PROVE  HouseInvariant'
<1>0. TableOK /\ ClerkOK /\ i \in Servers
  BY OpenServers DEF HouseInvariant
<1>1. UNCHANGED <<news, listed, bag, attached, mails, sale, calls>> /\ clerk[i].at = "claim"
  BY DEF DeleteAuctionIfExists, Clerk, NoCall
<1>2. CASE rows[clerk[i].id] # NoLot /\ failed = "none"
  <2>1. /\ rows' = [rows EXCEPT ![clerk[i].id] = NoLot] /\ clerk' = [clerk EXCEPT ![i].at = "settle"] /\ UNCHANGED cache
        /\ exposed \subseteq exposed' /\ ("item" \notin exposed' => rows[clerk[i].id] = clerk[i].row)
    BY <1>2 DEF DeleteAuctionIfExists, Expose
  <2> QED BY <1>0, <1>1, <1>2, <2>1, KeepsClaiming
<1>3. CASE ~(rows[clerk[i].id] # NoLot /\ failed = "none")
  <2>1. Forget(i, clerk[i].id) /\ UNCHANGED <<rows, exposed>>
    BY <1>3 DEF DeleteAuctionIfExists
  <2>2. clerk[i].id \in AuctionIDs
    BY <1>0, <1>1 DEF ClerkOK, ClerkShape
  <2>3. PICK c \in Clerks :
           /\ clerk' = [clerk EXCEPT ![i] = c] /\ c.at \in {"off", "load"}
           /\ cache' \in [Servers -> [AuctionIDs -> Lots]] /\ \A home : FiledCaches(home) => FiledCaches(home)'
    BY <1>0, <2>1, <2>2, Forgets
  <2> QED BY <1>0, <1>1, <2>1, <2>3, KeepsReading
<1> QED BY <1>2, <1>3

\* The lot of a claimed auction goes out by mail.
LEMMA KeepsSettleAuction ==
  ASSUME HouseInvariant, UNCHANGED opening, NEW i \in opening.servers, NEW failed \in {"none", "seller", "lot"}, SettleAuction(i, failed)
  PROVE  HouseInvariant'
<1>0. TableOK /\ PostOK /\ SaleOK /\ ClerkOK /\ ClerksClaim /\ Filed /\ LotsKept /\ i \in Servers
  BY OpenServers DEF HouseInvariant
<1> DEFINE lot == clerk[i].row
           sold == lot.bidder # NoOne
           delivered == failed # "lot" /\ Deliverable(lot.items)
           receiver == IF sold THEN lot.bidder ELSE lot.owner
           pay == Letter(sold /\ failed # "seller", lot.owner, lot.bid - calculateAuctionCut(lot.bid), {})
           parcel == Letter(delivered, receiver, 0, lot.items)
<1>1. /\ clerk[i].at = "settle" /\ Send(pay \o parcel)
      /\ exposed' = exposed \cup (IF failed = "none" /\ delivered THEN {} ELSE {"item", "money"})
      /\ Publish(Event("expired", clerk[i].id, lot)) /\ Forget(i, clerk[i].id)
      /\ UNCHANGED <<bag, rows, listed, sale, calls>>
  BY DEF SettleAuction, Clerk, NoCall, Expose
<1>2. /\ clerk[i].id \in AuctionIDs /\ lot \in Lots
      /\ lot.owner \in Players \cup {NoOne} /\ lot.bidder \in Players \cup {NoOne} /\ lot.bid \in Nat /\ lot.items \in SUBSET Items
  <2>1. clerk[i].id \in AuctionIDs /\ lot \in Lots
    BY <1>0, <1>1 DEF ClerkOK, ClerkShape, Clerks
  <2> QED BY <2>1 DEF Lots
<1>3. pay \in Seq(Letters) /\ \A x : ~Enclosed(pay, x)
  <2>1. lot.bid - calculateAuctionCut(lot.bid) \in Int /\ (sold /\ failed # "seller") \in BOOLEAN
    BY <1>2, CutTypes
  <2>2. PICK sent \in BOOLEAN, to \in Players \cup {NoOne}, money \in Int :
             sent = (sold /\ failed # "seller") /\ to = lot.owner /\ money = lot.bid - calculateAuctionCut(lot.bid)
    BY <1>2, <2>1
  <2>3. {} \in SUBSET Items
    OBVIOUS
  <2>4. Letter(sent, to, money, {}) \in Seq(Letters) /\ \A x : Enclosed(Letter(sent, to, money, {}), x) <=> sent /\ x \in {}
    BY <2>3, LetterTypes
  <2>5. pay = Letter(sent, to, money, {})
    BY <2>2
  <2> HIDE DEF lot, pay
  <2> QED BY <2>4, <2>5
<1>4. parcel \in Seq(Letters) /\ \A x : Enclosed(parcel, x) <=> delivered /\ x \in lot.items
  <2>1. delivered \in BOOLEAN /\ receiver \in Players \cup {NoOne}
    BY <1>2 DEF Deliverable
  <2>2. PICK sent \in BOOLEAN, to \in Players \cup {NoOne}, items \in SUBSET Items : sent = delivered /\ to = receiver /\ items = lot.items
    BY <1>2, <2>1
  <2>3. Letter(sent, to, 0, items) \in Seq(Letters) /\ \A x : Enclosed(Letter(sent, to, 0, items), x) <=> sent /\ x \in items
    BY LetterTypes
  <2>4. parcel = Letter(sent, to, 0, items)
    BY <2>2
  <2> HIDE DEF delivered, lot, receiver, parcel
  <2> QED BY <2>2, <2>3, <2>4
<1> HIDE DEF pay, parcel
<1>5. pay \o parcel \in Seq(Letters) /\ \A x : Enclosed(pay \o parcel, x) <=> delivered /\ x \in lot.items
  BY <1>3, <1>4, EnclosedInBoth
<1>6. mails' \in Seq(MailRows) /\ attached' \in [Items -> Nat]
      /\ \A x \in Items : IF Enclosed(pay \o parcel, x) THEN attached'[x] # 0 ELSE attached'[x] = attached[x]
  BY <1>0, <1>1, <1>5, SendTypes DEF PostOK
<1>7. PICK c \in Clerks :
         /\ clerk' = [clerk EXCEPT ![i] = c] /\ c.at \in {"off", "load"}
         /\ cache' \in [Servers -> [AuctionIDs -> Lots]] /\ \A home : FiledCaches(home) => FiledCaches(home)'
  BY <1>0, <1>1, <1>2, Forgets
<1>c. \A j \in Servers : clerk'[j] = IF j = i THEN c ELSE clerk[j]
  BY <1>0, <1>7 DEF ClerkOK
<1>8. news' \in [Servers -> Seq(LotEvents)]
      /\ \A home : Home(home, clerk[i].id, lot) /\ FiledNews(home) => FiledNews(home)'
  <2>1. "expired" \in Kinds
    BY DEF Kinds
  <2>2. news' \in [Servers -> Seq(LotEvents)]
    BY <1>0, <1>1, <1>2, <2>1, PublishTypes DEF TableOK
  <2>3. ASSUME NEW home, Home(home, clerk[i].id, lot), FiledNews(home) PROVE FiledNews(home)'
    BY <1>0, <1>1, <1>2, <2>1, <2>3, NewsFiled
  <2> QED BY <2>2, <2>3
<1>9. TableOK' /\ PostOK' /\ SaleOK' /\ ClerkOK'
  BY <1>0, <1>1, <1>6, <1>7, <1>8, <1>c DEF TableOK, PostOK, SaleOK, ClerkOK, ClerkShape
<1>10. ClerksClaim'
  <2>1. \A id \in AuctionIDs : Numbered(id, rows[id])'
    BY <1>0, <1>1 DEF ClerksClaim, Numbered
  <2>2. ASSUME NEW j \in Servers PROVE Claims(j)'
    <3>1. CASE j = i
      BY <1>7, <1>c, <3>1 DEF Claims
    <3>2. CASE j # i
      <4>1. Claims(j) /\ clerk'[j] = clerk[j]
        BY <1>0, <1>c, <3>2 DEF ClerksClaim
      <4>2. clerk[j].at = "settle" => rows'[clerk[j].id] = NoLot \/ Reused(clerk[j].id)'
        BY <1>1, <4>1, SameReuse DEF Claims
      <4> QED BY <1>1, <4>1, <4>2 DEF Claims, Numbered
    <3> QED BY <3>1, <3>2
  <2>3. OneClerkPerLot'
    <3>1. ASSUME NEW j \in Servers, NEW k \in Servers, j # k, {clerk'[j].at, clerk'[k].at} = {"settle"}, clerk'[j].row.no = clerk'[k].row.no
          PROVE  Reused(clerk[j].id)'
      <4>1. clerk'[j].at = "settle" /\ clerk'[k].at = "settle"
        BY <3>1
      <4>2. clerk'[j] = clerk[j] /\ clerk'[k] = clerk[k]
        BY <1>7, <1>c, <4>1
      <4>3. PICK id : id = clerk[j].id
        OBVIOUS
      <4>4. Reused(id)
        BY <1>0, <3>1, <4>2, <4>3 DEF ClerksClaim, OneClerkPerLot
      <4> QED BY <1>1, <4>2, <4>3, <4>4, SameReuse
    <3> QED BY <3>1 DEF OneClerkPerLot
  <2> QED BY <2>1, <2>2, <2>3 DEF ClerksClaim
<1> SUFFICES ASSUME "item" \notin exposed' PROVE HouseInvariant'
  BY <1>9, <1>10, KeepsExposed
<1>11. "item" \notin exposed /\ delivered
  BY <1>1
<1>12. (\A x \in Items : Place(x)) /\ \A q \in Players : Closing(q) => \A x \in sale[q].lot.items : attached[x] # 0
  BY <1>0, <1>11 DEF LotsKept
<1>13. Filed'
  <2>0. PICK home \in Homes : FiledBy(home)
    BY <1>0, <1>11 DEF Filed
  <2>1. FiledRows(home) /\ FiledCaches(home) /\ FiledNews(home) /\ FiledSales(home) /\ FiledClerks(home) /\ Unlisted(home)
    BY <2>0 DEF FiledBy
  <2>2. Home(home, clerk[i].id, lot)
    BY <1>0, <1>1, <2>1 DEF FiledClerks
  <2>3. FiledNews(home)' /\ FiledCaches(home)'
    BY <1>7, <1>8, <2>1, <2>2
  <2>4. FiledClerks(home)'
    BY <1>7, <1>c, <2>1 DEF FiledClerks, Home
  <2>5. FiledRows(home)' /\ FiledSales(home)' /\ Unlisted(home)'
    BY <1>1, <2>1 DEF FiledRows, FiledSales, FiledSale, Unlisted, Holders, Sellers, Home
  <2> QED BY <2>0, <2>3, <2>4, <2>5 DEF FiledBy, Filed
<1>14. \A x \in Items : Holders(x)' = Holders(x) /\ Sellers(x)' = Sellers(x) /\ Auctioned(x)' = Auctioned(x)
  BY <1>1 DEF Holders, Sellers, Auctioned
<1>15. \A x \in Items : Settlers(x)' = IF x \in lot.items THEN Settlers(x) \ {i} ELSE Settlers(x)
  BY <1>1, <1>7, <1>c DEF Settlers
<1>16. ASSUME NEW x \in Items PROVE Place(x)'
  <2>1. CASE x \notin lot.items
    <3>1. attached'[x] = attached[x]
      BY <1>5, <1>6, <2>1
    <3> QED BY <1>1, <1>12, <1>14, <1>15, <2>1, <3>1, SamePlace DEF Closing
  <2>2. CASE x \in lot.items
    <3>1. attached[x] = 0 /\ attached'[x] # 0
      BY <1>5, <1>6, <1>11, <2>2 DEF Deliverable
    <3>2. Unsent(x) /\ i \in Settlers(x)
      BY <1>0, <1>1, <1>12, <2>2, <3>1 DEF Place, Settlers
    <3>3. Holders(x) = {} /\ Sellers(x) = {} /\ Auctioned(x) = {}
      BY <3>2 DEF Unsent
    <3>4. Sent(x)'
      BY <1>14, <3>3 DEF Sent
    <3> QED BY <3>1, <3>4 DEF Place
  <2> QED BY <2>1, <2>2
<1>17. ASSUME NEW q \in Players, Closing(q)', NEW x \in sale'[q].lot.items PROVE attached'[x] # 0
  <2>1. sale[q].lot.items \subseteq Items /\ Closing(q) /\ sale'[q] = sale[q]
    BY <1>0, <1>1, <1>17 DEF SaleOK, Sales, Lots, Closing
  <2> QED BY <1>6, <1>12, <1>17, <2>1
<1> QED BY <1>9, <1>10, <1>13, <1>16, <1>17 DEF HouseInvariant, LotsKept

\* An instance that ends: harmless, or exposed.
LEMMA KeepsAuctionCrash ==
  ASSUME HouseInvariant, UNCHANGED opening, NEW i \in opening.servers, AuctionCrash(i)
  PROVE  HouseInvariant'
<1>0. TableOK /\ PostOK /\ SaleOK /\ ClerkOK /\ ClerksClaim /\ Filed /\ LotsKept /\ i \in Servers
  BY OpenServers DEF HouseInvariant
<1> DEFINE served == {p \in Players : sale[p].srv = i}
<1>1. /\ calls' = [p \in Players |-> IF p \in served THEN Idle ELSE calls[p]]
      /\ sale' = [p \in Players |-> IF p \in served THEN NoSale ELSE sale[p]]
      /\ exposed' = exposed \cup (IF clerk[i].at # "settle" /\ \A p \in served : Harmless(sale[p]) THEN {} ELSE {"item", "money"})
      /\ cache' = [cache EXCEPT ![i] = rows] /\ news' = [news EXCEPT ![i] = <<>>] /\ clerk' = [clerk EXCEPT ![i] = OffDuty]
      /\ UNCHANGED <<bag, mails, attached, rows, listed>>
  BY DEF AuctionCrash, LoadAuctions, Expose
<1>c. \A j \in Servers : clerk'[j] = IF j = i THEN OffDuty ELSE clerk[j]
  BY <1>0, <1>1 DEF ClerkOK
<1>s. \A p \in Players : sale'[p] = IF p \in served THEN NoSale ELSE sale[p]
  BY <1>1
<1>2. TableOK'
  <2>1. <<>> \in Seq(LotEvents)
    OBVIOUS
  <2> QED BY <1>0, <1>1, <2>1 DEF TableOK
<1>3. PostOK' /\ ClerkOK'
  BY <1>0, <1>1, <1>c, ClerkTypes DEF PostOK, ClerkOK, ClerkShape
<1>4. SaleOK'
  BY <1>0, <1>1, SaleTypes DEF SaleOK, SaleShape
<1>5. ClerksClaim'
  <2>1. \A id \in AuctionIDs : Numbered(id, rows[id])'
    BY <1>0, <1>1 DEF ClerksClaim, Numbered
  <2>2. ASSUME NEW j \in Servers PROVE Claims(j)'
    <3>1. CASE j = i
      BY <1>c, <3>1, ClerkTypes DEF Claims
    <3>2. CASE j # i
      <4>1. Claims(j) /\ clerk'[j] = clerk[j]
        BY <1>0, <1>c, <3>2 DEF ClerksClaim
      <4>2. clerk[j].at = "settle" => rows'[clerk[j].id] = NoLot \/ Reused(clerk[j].id)'
        BY <1>1, <4>1, SameReuse DEF Claims
      <4> QED BY <1>1, <4>1, <4>2 DEF Claims, Numbered
    <3> QED BY <3>1, <3>2
  <2>3. OneClerkPerLot'
    <3>1. ASSUME NEW j \in Servers, NEW k \in Servers, j # k, {clerk'[j].at, clerk'[k].at} = {"settle"}, clerk'[j].row.no = clerk'[k].row.no
          PROVE  Reused(clerk[j].id)'
      <4>1. clerk'[j].at = "settle" /\ clerk'[k].at = "settle"
        BY <3>1
      <4>2. clerk'[j] = clerk[j] /\ clerk'[k] = clerk[k]
        BY <1>c, <4>1, ClerkTypes
      <4>3. PICK id : id = clerk[j].id
        OBVIOUS
      <4>4. Reused(id)
        BY <1>0, <3>1, <4>2, <4>3 DEF ClerksClaim, OneClerkPerLot
      <4> QED BY <1>1, <4>2, <4>3, <4>4, SameReuse
    <3> QED BY <3>1 DEF OneClerkPerLot
  <2> QED BY <2>1, <2>2, <2>3 DEF ClerksClaim
<1> SUFFICES ASSUME "item" \notin exposed' PROVE HouseInvariant'
  BY <1>2, <1>3, <1>4, <1>5, KeepsExposed
<1>6. "item" \notin exposed /\ clerk[i].at # "settle" /\ \A p \in served : sale[p].at \in {"none", "list", "updateBid", "mails"}
  BY <1>1 DEF Harmless
<1> HIDE DEF served
<1>7. (\A x \in Items : Place(x)) /\ \A q \in Players : Closing(q) => \A x \in sale[q].lot.items : attached[x] # 0
  BY <1>0, <1>6 DEF LotsKept
<1>8. Filed'
  <2>0. PICK home \in Homes : FiledBy(home)
    BY <1>0, <1>6 DEF Filed
  <2>1. FiledRows(home) /\ FiledCaches(home) /\ FiledNews(home) /\ FiledSales(home) /\ FiledClerks(home) /\ Unlisted(home)
    BY <2>0 DEF FiledBy
  <2>2. FiledCaches(home)'
    BY <1>0, <1>1, <2>1 DEF FiledCaches, FiledRows, Home, TableOK
  <2>3. FiledNews(home)'
    <3>1. ASSUME NEW j \in Servers, NEW k \in DOMAIN news'[j] PROVE Home(home, news'[j][k].id, news'[j][k].lot)
      <4>1. j # i /\ news'[j] = news[j]
        BY <1>0, <1>1, <3>1 DEF TableOK
      <4> QED BY <2>1, <4>1 DEF FiledNews
    <3> QED BY <3>1 DEF FiledNews, Home
  <2>4. FiledClerks(home)'
    BY <1>c, <2>1, ClerkTypes DEF FiledClerks, Home
  <2>5. FiledSales(home)'
    BY <1>s, <2>1, NoSaleFiled DEF FiledSales, FiledSale, Home
  <2>6. \A x \in Items : Holders(x)' = Holders(x) /\ Sellers(x)' \subseteq Sellers(x)
    BY <1>1, <1>s, SaleTypes DEF Holders, Sellers
  <2>7. FiledRows(home)' /\ Unlisted(home)'
    BY <1>1, <2>1, <2>6 DEF FiledRows, Unlisted, Home
  <2> QED BY <2>0, <2>2, <2>3, <2>4, <2>5, <2>7 DEF FiledBy, Filed
<1>9. \A x \in Items : Holders(x)' = Holders(x) /\ Auctioned(x)' = Auctioned(x) /\ Settlers(x)' = Settlers(x)
  BY <1>1, <1>6, <1>c, ClerkTypes DEF Holders, Auctioned, Settlers
<1>10. \A x \in Items : Sellers(x)' = Sellers(x)
  BY <1>6, <1>s, SaleTypes DEF Sellers
<1>11. \A q \in Players : (Closing(q)' <=> Closing(q)) /\ (Closing(q) => sale'[q] = sale[q])
  BY <1>6, <1>s, SaleTypes DEF Closing
<1>12. ASSUME NEW x \in Items PROVE Place(x)'
  BY <1>1, <1>7, <1>9, <1>10, <1>11, SamePlace
<1>13. LotsKept'
  BY <1>1, <1>7, <1>11, <1>12 DEF LotsKept
<1> QED BY <1>2, <1>3, <1>4, <1>5, <1>8, <1>13 DEF HouseInvariant

\* A step that changes none of the variables of the invariant.
LEMMA KeepsStandingStill ==
  ASSUME HouseInvariant, UNCHANGED <<opening, rows, cache, news, listed, sale, calls, clerk, bag, attached, mails, exposed>>
  PROVE  HouseInvariant'
<1>0. TableOK /\ PostOK /\ SaleOK /\ ClerkOK /\ ClerksClaim /\ Filed /\ LotsKept
  BY DEF HouseInvariant
<1>1. TableOK' /\ PostOK' /\ SaleOK' /\ ClerkOK' /\ ClerksClaim'
  BY <1>0, SameClaims DEF TableOK, PostOK, SaleOK, ClerkOK
<1>2. LotsKept'
  BY <1>0 DEF LotsKept, Place, Unsent, Sent, Holders, Sellers, Settlers, Auctioned, Closing
<1>3. Filed'
  BY <1>0 DEF Filed, FiledBy, FiledRows, FiledCaches, FiledNews, FiledSales, FiledSale, FiledClerks, Unlisted, Holders, Sellers, Home
<1> QED BY <1>1, <1>2, <1>3 DEF HouseInvariant

-----------------------------------------------------------------------------
(* The theorems                                                             *)

\* Every opening satisfies the invariant.
LEMMA HouseStarts == AuctionInit => HouseInvariant
<1> SUFFICES ASSUME AuctionInit PROVE HouseInvariant
  OBVIOUS
<1> DEFINE first == opening.auctions
<1>1. /\ opening \in Openings
      /\ bag = opening.bags /\ mails = <<>> /\ attached = [x \in Items |-> 0] /\ calls = [p \in Players |-> Idle] /\ exposed = {}
      /\ rows = [id \in AuctionIDs |-> IF id \in DOMAIN first THEN first[id] ELSE NoLot]
      /\ cache = [i \in Servers |-> IF i \in opening.servers THEN rows ELSE [id \in AuctionIDs |-> NoLot]]
      /\ news = [i \in Servers |-> <<>>] /\ sale = [p \in Players |-> NoSale] /\ clerk = [i \in Servers |-> OffDuty]
      /\ listed = [k \in DOMAIN first |-> k]
  BY DEF AuctionInit, MailStart
<1>2. /\ first \in Seq(Lots) /\ DOMAIN first \subseteq AuctionIDs /\ opening.bags \in [Players -> SUBSET Items]
      /\ \A k \in DOMAIN first : first[k].no = k
  BY <1>1, AuctionAssumption
<1>3. \A x \in Items :
        LET sold == {k \in DOMAIN first : x \in first[k].items}
            kept == {p \in Players : x \in bag[p]} IN
        \/ kept = {} /\ \E k \in DOMAIN first : sold = {k}
        \/ sold = {} /\ \E p \in Players : kept = {p}
  <2>1. PICK o \in Openings : o = opening
    BY <1>1
  <2>2. \A x \in Items :
          LET sold == {k \in DOMAIN o.auctions : x \in o.auctions[k].items}
              kept == {p \in Players : x \in o.bags[p]} IN
          \/ kept = {} /\ \E k \in DOMAIN o.auctions : sold = {k}
          \/ sold = {} /\ \E p \in Players : kept = {p}
    BY AuctionAssumption
  <2>3. first = o.auctions /\ bag = o.bags
    BY <1>1, <2>1
  <2> HIDE DEF first
  <2> QED BY <2>2, <2>3
<1> HIDE DEF first
<1>4. DOMAIN first = 1..Len(first) /\ \A k \in DOMAIN first : first[k] \in Lots
  BY <1>2
<1>5. rows \in [AuctionIDs -> Lots] /\ cache \in [Servers -> [AuctionIDs -> Lots]]
  <2>1. rows \in [AuctionIDs -> Lots]
    BY <1>1, <1>4, LotTypes
  <2> QED BY <1>1, <2>1, LotTypes
<1>6. listed \in Seq(AuctionIDs) /\ DOMAIN listed = DOMAIN first /\ \A k \in DOMAIN first : listed[k] = k
  <2>1. Len(first) \in Nat /\ \A k \in 1..Len(first) : k \in AuctionIDs
    BY <1>2, <1>4
  <2>2. listed = [k \in 1..Len(first) |-> k]
    BY <1>1, <1>4
  <2> QED BY <1>4, <2>1, <2>2
<1>7. TableOK
  <2>1. \A i \in Servers : <<>> \in Seq(LotEvents)
    OBVIOUS
  <2> QED BY <1>1, <1>5, <1>6, <2>1 DEF TableOK
<1>8. PostOK
  <2>1. <<>> \in Seq(MailRows)
    OBVIOUS
  <2> QED BY <1>1, <1>2, <2>1 DEF PostOK
<1>9. SaleOK /\ ClerkOK
  BY <1>1, SaleTypes, ClerkTypes DEF SaleOK, SaleShape, ClerkOK, ClerkShape
<1>10. ClerksClaim
  <2>1. \A id \in AuctionIDs : Numbered(id, rows[id])
    BY <1>1, <1>2, <1>6 DEF Numbered
  <2>2. (\A i \in Servers : Claims(i)) /\ OneClerkPerLot
    BY <1>1, ClerkTypes DEF Claims, OneClerkPerLot
  <2> QED BY <2>1, <2>2 DEF ClerksClaim
<1>11. \A x \in Items : Auctioned(x) = {k \in DOMAIN first : x \in first[k].items}
  BY <1>1, <1>2, LotTypes DEF Auctioned
<1>12. Filed
  <2>1. PICK home \in Homes : \A x \in Items : \A k \in AuctionIDs : IF Auctioned(x) = {k} THEN home[x] = k ELSE Auctioned(x) = {} => home[x] = 0
    <3> DEFINE f == [x \in Items |-> IF \E k \in AuctionIDs : Auctioned(x) = {k} THEN CHOOSE k \in AuctionIDs : Auctioned(x) = {k} ELSE 0]
    <3>1. f \in Homes
      BY DEF Homes
    <3>2. ASSUME NEW x \in Items, NEW k \in AuctionIDs
          PROVE  IF Auctioned(x) = {k} THEN f[x] = k ELSE Auctioned(x) = {} => f[x] = 0
      OBVIOUS
    <3> HIDE DEF f
    <3> QED BY <3>1, <3>2
  <2>2. \A x \in Items : \/ Holders(x) = {} /\ \E k \in AuctionIDs : Auctioned(x) = {k}
                         \/ Auctioned(x) = {} /\ \E p \in Players : Holders(x) = {p}
    BY <1>2, <1>3, <1>11 DEF Holders
  <2>3. FiledRows(home)
    <3>1. ASSUME NEW id \in AuctionIDs, NEW x \in rows[id].items PROVE home[x] = id
      <4>1. x \in Items /\ id \in Auctioned(x)
        BY <1>5, <3>1 DEF Lots, Auctioned
      <4>2. Auctioned(x) = {id}
        BY <2>2, <4>1
      <4> QED BY <2>1, <4>1, <4>2
    <3> QED BY <3>1 DEF FiledRows, Home
  <2>4. FiledCaches(home)
    BY <1>1, <2>3, LotTypes DEF FiledCaches, FiledRows, Home
  <2>5. FiledNews(home) /\ FiledSales(home) /\ FiledClerks(home)
    BY <1>1, NoSaleFiled, ClerkTypes DEF FiledNews, FiledSales, FiledClerks
  <2>6. Unlisted(home)
    <3>1. ASSUME NEW x \in Items, Holders(x) \cup Sellers(x) # {} PROVE home[x] = 0
      <4>1. Sellers(x) = {}
        BY <1>1, SaleTypes DEF Sellers
      <4>2. Auctioned(x) = {}
        BY <2>2, <3>1, <4>1
      <4>3. CASE AuctionIDs = {}
        BY <4>3 DEF Homes
      <4>4. CASE AuctionIDs # {}
        BY <2>1, <4>2, <4>4
      <4> QED BY <4>3, <4>4
    <3> QED BY <3>1 DEF Unlisted
  <2> QED BY <2>1, <2>3, <2>4, <2>5, <2>6 DEF Filed, FiledBy
<1>13. LotsKept
  <2>1. ASSUME NEW x \in Items PROVE Place(x)
    <3>1. Sellers(x) = {} /\ Settlers(x) = {} /\ attached[x] = 0
      BY <1>1, SaleTypes, ClerkTypes DEF Sellers, Settlers
    <3>2. \/ Holders(x) = {} /\ \E k \in AuctionIDs : Auctioned(x) = {k}
          \/ Auctioned(x) = {} /\ \E p \in Players : Holders(x) = {p}
      BY <1>2, <1>3, <1>11 DEF Holders
    <3> QED BY <3>1, <3>2 DEF Place, Unsent
  <2>2. \A p \in Players : ~Closing(p)
    BY <1>1, SaleTypes DEF Closing
  <2> QED BY <2>1, <2>2 DEF LotsKept
<1> QED BY <1>7, <1>8, <1>9, <1>10, <1>12, <1>13 DEF HouseInvariant

\* Every step of the auction house keeps it.
LEMMA HouseInvariantKept == HouseInvariant /\ [AuctionNext]_<<opening, houseVars>> => HouseInvariant'
<1>1. ASSUME HouseInvariant, AuctionNext PROVE HouseInvariant'
  <2>0. UNCHANGED opening
    BY <1>1 DEF AuctionNext
  <2>1. ASSUME NEW p \in Players, AuctionStep(p) PROVE HouseInvariant'
    BY <1>1, <2>0, <2>1, KeepsSellItem, KeepsInsertAuction, KeepsUpdateBid, KeepsPlaceBid, KeepsBuyoutMails, KeepsDeleteAuction,
       KeepsCloseAuction, KeepsCancelMails, KeepsCancelAuction DEF AuctionStep
  <2>2. ASSUME NEW p \in Players, NEW i \in opening.servers, AuctionInput(p, i) PROVE HouseInvariant'
    BY <1>1, <2>0, <2>2, KeepsSellItemBegins, KeepsRemoveItem, KeepsPlaceBidBegins, KeepsBuyout DEF AuctionInput
  <2>3. ASSUME NEW i \in opening.servers, ClerkStep(i) PROVE HouseInvariant'
    BY <1>1, <2>0, <2>3, KeepsProcessExpiredAuctions, KeepsLoadAuctionByID, KeepsDeleteAuctionIfExists, KeepsSettleAuction DEF ClerkStep
  <2>4. ASSUME NEW i \in opening.servers, AuctionCrash(i) \/ \E k \in DOMAIN news[i] : HandleAuctionEvent(i, k) PROVE HouseInvariant'
    BY <1>1, <2>0, <2>4, KeepsAuctionCrash, KeepsHandleAuctionEvent
  <2>5. ASSUME NEW id \in AuctionIDs, AuctionExpires(id) PROVE HouseInvariant'
    <3>1. UNCHANGED <<rows, cache, news, listed, sale, calls, clerk, bag, attached, mails, exposed>>
      BY <2>5 DEF AuctionExpires, mailVars
    <3> QED BY <1>1, <2>0, <3>1, KeepsStandingStill
  <2> QED BY <1>1, <2>1, <2>2, <2>3, <2>4, <2>5 DEF AuctionNext
<1>2. ASSUME HouseInvariant, UNCHANGED <<opening, houseVars>> PROVE HouseInvariant'
  <2>1. UNCHANGED <<opening, rows, cache, news, listed, sale, calls, clerk, bag, attached, mails, exposed>>
    BY <1>2 DEF houseVars, mailVars, auctionVars
  <2> QED BY <1>2, <2>1, KeepsStandingStill
<1> QED BY <1>1, <1>2

\* In every reachable state the state of the auction house is well typed, calls
\* and sessions agree, the tickers' claims hold, and, unless a failure exposed
\* an item, all copies of an auction are filed under one id and every item has
\* one place.
THEOREM HouseInvariantHolds == AuctionSpec => []HouseInvariant
<1>1. AuctionInit => HouseInvariant
  BY HouseStarts
<1>2. HouseInvariant /\ [AuctionNext]_<<opening, houseVars>> => HouseInvariant'
  BY HouseInvariantKept
<1> QED BY <1>1, <1>2, PTL DEF AuctionSpec

\* OneClerkPerLot: of two instances that settle the same auction
\* (ProcessExpiredAuctions), its id was given twice.
THEOREM OneClerkSettles == AuctionSpec => []OneClerkPerLot
<1>1. HouseInvariant => OneClerkPerLot
  BY DEF HouseInvariant, ClerksClaim
<1> QED BY <1>1, HouseInvariantHolds, PTL

\* Between calls the invariant leaves one bag, mail or auction to an item.
LEMMA KeptLots == HouseInvariant => LotOnce
<1> SUFFICES ASSUME HouseInvariant, AllQuiet, "item" \notin exposed, NEW x \in Items
             PROVE  Cardinality(PlacesOf(x)) + Cardinality(Auctioned(x)) = 1
  BY DEF LotOnce
<1>1. SaleOK /\ PostOK /\ Place(x)
  BY DEF HouseInvariant, LotsKept
<1>2. \A p \in Players : sale[p].at = "none"
  <2>1. \A p \in Players : calls[p].at = "idle"
    BY DEF AllQuiet, Quiet, Free
  <2> QED BY <1>1, <2>1, CallTypes DEF SaleOK
<1>3. Sellers(x) = {} /\ Settlers(x) = {} /\ \A p \in Players : ~Closing(p)
  BY <1>2 DEF AllQuiet, Sellers, Settlers, Closing
<1>4. PlacesOf(x) = Holders(x) \cup ({attached[x]} \ {0})
  BY DEF PlacesOf, Holders
<1>5. Cardinality({}) = 0 /\ \A e : Cardinality({e}) = 1
  BY FS_EmptySet, FS_Singleton
<1>6. CASE attached[x] = 0
  <2>1. PlacesOf(x) = Holders(x)
    BY <1>4, <1>6
  <2>2. \/ Auctioned(x) = {} /\ \E p \in Players : Holders(x) = {p}
        \/ Holders(x) = {} /\ \E id \in AuctionIDs : Auctioned(x) = {id}
    BY <1>1, <1>3, <1>6 DEF Place, Unsent
  <2>3. CASE Auctioned(x) = {} /\ \E p \in Players : Holders(x) = {p}
    BY <1>5, <2>1, <2>3
  <2>4. CASE Holders(x) = {} /\ \E id \in AuctionIDs : Auctioned(x) = {id}
    BY <1>5, <2>1, <2>4
  <2> QED BY <2>2, <2>3, <2>4
<1>7. CASE attached[x] # 0
  <2>1. Holders(x) = {} /\ Auctioned(x) = {}
    BY <1>1, <1>3, <1>7 DEF Place, Sent
  <2>2. PlacesOf(x) = {attached[x]}
    BY <1>4, <1>7, <2>1
  <2>3. Cardinality(PlacesOf(x)) = 1 /\ Cardinality(Auctioned(x)) = 0
    BY <1>5, <2>1, <2>2
  <2> QED BY <2>3
<1> QED BY <1>6, <1>7

\* LotOnce: through listing, bidding, buying out, cancelling, expiry, restarts
\* and events of any number of players and instances, an item is in one bag,
\* one mail or one auction.
THEOREM LotsAreKept == AuctionSpec => []LotOnce
BY KeptLots, HouseInvariantHolds, PTL
-----------------------------------------------------------------------------
(* The mail service: types                                                  *)

MailSteps == {"idle", "payPostage", "post", "clearMoney", "credit", "payCod", "addItem", "removeItem", "deleteItem", "sendCod",
              "update", "deleteMail", "deleteMailItems", "deleteInstances", "deleteRow", "markRead", "listItems"}
TakeSteps == {"payCod", "addItem", "removeItem", "deleteItem", "deleteMailItems"}
MailCalls == [at : MailSteps, mail : Nat, items : SUBSET Items, cash : Int, cod : Int, to : Players \cup {NoOne}, row : MailRows]
CleanerSteps == {"resting", "deletePlain", "return", "deleteInstances", "deleteMailItems", "deleteMails"}
Reads == UNION {[S -> MailRows] : S \in SUBSET Nat}
Cleaners == [at : CleanerSteps, read : Reads, todo : SUBSET Nat, doomed : SUBSET Nat, items : SUBSET Items]

CallsTyped == calls \in [Players -> MailCalls] /\ \A p \in Players : calls[p].at \in TakeSteps => calls[p].mail # 0
CleanerTyped ==
  /\ cleaner \in Cleaners /\ 0 \notin cleaner.doomed
  /\ \A m \in cleaner.todo : m # 0 /\ cleaner.read[m] \in MailRows
MailTypes == PostOK /\ CallsTyped /\ CleanerTyped

\* The table mail as a sequence of rows.
LEMMA SequencesOfRows ==
  /\ \A s \in Seq(MailRows) : Len(s) \in Nat /\ DOMAIN s = 1..Len(s) /\ s \in [1..Len(s) -> MailRows] /\ 0 \notin DOMAIN s
  /\ \A n \in Nat : \A f \in [1..n -> MailRows] : f \in Seq(MailRows)
<1>1. ASSUME NEW s \in Seq(MailRows)
      PROVE  Len(s) \in Nat /\ DOMAIN s = 1..Len(s) /\ s \in [1..Len(s) -> MailRows] /\ 0 \notin DOMAIN s
  OBVIOUS
<1>2. ASSUME NEW n \in Nat, NEW f \in [1..n -> MailRows] PROVE f \in Seq(MailRows)
  OBVIOUS
<1> QED BY <1>1, <1>2

\* The row of a deleted mail, and sessions and ticker at rest.
LEMMA RowTypes ==
  /\ Gone \in MailRows /\ Idle \in MailCalls /\ Idle.at = "idle" /\ Idle.items = {}
  /\ Resting \in Cleaners /\ Resting.at = "resting" /\ Resting.todo = {} /\ Resting.doomed = {}
<1>1. Gone \in MailRows
  BY DEF Gone, MailRows
<1>2. Idle \in MailCalls /\ Idle.at = "idle" /\ Idle.items = {}
  BY <1>1 DEF Idle, MailCalls, MailSteps
<1>3. <<>> \in Reads
  <2>1. <<>> \in [{} -> MailRows]
    OBVIOUS
  <2> QED BY <2>1 DEF Reads
<1>4. Resting \in Cleaners /\ Resting.at = "resting" /\ Resting.todo = {} /\ Resting.doomed = {}
  BY <1>3 DEF Resting, Cleaners, CleanerSteps
<1> QED BY <1>1, <1>2, <1>4

\* A new mail is a row.
LEMMA NewMailTypes ==
  ASSUME NEW from \in Players \cup {NoOne}, NEW to \in Players \cup {NoOne}, NEW money \in Int, NEW cod \in Int, NEW items
  PROVE  NewMail(from, to, money, cod, items) \in MailRows
<1>1. (items # {}) \in BOOLEAN
  OBVIOUS
<1> QED BY <1>1 DEF NewMail, MailRows

\* An UPDATE keeps the table a table of rows.
LEMMA UpdateTypes ==
  ASSUME mails \in Seq(MailRows), NEW m, NEW row \in MailRows, UpdateMailByID(m, row)
  PROVE  mails' \in Seq(MailRows) /\ DOMAIN mails' = DOMAIN mails
<1>1. CASE ~Exists(m)
  BY <1>1 DEF UpdateMailByID
<1>2. CASE Exists(m)
  <2>1. m \in DOMAIN mails /\ mails[m] \in MailRows
    BY <1>2 DEF Exists, Ids
  <2>2. mails[m].hasItems \in BOOLEAN
    BY <2>1 DEF MailRows
  <2> DEFINE new == [row EXCEPT !.hasItems = mails[m].hasItems]
  <2>3. new \in MailRows
    BY <2>2 DEF MailRows
  <2>4. mails' = [mails EXCEPT ![m] = new]
    BY <1>2 DEF UpdateMailByID
  <2> HIDE DEF new
  <2>5. mails' \in [1..Len(mails) -> MailRows] /\ DOMAIN mails' = DOMAIN mails
    BY <2>1, <2>3, <2>4, SequencesOfRows
  <2> QED BY <2>5, SequencesOfRows
<1> QED BY <1>1, <1>2

\* So does a DELETE.
LEMMA DeleteTypes ==
  ASSUME mails \in Seq(MailRows), NEW ids, DeleteMailsWithoutAttachments(ids)
  PROVE  mails' \in Seq(MailRows) /\ DOMAIN mails' = DOMAIN mails
<1>1. mails' = [m \in 1..Len(mails) |-> IF m \in ids THEN Gone ELSE mails[m]]
  BY SequencesOfRows DEF DeleteMailsWithoutAttachments, Ids
<1>2. mails' \in [1..Len(mails) -> MailRows] /\ DOMAIN mails' = DOMAIN mails
  BY <1>1, SequencesOfRows, RowTypes
<1> QED BY <1>2, SequencesOfRows

\* AddMail appends a row and attaches the items to it.
LEMMA AddTypes ==
  ASSUME mails \in Seq(MailRows), attached \in [Items -> Nat], NEW mail \in MailRows, NEW items, AddMail(mail, items)
  PROVE  /\ mails' \in Seq(MailRows) /\ attached' \in [Items -> Nat]
         /\ \A x \in Items : IF x \in items THEN attached'[x] # 0 ELSE attached'[x] = attached[x]
<1>1. Len(mails) \in Nat /\ Append(mails, mail) \in Seq(MailRows)
  OBVIOUS
<1>2. mails' = Append(mails, mail) /\ attached' = [x \in Items |-> IF x \in items THEN Len(mails) + 1 ELSE attached[x]]
  BY DEF AddMail
<1> QED BY <1>1, <1>2

\* The call of p at another step.
Stepped(p, step) == [calls[p] EXCEPT !.at = step]
\* A call may become any call that has a mail where it needs one.
LEMMA CallSet ==
  ASSUME CallsTyped, NEW p \in Players, NEW c \in MailCalls, c.at \in TakeSteps => c.mail # 0, calls' = [calls EXCEPT ![p] = c]
  PROVE  CallsTyped' /\ \A q \in Players : calls'[q] = IF q = p THEN c ELSE calls[q]
BY DEF CallsTyped

\* A call that goes on keeps its mail and items.
LEMMA CallGoes ==
  ASSUME CallsTyped, NEW p \in Players, NEW step \in MailSteps, step \in TakeSteps => calls[p].at \in TakeSteps, Goto(p, step)
  PROVE  /\ CallsTyped' /\ \A q \in Players : calls'[q] = IF q = p THEN Stepped(p, step) ELSE calls[q]
         /\ Stepped(p, step).at = step /\ Stepped(p, step).items = calls[p].items /\ Stepped(p, step).mail = calls[p].mail
<1>1. calls[p] \in MailCalls
  BY DEF CallsTyped
<1>2. Stepped(p, step) \in MailCalls /\ Stepped(p, step).at = step /\ Stepped(p, step).items = calls[p].items
      /\ Stepped(p, step).mail = calls[p].mail
  BY <1>1 DEF Stepped, MailCalls
<1>3. calls' = [calls EXCEPT ![p] = Stepped(p, step)]
  BY DEF Goto, Stepped, CallsTyped
<1> QED BY <1>2, <1>3, CallSet DEF CallsTyped

\* A call that ends leaves the session idle.
LEMMA CallEnds ==
  ASSUME CallsTyped, NEW p \in Players, Done(p)
  PROVE  CallsTyped' /\ \A q \in Players : calls'[q] = IF q = p THEN Idle ELSE calls[q]
BY RowTypes, CallSet DEF Done, TakeSteps

-----------------------------------------------------------------------------
(* The mail service: where an item is                                       *)

Takers(x) == {p \in Players : calls[p].at \in {"removeItem", "deleteItem"} /\ x \in calls[p].items}
Carriers(x) == {p \in Players : calls[p].at \in {"payPostage", "post"} /\ x \in calls[p].items}
\* Who has an item that is not attached to a mail as well.
Owners(x) == Holders(x) \ Takers(x)

ItemPlace(x) ==
  IF attached[x] # 0 \/ x \in destroyed
  THEN Owners(x) = {} /\ Carriers(x) = {}
  ELSE /\ x \in instances
       /\ \/ Carriers(x) = {} /\ \E p \in Players : Owners(x) = {p}
          \/ Owners(x) = {} /\ \E p \in Players : Carriers(x) = {p}
ItemPlaced(x) == Takers(x) \subseteq Holders(x) /\ (attached[x] # 0 => x \notin destroyed) /\ ItemPlace(x)
\* An item that is about to leave its mail has a row; deletions come in order.
InstancesScanned ==
  \A p \in Players : calls[p].at = "deleteItem" => \A x \in calls[p].items : attached[x] = calls[p].mail => x \in instances
ItemsDeletedFirst == \A p \in Players : calls[p].at = "deleteInstances" => calls[p].items \subseteq destroyed
InstancesDeletedFirst ==
  cleaner.at = "deleteMailItems" => \A x \in cleaner.items : x \in destroyed \/ (attached[x] # 0 /\ x \notin instances)
ItemsPlaced ==
  "item" \notin exposed =>
    (\A x \in Items : ItemPlaced(x)) /\ InstancesScanned /\ ItemsDeletedFirst /\ InstancesDeletedFirst

MailInvariant == MailTypes /\ ItemsPlaced

\* A step that moves no item.
LEMMA KeepsItems ==
  ASSUME ItemsPlaced, exposed \subseteq exposed', UNCHANGED <<bag, attached, instances, destroyed>>,
         "item" \notin exposed' => \A x \in Items : Takers(x)' = Takers(x) /\ Carriers(x)' = Carriers(x),
         \A p \in Players : calls'[p].at \in {"deleteItem", "deleteInstances"} => calls'[p] = calls[p],
         cleaner'.at = "deleteMailItems" => cleaner' = cleaner
  PROVE  ItemsPlaced'
<1> SUFFICES ASSUME "item" \notin exposed'
             PROVE  (\A x \in Items : ItemPlaced(x))' /\ InstancesScanned' /\ ItemsDeletedFirst' /\ InstancesDeletedFirst'
  BY DEF ItemsPlaced
<1>1. (\A x \in Items : ItemPlaced(x)) /\ InstancesScanned /\ ItemsDeletedFirst /\ InstancesDeletedFirst
  BY DEF ItemsPlaced
<1>2. \A x \in Items : Holders(x)' = Holders(x) /\ Owners(x)' = Owners(x)
  BY DEF Holders, Owners
<1>3. \A x \in Items : ItemPlaced(x)'
  BY <1>1, <1>2 DEF ItemPlaced, ItemPlace
<1>4. InstancesScanned' /\ ItemsDeletedFirst' /\ InstancesDeletedFirst'
  BY <1>1 DEF InstancesScanned, ItemsDeletedFirst, InstancesDeletedFirst
<1> QED BY <1>3, <1>4

\* A step of one call that moves no item.
LEMMA KeepsOthersItems ==
  ASSUME ItemsPlaced, exposed \subseteq exposed', UNCHANGED <<bag, attached, instances, destroyed, cleaner>>,
         NEW p \in Players, NEW c, \A q \in Players : calls'[q] = IF q = p THEN c ELSE calls[q],
         c.at \notin {"payPostage", "post", "removeItem", "deleteItem", "deleteInstances"},
         \/ calls[p].at \notin {"payPostage", "post", "removeItem", "deleteItem"}
         \/ "item" \in exposed'
         \/ calls[p].at \in {"payPostage", "post"} /\ calls[p].items = {}
  PROVE  ItemsPlaced'
<1>1. "item" \notin exposed' => \A x \in Items : Takers(x)' = Takers(x) /\ Carriers(x)' = Carriers(x)
  BY DEF Takers, Carriers
<1>2. \A q \in Players : calls'[q].at \in {"deleteItem", "deleteInstances"} => calls'[q] = calls[q]
  OBVIOUS
<1> QED BY <1>1, <1>2, KeepsItems

\* Types when tables, bags and ticker stay.
LEMMA KeepsMailTypes ==
  ASSUME MailTypes, UNCHANGED <<bag, attached, cleaner>>, mails' \in Seq(MailRows), CallsTyped' PROVE MailTypes'
BY DEF MailTypes, PostOK, CleanerTyped

-----------------------------------------------------------------------------
(* The packets                                                              *)

\* The items leave the bag; the call carries them (HandleSendMail).
LEMMA KeepsHandleSendMail ==
  ASSUME MailInvariant, NEW p \in Players, NEW w \in Parcels, HandleSendMail(p, w) PROVE MailInvariant'
<1> DEFINE c == [Idle EXCEPT !.at = "payPostage", !.items = w.items, !.cash = w.money, !.cod = w.cod, !.to = w.to]
<1>1. MailTypes /\ ItemsPlaced /\ PostOK /\ CallsTyped
  BY DEF MailInvariant, MailTypes
<1>2. /\ calls[p].at = "idle" /\ w.items \subseteq bag[p] /\ bag' = [bag EXCEPT ![p] = @ \ w.items] /\ calls' = [calls EXCEPT ![p] = c]
      /\ UNCHANGED <<attached, mails, instances, destroyed, exposed, cleaner>>
  BY DEF HandleSendMail, Packet, Free, postOffice, backOffice
<1>3. w.items \subseteq Items /\ w.money \in Nat /\ w.cod \in Nat /\ w.to \in Players
  BY MailAssumption
<1>4. c \in MailCalls /\ c.at = "payPostage" /\ c.items = w.items
  <2>1. PICK items \in SUBSET Items, cash \in Int, cod \in Int, to \in Players \cup {NoOne} :
           w.items = items /\ w.money = cash /\ w.cod = cod /\ w.to = to
    BY <1>3
  <2> DEFINE d == [Idle EXCEPT !.at = "payPostage", !.items = items, !.cash = cash, !.cod = cod, !.to = to]
  <2>2. d \in MailCalls /\ d.at = "payPostage" /\ d.items = items
    BY RowTypes DEF MailCalls, MailSteps
  <2>3. c = d
    BY <2>1
  <2> QED BY <2>1, <2>2, <2>3
<1> HIDE DEF c
<1>5. CallsTyped' /\ \A q \in Players : calls'[q] = IF q = p THEN c ELSE calls[q]
  BY <1>1, <1>2, <1>4, CallSet DEF TakeSteps
<1>6. MailTypes'
  BY <1>1, <1>2, <1>5 DEF MailTypes, PostOK, CleanerTyped
<1>7. \A x \in Items : /\ Takers(x)' = Takers(x) /\ p \notin Takers(x)
                       /\ Carriers(x)' = IF x \in w.items THEN Carriers(x) \cup {p} ELSE Carriers(x)
                       /\ Holders(x)' = IF x \in w.items THEN Holders(x) \ {p} ELSE Holders(x)
  BY <1>1, <1>2, <1>4, <1>5 DEF Takers, Carriers, Holders, PostOK
<1>8. \A x \in w.items : p \in Holders(x)
  BY <1>2 DEF Holders
<1>9. ItemsPlaced'
  <2> SUFFICES ASSUME "item" \notin exposed'
               PROVE  (\A x \in Items : ItemPlaced(x))' /\ InstancesScanned' /\ ItemsDeletedFirst' /\ InstancesDeletedFirst'
    BY DEF ItemsPlaced
  <2>1. (\A x \in Items : ItemPlaced(x)) /\ InstancesScanned /\ ItemsDeletedFirst /\ InstancesDeletedFirst
    BY <1>1, <1>2 DEF ItemsPlaced
  <2>2. ASSUME NEW x \in Items PROVE ItemPlaced(x)'
    <3>1. CASE x \notin w.items
      BY <1>2, <1>7, <2>1, <3>1 DEF ItemPlaced, ItemPlace, Owners
    <3>2. CASE x \in w.items
      <4>1. p \in Owners(x)
        BY <1>7, <1>8, <3>2 DEF Owners
      <4>2. attached[x] = 0 /\ x \notin destroyed /\ x \in instances /\ Carriers(x) = {} /\ Owners(x) = {p}
        BY <2>1, <4>1 DEF ItemPlaced, ItemPlace
      <4>3. Carriers(x)' = {p} /\ Owners(x)' = {}
        BY <1>7, <3>2, <4>2 DEF Owners
      <4>4. Takers(x)' \subseteq Holders(x)'
        BY <1>7, <2>1 DEF ItemPlaced
      <4> QED BY <1>2, <4>2, <4>3, <4>4 DEF ItemPlaced, ItemPlace
    <3> QED BY <3>1, <3>2
  <2>3. InstancesScanned' /\ ItemsDeletedFirst' /\ InstancesDeletedFirst'
    BY <1>2, <1>4, <1>5, <2>1 DEF InstancesScanned, ItemsDeletedFirst, InstancesDeletedFirst
  <2> QED BY <2>2, <2>3
<1> QED BY <1>6, <1>9 DEF MailInvariant

\* The packets that only read.
LEMMA KeepsReadingPackets ==
  ASSUME MailInvariant, NEW p \in Players, NEW m \in Ids,
         \/ HandleMailTakeMoney(p, m) \/ HandleDeleteMail(p, m) \/ HandleMailMarksAsRead(p, m)
         \/ \E x \in Items : HandleMailTakeItem(p, m, x)
  PROVE  MailInvariant'
<1>1. MailTypes /\ ItemsPlaced /\ PostOK /\ CallsTyped
  BY DEF MailInvariant, MailTypes
<1>2. m \in Nat /\ m # 0 /\ mails[m] \in MailRows /\ mails[m].cod \in Int
  <2>1. m \in 1..Len(mails) /\ Len(mails) \in Nat /\ mails[m] \in MailRows
    BY <1>1, SequencesOfRows DEF Ids, PostOK
  <2> QED BY <2>1 DEF MailRows
<1>3. calls[p].at = "idle" /\ UNCHANGED <<bag, attached, mails, instances, destroyed, exposed, cleaner>>
  BY DEF HandleMailTakeMoney, HandleMailTakeItem, HandleDeleteMail, HandleMailMarksAsRead, Packet, Free, postOffice, backOffice
<1>4. PICK c \in MailCalls : c.mail = m /\ calls' = [calls EXCEPT ![p] = c]
                             /\ c.at \in {"clearMoney", "payCod", "addItem", "deleteMail", "markRead"}
  <2>1. CASE HandleMailTakeMoney(p, m)
    <3> DEFINE c == [Idle EXCEPT !.at = "clearMoney", !.mail = m, !.row = mails[m]]
    <3>1. c \in MailCalls /\ c.mail = m /\ c.at = "clearMoney" /\ calls' = [calls EXCEPT ![p] = c]
      BY <1>2, <2>1, RowTypes DEF HandleMailTakeMoney, MailCalls, MailSteps
    <3> QED BY <3>1
  <2>2. ASSUME NEW x \in Items, HandleMailTakeItem(p, m, x)
        PROVE  \E d \in MailCalls : d.mail = m /\ calls' = [calls EXCEPT ![p] = d]
                                    /\ d.at \in {"clearMoney", "payCod", "addItem", "deleteMail", "markRead"}
    <3> DEFINE step == IF mails[m].cod > 0 THEN "payCod" ELSE "addItem"
               c == [Idle EXCEPT !.at = step, !.mail = m, !.items = {x}, !.cod = mails[m].cod]
    <3>1. calls' = [calls EXCEPT ![p] = c] /\ step \in {"payCod", "addItem"}
      BY <2>2 DEF HandleMailTakeItem
    <3> HIDE DEF step
    <3>2. c \in MailCalls /\ c.mail = m /\ c.at = step
      BY <1>2, <3>1, RowTypes DEF MailCalls, MailSteps
    <3> QED BY <3>1, <3>2
  <2>3. CASE HandleDeleteMail(p, m)
    <3> DEFINE c == [Idle EXCEPT !.at = "deleteMail", !.mail = m]
    <3>1. c \in MailCalls /\ c.mail = m /\ c.at = "deleteMail" /\ calls' = [calls EXCEPT ![p] = c]
      BY <1>2, <2>3, RowTypes DEF HandleDeleteMail, MailCalls, MailSteps
    <3> QED BY <3>1
  <2>4. CASE HandleMailMarksAsRead(p, m)
    <3> DEFINE c == [Idle EXCEPT !.at = "markRead", !.mail = m, !.row = mails[m]]
    <3>1. c \in MailCalls /\ c.mail = m /\ c.at = "markRead" /\ calls' = [calls EXCEPT ![p] = c]
      BY <1>2, <2>4, RowTypes DEF HandleMailMarksAsRead, MailCalls, MailSteps
    <3> QED BY <3>1
  <2> QED BY <2>1, <2>2, <2>3, <2>4
<1>5. CallsTyped' /\ \A q \in Players : calls'[q] = IF q = p THEN c ELSE calls[q]
  BY <1>1, <1>2, <1>4, CallSet
<1>6. MailTypes'
  BY <1>1, <1>3, <1>5, KeepsMailTypes DEF PostOK
<1>7. ItemsPlaced'
  BY <1>1, <1>3, <1>4, <1>5, KeepsOthersItems
<1> QED BY <1>6, <1>7 DEF MailInvariant

\* The first of the two queries of the mail list.
LEMMA KeepsHandleGetMailList == ASSUME MailInvariant, NEW p \in Players, HandleGetMailList(p) PROVE MailInvariant'
<1> DEFINE mine == {m \in Ids : mails[m].to = p}
           n == Cardinality(mine)
           c == [Idle EXCEPT !.at = "listItems", !.cash = n]
<1>1. MailTypes /\ ItemsPlaced /\ PostOK /\ CallsTyped
  BY DEF MailInvariant, MailTypes
<1>2. /\ calls[p].at = "idle" /\ calls' = [calls EXCEPT ![p] = c]
      /\ UNCHANGED <<bag, attached, mails, instances, destroyed, exposed, cleaner>>
  BY DEF HandleGetMailList, Packet, Free, postOffice, backOffice
<1>3. n \in Int
  <2>1. Len(mails) \in Nat /\ Ids = 1..Len(mails)
    BY <1>1, SequencesOfRows DEF PostOK, Ids
  <2>2. IsFiniteSet(Ids) /\ mine \subseteq Ids
    BY <2>1, FS_Interval
  <2>3. IsFiniteSet(mine)
    BY <2>2, FS_Subset
  <2> QED BY <2>3, FS_CardinalityType
<1> HIDE DEF n
<1>4. c \in MailCalls /\ c.at = "listItems"
  BY <1>3, RowTypes DEF MailCalls, MailSteps
<1> HIDE DEF c
<1>5. CallsTyped' /\ \A q \in Players : calls'[q] = IF q = p THEN c ELSE calls[q]
  BY <1>1, <1>2, <1>4, CallSet DEF TakeSteps
<1>6. MailTypes'
  BY <1>1, <1>2, <1>5, KeepsMailTypes DEF PostOK
<1>7. ItemsPlaced'
  BY <1>1, <1>2, <1>4, <1>5, KeepsOthersItems
<1> QED BY <1>6, <1>7 DEF MailInvariant

-----------------------------------------------------------------------------
(* The steps of a handler                                                   *)

\* The postage is paid; the call still carries the items.
LEMMA KeepsPayPostage == ASSUME MailInvariant, NEW p \in Players, PayPostage(p) PROVE MailInvariant'
<1>1. MailTypes /\ ItemsPlaced /\ PostOK /\ CallsTyped
  BY DEF MailInvariant, MailTypes
<1>2. calls[p].at = "payPostage" /\ Goto(p, "post") /\ UNCHANGED <<bag, attached, mails, instances, destroyed, exposed, cleaner>>
  BY DEF PayPostage, At, postOffice, backOffice
<1>3. CallsTyped' /\ \A q \in Players : calls'[q] = IF q = p THEN Stepped(p, "post") ELSE calls[q]
  BY <1>1, <1>2, CallGoes DEF MailSteps, TakeSteps
<1>4. Stepped(p, "post").at = "post" /\ Stepped(p, "post").items = calls[p].items
  BY <1>1, <1>2, CallGoes DEF MailSteps, TakeSteps
<1>5. MailTypes'
  BY <1>1, <1>2, <1>3, KeepsMailTypes DEF PostOK
<1>6. \A x \in Items : Takers(x)' = Takers(x) /\ Carriers(x)' = Carriers(x)
  BY <1>2, <1>3, <1>4 DEF Takers, Carriers
<1>7. \A q \in Players : calls'[q].at \in {"deleteItem", "deleteInstances"} => calls'[q] = calls[q]
  BY <1>3, <1>4
<1>8. ItemsPlaced'
  BY <1>1, <1>2, <1>6, <1>7, KeepsItems
<1> QED BY <1>5, <1>8 DEF MailInvariant

\* A mail with items takes them from the call that carried them.
LEMMA KeepsSendMail == ASSUME MailInvariant, NEW p \in Players, SendMail(p) PROVE MailInvariant'
<1> DEFINE c == calls[p]
           mail == NewMail(p, c.to, c.cash, c.cod, c.items)
<1>1. MailTypes /\ ItemsPlaced /\ PostOK /\ CallsTyped
  BY DEF MailInvariant, MailTypes
<1>2. /\ c.at = "post" /\ Done(p) /\ UNCHANGED <<bag, destroyed, cleaner>>
      /\ IF Accepts(mail, c.items) THEN AddMail(mail, c.items) /\ UNCHANGED exposed
         ELSE Expose(AtRisk(c)) /\ UNCHANGED <<mails, attached, instances>>
  BY DEF SendMail, At, backOffice
<1>3. c \in MailCalls
  BY <1>1 DEF CallsTyped
<1>4. c.items \subseteq Items /\ mail \in MailRows
  <2>1. PICK to \in Players \cup {NoOne}, cash \in Int, cod \in Int : c.to = to /\ c.cash = cash /\ c.cod = cod
    BY <1>3 DEF MailCalls
  <2>2. NewMail(p, to, cash, cod, c.items) \in MailRows
    BY NewMailTypes
  <2> QED BY <1>3, <2>1, <2>2 DEF MailCalls
<1>5. CallsTyped' /\ \A q \in Players : calls'[q] = IF q = p THEN Idle ELSE calls[q]
  BY <1>1, <1>2, CallEnds
<1> HIDE DEF mail
<1>6. CASE ~Accepts(mail, c.items)
  <2>1. Expose(AtRisk(c)) /\ UNCHANGED <<mails, attached, instances>>
    BY <1>2, <1>6
  <2>2. exposed \subseteq exposed' /\ ("item" \in exposed' \/ c.items = {})
    BY <1>2, <2>1 DEF Expose, AtRisk
  <2>3. MailTypes'
    BY <1>1, <1>2, <1>5, <2>1, KeepsMailTypes DEF PostOK
  <2>4. ItemsPlaced'
    BY <1>1, <1>2, <1>5, <2>1, <2>2, RowTypes, KeepsOthersItems
  <2> QED BY <2>3, <2>4 DEF MailInvariant
<1>7. CASE Accepts(mail, c.items)
  <2>1. AddMail(mail, c.items) /\ UNCHANGED exposed /\ instances' = instances \cup c.items /\ \A x \in c.items : attached[x] = 0
    BY <1>2, <1>7 DEF Accepts, AddMail
  <2>2. mails' \in Seq(MailRows) /\ attached' \in [Items -> Nat]
        /\ \A x \in Items : IF x \in c.items THEN attached'[x] # 0 ELSE attached'[x] = attached[x]
    BY <1>1, <1>4, <2>1, AddTypes DEF PostOK
  <2>3. MailTypes'
    BY <1>1, <1>2, <1>5, <2>2 DEF MailTypes, PostOK, CleanerTyped
  <2>4. \A x \in Items : /\ Takers(x)' = Takers(x) /\ Holders(x)' = Holders(x)
                         /\ Carriers(x)' = IF x \in c.items THEN Carriers(x) \ {p} ELSE Carriers(x)
                         /\ x \in c.items => p \in Carriers(x)
    BY <1>2, <1>5, RowTypes DEF Takers, Holders, Carriers
  <2>5. ItemsPlaced'
    <3> SUFFICES ASSUME "item" \notin exposed'
                 PROVE  (\A x \in Items : ItemPlaced(x))' /\ InstancesScanned' /\ ItemsDeletedFirst' /\ InstancesDeletedFirst'
      BY DEF ItemsPlaced
    <3>1. (\A x \in Items : ItemPlaced(x)) /\ InstancesScanned /\ ItemsDeletedFirst /\ InstancesDeletedFirst
      BY <1>1, <2>1 DEF ItemsPlaced
    <3>2. ASSUME NEW x \in Items PROVE ItemPlaced(x)'
      <4>1. CASE x \notin c.items
        <5>1. Carriers(x)' = Carriers(x) /\ Owners(x)' = Owners(x) /\ attached'[x] = attached[x]
              /\ (x \in instances' <=> x \in instances)
          BY <2>1, <2>2, <2>4, <4>1 DEF Owners
        <5> QED BY <1>2, <2>4, <3>1, <5>1 DEF ItemPlaced, ItemPlace
      <4>2. CASE x \in c.items
        <5>1. x \notin destroyed /\ Owners(x) = {} /\ Carriers(x) = {p} /\ Takers(x) \subseteq Holders(x)
          BY <2>1, <2>4, <3>1, <4>2 DEF ItemPlaced, ItemPlace
        <5>2. Owners(x)' = {} /\ Carriers(x)' = {} /\ attached'[x] # 0
          BY <2>2, <2>4, <4>2, <5>1 DEF Owners
        <5> QED BY <1>2, <2>4, <5>1, <5>2 DEF ItemPlaced, ItemPlace
      <4> QED BY <4>1, <4>2
    <3>3. InstancesScanned'
      <4> SUFFICES ASSUME NEW q \in Players, calls'[q].at = "deleteItem", NEW x \in calls'[q].items, attached'[x] = calls'[q].mail
                   PROVE  x \in instances'
        BY DEF InstancesScanned
      <4>1. calls'[q] = calls[q] /\ calls[q] \in MailCalls
        BY <1>1, <1>5, RowTypes DEF CallsTyped
      <4>2. x \in Items
        BY <4>1 DEF MailCalls
      <4> QED BY <2>1, <2>2, <3>1, <4>1, <4>2 DEF InstancesScanned
    <3>4. ItemsDeletedFirst'
      BY <1>2, <1>5, <3>1, RowTypes DEF ItemsDeletedFirst
    <3>5. InstancesDeletedFirst'
      <4> SUFFICES ASSUME cleaner.at = "deleteMailItems", NEW x \in cleaner.items, x \notin destroyed
                   PROVE  attached'[x] # 0 /\ x \notin instances'
        BY <1>2 DEF InstancesDeletedFirst
      <4>1. x \in Items
        BY <1>1 DEF MailTypes, CleanerTyped, Cleaners
      <4> QED BY <2>1, <2>2, <3>1, <4>1 DEF InstancesDeletedFirst
    <3> QED BY <3>2, <3>3, <3>4, <3>5
  <2> QED BY <2>3, <2>5 DEF MailInvariant
<1> QED BY <1>6, <1>7

-----------------------------------------------------------------------------
(* The steps that move no item                                              *)

QuietSteps == MailSteps \ {"payPostage", "post", "removeItem", "deleteItem", "deleteMailItems", "deleteInstances"}

\* A call that ends or goes on without moving an item.
LEMMA KeepsQuietCall ==
  ASSUME MailInvariant, NEW p \in Players, NEW step \in QuietSteps, Done(p) \/ Goto(p, step),
         step \in TakeSteps => calls[p].at \in TakeSteps,
         UNCHANGED <<bag, attached, instances, destroyed, cleaner>>, mails' \in Seq(MailRows), exposed \subseteq exposed',
         \/ calls[p].at \notin {"payPostage", "post", "removeItem", "deleteItem"}
         \/ "item" \in exposed'
         \/ calls[p].at \in {"payPostage", "post"} /\ calls[p].items = {}
  PROVE  MailInvariant'
<1>1. MailTypes /\ ItemsPlaced /\ PostOK /\ CallsTyped
  BY DEF MailInvariant, MailTypes
<1>2. PICK c : /\ CallsTyped' /\ \A q \in Players : calls'[q] = IF q = p THEN c ELSE calls[q]
               /\ c.at \notin {"payPostage", "post", "removeItem", "deleteItem", "deleteInstances"}
  <2>1. CASE Done(p)
    BY <1>1, <2>1, CallEnds, RowTypes
  <2>2. CASE Goto(p, step)
    BY <1>1, <2>2, CallGoes DEF QuietSteps
  <2> QED BY <2>1, <2>2
<1>3. MailTypes'
  BY <1>1, <1>2, KeepsMailTypes
<1>4. ItemsPlaced'
  BY <1>1, <1>2, KeepsOthersItems
<1> QED BY <1>3, <1>4 DEF MailInvariant

\* The row of a mail the call has read, with another amount.
LEMMA ReadRowTypes ==
  ASSUME MailInvariant, NEW p \in Players
  PROVE  /\ calls[p].row \in MailRows
         /\ \A n \in Int : [calls[p].row EXCEPT !.money = n] \in MailRows /\ [calls[p].row EXCEPT !.cod = n] \in MailRows
<1>1. calls[p].row \in MailRows
  BY DEF MailInvariant, MailTypes, CallsTyped, MailCalls
<1> QED BY <1>1 DEF MailRows

\* RemoveMailMoneyForPlayer writes the row without the money.
LEMMA KeepsRemoveMailMoneyForPlayer ==
  ASSUME MailInvariant, NEW p \in Players, RemoveMailMoneyForPlayer(p) PROVE MailInvariant'
<1> DEFINE row == [calls[p].row EXCEPT !.money = 0]
<1>1. row \in MailRows
  <2>1. 0 \in Int
    OBVIOUS
  <2> QED BY <2>1, ReadRowTypes, Zenon
<1>2. /\ calls[p].at = "clearMoney" /\ UpdateMailByID(calls[p].mail, row) /\ exposed \subseteq exposed'
      /\ Done(p) \/ Goto(p, "credit")
      /\ UNCHANGED <<bag, attached, instances, destroyed, cleaner>>
  BY DEF RemoveMailMoneyForPlayer, At, Expose, backOffice
<1>3. mails' \in Seq(MailRows)
  BY <1>1, <1>2, UpdateTypes DEF MailInvariant, MailTypes, PostOK
<1>4. "credit" \in QuietSteps /\ "credit" \notin TakeSteps
  BY DEF QuietSteps, MailSteps, TakeSteps
<1> QED BY <1>2, <1>3, <1>4, KeepsQuietCall

\* The calls to the worldserver that credit or charge a purse.
LEMMA KeepsPurseSteps ==
  ASSUME MailInvariant, NEW p \in Players, TakeMoney(p) \/ PayCashOnDelivery(p) \/ NoSpace(p) \/ MailListForPlayer(p)
  PROVE  MailInvariant'
<1>1. /\ calls[p].at \in {"credit", "payCod", "addItem", "listItems"} /\ exposed \subseteq exposed'
      /\ Done(p) \/ (calls[p].at = "payCod" /\ Goto(p, "addItem"))
      /\ UNCHANGED <<bag, attached, mails, instances, destroyed, cleaner>>
  BY DEF TakeMoney, PayCashOnDelivery, NoSpace, MailListForPlayer, At, Expose, postOffice, backOffice
<1>2. mails' \in Seq(MailRows)
  BY <1>1 DEF MailInvariant, MailTypes, PostOK
<1>3. {"addItem", "idle"} \subseteq QuietSteps /\ "idle" \notin TakeSteps /\ "payCod" \in TakeSteps
  BY DEF QuietSteps, MailSteps, TakeSteps
<1>4. CASE Done(p)
  BY <1>1, <1>2, <1>3, <1>4, KeepsQuietCall
<1>5. CASE calls[p].at = "payCod" /\ Goto(p, "addItem")
  BY <1>1, <1>2, <1>3, <1>5, KeepsQuietCall
<1> QED BY <1>1, <1>4, <1>5

\* The mail with the cash on delivery has no items.
LEMMA KeepsSendCashOnDelivery == ASSUME MailInvariant, NEW p \in Players, SendCashOnDelivery(p) PROVE MailInvariant'
<1>1. MailTypes /\ PostOK /\ CallsTyped
  BY DEF MailInvariant, MailTypes
<1>2. PICK to \in Players \cup {NoOne}, from \in Players \cup {NoOne}, cod \in Int :
        calls[p].row.to = to /\ calls[p].row.from = from /\ calls[p].row.cod = cod
  BY ReadRowTypes DEF MailRows
<1> DEFINE mail == NewMail(to, from, cod, 0, {})
<1>3. mail \in MailRows
  BY NewMailTypes
<1>4. calls[p].at = "sendCod" /\ AddMail(mail, {}) /\ Goto(p, "update") /\ UNCHANGED <<bag, destroyed, exposed, cleaner>>
  BY <1>2 DEF SendCashOnDelivery, At, Goto, backOffice
<1> HIDE DEF mail
<1>5. mails' \in Seq(MailRows) /\ attached' \in [Items -> Nat] /\ \A x \in Items : attached'[x] = attached[x]
  BY <1>1, <1>3, <1>4, AddTypes DEF PostOK
<1>6. attached' = attached /\ instances' = instances
  BY <1>1, <1>4, <1>5 DEF PostOK, AddMail
<1>7. "update" \in QuietSteps /\ "update" \notin TakeSteps
  BY DEF QuietSteps, MailSteps, TakeSteps
<1> QED BY <1>4, <1>5, <1>6, <1>7, KeepsQuietCall

\* The row is written without the cash on delivery.
LEMMA KeepsUpdateMailWithoutAttachments ==
  ASSUME MailInvariant, NEW p \in Players, UpdateMailWithoutAttachments(p) PROVE MailInvariant'
<1> DEFINE row == IF calls[p].cod > 0 THEN [calls[p].row EXCEPT !.cod = 0] ELSE calls[p].row
<1>1. row \in MailRows
  <2>1. 0 \in Int
    OBVIOUS
  <2> QED BY <2>1, ReadRowTypes, Zenon
<1>2. /\ calls[p].at = "update" /\ UpdateMailByID(calls[p].mail, row) /\ exposed \subseteq exposed' /\ Done(p)
      /\ UNCHANGED <<bag, attached, instances, destroyed, cleaner>>
  BY DEF UpdateMailWithoutAttachments, At, Expose, backOffice
<1> HIDE DEF row
<1>3. mails' \in Seq(MailRows)
  BY <1>1, <1>2, UpdateTypes DEF MailInvariant, MailTypes, PostOK
<1>4. "idle" \in QuietSteps /\ "idle" \notin TakeSteps
  BY DEF QuietSteps, MailSteps, TakeSteps
<1> QED BY <1>2, <1>3, <1>4, KeepsQuietCall

\* The row of the mail goes last.
LEMMA KeepsDeleteMail == ASSUME MailInvariant, NEW p \in Players, DeleteMail(p) PROVE MailInvariant'
<1>1. calls[p].at = "deleteRow" /\ DeleteMailsWithoutAttachments({calls[p].mail}) /\ Done(p)
      /\ UNCHANGED <<bag, attached, instances, destroyed, exposed, cleaner>>
  BY DEF DeleteMail, At, backOffice
<1>2. mails' \in Seq(MailRows)
  BY <1>1, DeleteTypes DEF MailInvariant, MailTypes, PostOK
<1>3. "idle" \in QuietSteps /\ "idle" \notin TakeSteps
  BY DEF QuietSteps, MailSteps, TakeSteps
<1> QED BY <1>1, <1>2, <1>3, KeepsQuietCall

\* The flags of a row are written.
LEMMA KeepsMarkMailAsReadForPlayer ==
  ASSUME MailInvariant, NEW p \in Players, MarkMailAsReadForPlayer(p) PROVE MailInvariant'
<1>1. /\ calls[p].at = "markRead" /\ Done(p) /\ UNCHANGED <<bag, attached, instances, destroyed, exposed, cleaner>>
      /\ mails' = IF Exists(calls[p].mail) /\ mails[calls[p].mail].to = p
                  THEN [mails EXCEPT ![calls[p].mail].read = TRUE, ![calls[p].mail].returned = calls[p].row.returned] ELSE mails
  BY DEF MarkMailAsReadForPlayer, At, backOffice
<1>2. mails \in Seq(MailRows) /\ calls[p].row.returned \in BOOLEAN
  BY ReadRowTypes DEF MailInvariant, MailTypes, PostOK, MailRows
<1>3. mails' \in Seq(MailRows)
  <2>1. CASE UNCHANGED mails
    BY <1>2, <2>1
  <2>2. CASE Exists(calls[p].mail) /\ mails' # mails
    <3> DEFINE m == calls[p].mail
               mark == calls[p].row.returned
               new == [mails[m] EXCEPT !.read = TRUE, !.returned = mark]
    <3>1. m \in DOMAIN mails /\ mails[m] \in MailRows
      BY <1>2, <2>2 DEF Exists, Ids
    <3>2. new \in MailRows
      <4>1. mark \in BOOLEAN
        BY <1>2
      <4> HIDE DEF mark
      <4> QED BY <3>1, <4>1 DEF MailRows
    <3>3. mails' = [mails EXCEPT ![m] = new]
      BY <1>1, <1>2, <2>2, <3>1, SequencesOfRows
    <3> HIDE DEF new
    <3>4. mails' \in [1..Len(mails) -> MailRows]
      BY <1>2, <3>1, <3>2, <3>3, SequencesOfRows
    <3> QED BY <1>2, <3>4, SequencesOfRows
  <2> QED BY <1>1, <2>1, <2>2
<1>4. "idle" \in QuietSteps /\ "idle" \notin TakeSteps
  BY DEF QuietSteps, MailSteps, TakeSteps
<1> QED BY <1>1, <1>3, <1>4, KeepsQuietCall

\* A call that fails has exposed what it carried or took.
LEMMA KeepsHandlerFails == ASSUME MailInvariant, NEW p \in Players, HandlerFails(p) PROVE MailInvariant'
<1>1. Expose(AtRisk(calls[p])) /\ Done(p) /\ UNCHANGED <<bag, attached, mails, instances, destroyed, cleaner>>
  BY DEF HandlerFails, postOffice, backOffice
<1>2. /\ exposed \subseteq exposed'
      /\ \/ calls[p].at \notin {"payPostage", "post", "removeItem", "deleteItem"} \/ "item" \in exposed'
         \/ calls[p].at \in {"payPostage", "post"} /\ calls[p].items = {}
  BY <1>1 DEF Expose, AtRisk
<1>3. mails' \in Seq(MailRows)
  BY <1>1 DEF MailInvariant, MailTypes, PostOK
<1>4. "idle" \in QuietSteps /\ "idle" \notin TakeSteps
  BY DEF QuietSteps, MailSteps, TakeSteps
<1> QED BY <1>1, <1>2, <1>3, <1>4, KeepsQuietCall

-----------------------------------------------------------------------------
(* The steps that move an item                                              *)

\* The item is in the bag and still in the mail: its receiver is no owner yet.
LEMMA KeepsAddExistingItemToPlayer ==
  ASSUME MailInvariant, NEW p \in Players, AddExistingItemToPlayer(p) PROVE MailInvariant'
<1> DEFINE c == calls[p]
<1>1. MailTypes /\ ItemsPlaced /\ PostOK /\ CallsTyped
  BY DEF MailInvariant, MailTypes
<1>2. /\ c.at = "addItem" /\ bag' = [bag EXCEPT ![p] = @ \cup c.items] /\ Goto(p, "removeItem")
      /\ exposed \subseteq exposed' /\ ("item" \in exposed' \/ c.items \subseteq Attachments(c.mail))
      /\ UNCHANGED <<attached, mails, instances, destroyed, cleaner>>
  BY DEF AddExistingItemToPlayer, At, Expose, postOffice, backOffice
<1>3. c.items \subseteq Items /\ c.mail # 0
  BY <1>1, <1>2 DEF CallsTyped, MailCalls, TakeSteps
<1>4. CallsTyped' /\ \A q \in Players : calls'[q] = IF q = p THEN Stepped(p, "removeItem") ELSE calls[q]
  BY <1>1, <1>2, CallGoes DEF MailSteps, TakeSteps
<1>5. Stepped(p, "removeItem").at = "removeItem" /\ Stepped(p, "removeItem").items = c.items
  BY <1>1, <1>2, CallGoes DEF MailSteps, TakeSteps
<1>6. MailTypes'
  BY <1>1, <1>2, <1>3, <1>4 DEF MailTypes, PostOK, CleanerTyped
<1>7. \A x \in Items : /\ Carriers(x)' = Carriers(x)
                       /\ Takers(x)' = IF x \in c.items THEN Takers(x) \cup {p} ELSE Takers(x)
                       /\ Holders(x)' = IF x \in c.items THEN Holders(x) \cup {p} ELSE Holders(x)
  BY <1>1, <1>2, <1>4, <1>5 DEF Takers, Carriers, Holders, PostOK
<1>8. ItemsPlaced'
  <2> SUFFICES ASSUME "item" \notin exposed'
               PROVE  (\A x \in Items : ItemPlaced(x))' /\ InstancesScanned' /\ ItemsDeletedFirst' /\ InstancesDeletedFirst'
    BY DEF ItemsPlaced
  <2>1. (\A x \in Items : ItemPlaced(x)) /\ InstancesScanned /\ ItemsDeletedFirst /\ InstancesDeletedFirst
    BY <1>1, <1>2 DEF ItemsPlaced
  <2>2. ASSUME NEW x \in Items PROVE ItemPlaced(x)'
    <3>1. CASE x \notin c.items
      BY <1>2, <1>7, <2>1, <3>1 DEF ItemPlaced, ItemPlace, Owners
    <3>2. CASE x \in c.items
      <4>1. attached[x] # 0
        BY <1>2, <1>3, <3>2 DEF Attachments
      <4>2. Owners(x) = {} /\ Carriers(x) = {} /\ x \notin destroyed /\ Takers(x) \subseteq Holders(x)
        BY <2>1, <4>1 DEF ItemPlaced, ItemPlace
      <4>3. Owners(x)' = {} /\ Carriers(x)' = {} /\ Takers(x)' \subseteq Holders(x)'
        BY <1>7, <3>2, <4>2 DEF Owners
      <4> QED BY <1>2, <4>1, <4>2, <4>3 DEF ItemPlaced, ItemPlace
    <3> QED BY <3>1, <3>2
  <2>3. InstancesScanned' /\ ItemsDeletedFirst' /\ InstancesDeletedFirst'
    BY <1>2, <1>4, <1>5, <2>1 DEF InstancesScanned, ItemsDeletedFirst, InstancesDeletedFirst
  <2> QED BY <2>2, <2>3
<1> QED BY <1>6, <1>8 DEF MailInvariant

\* The mail service reads the mail: its items have rows.
LEMMA KeepsRemoveMailItem == ASSUME MailInvariant, NEW p \in Players, RemoveMailItem(p) PROVE MailInvariant'
<1> DEFINE c == calls[p]
<1>1. MailTypes /\ ItemsPlaced /\ PostOK /\ CallsTyped
  BY DEF MailInvariant, MailTypes
<1>2. c.at = "removeItem" /\ c \in MailCalls /\ c.mail # 0 /\ UNCHANGED <<bag, attached, mails, instances, destroyed, cleaner>>
  BY <1>1 DEF RemoveMailItem, At, postOffice, backOffice, CallsTyped, TakeSteps
<1>3. CASE Done(p) /\ Expose({"item", "money"})
  <2>1. exposed \subseteq exposed' /\ "item" \in exposed' /\ mails' \in Seq(MailRows)
    BY <1>1, <1>2, <1>3 DEF Expose, PostOK
  <2>2. "idle" \in QuietSteps /\ "idle" \notin TakeSteps
    BY DEF QuietSteps, MailSteps, TakeSteps
  <2> QED BY <1>2, <1>3, <2>1, <2>2, KeepsQuietCall
<1>4. CASE MailByID(c.mail) /\ calls' = [calls EXCEPT ![p].at = "deleteItem", ![p].row = mails[c.mail]] /\ UNCHANGED exposed
  <2> DEFINE row == mails[c.mail]
             d == [c EXCEPT !.at = "deleteItem", !.row = row]
  <2>1. row \in MailRows
    BY <1>1, <1>4 DEF MailByID, Exists, Ids, PostOK
  <2>2. calls' = [calls EXCEPT ![p] = d]
    BY <1>1, <1>4 DEF CallsTyped
  <2> HIDE DEF row
  <2>3. d \in MailCalls /\ d.at = "deleteItem" /\ d.items = c.items /\ d.mail = c.mail
    BY <1>2, <2>1 DEF MailCalls, MailSteps
  <2> HIDE DEF d
  <2>4. CallsTyped' /\ \A q \in Players : calls'[q] = IF q = p THEN d ELSE calls[q]
    BY <1>1, <1>2, <2>2, <2>3, CallSet
  <2>5. MailTypes'
    BY <1>1, <1>2, <2>4, KeepsMailTypes DEF PostOK
  <2>6. \A x \in Items : Takers(x)' = Takers(x) /\ Carriers(x)' = Carriers(x) /\ Holders(x)' = Holders(x)
    BY <1>2, <2>3, <2>4 DEF Takers, Carriers, Holders
  <2>7. ItemsPlaced'
    <3> SUFFICES ASSUME "item" \notin exposed'
                 PROVE  (\A x \in Items : ItemPlaced(x))' /\ InstancesScanned' /\ ItemsDeletedFirst' /\ InstancesDeletedFirst'
      BY DEF ItemsPlaced
    <3>1. (\A x \in Items : ItemPlaced(x)) /\ InstancesScanned /\ ItemsDeletedFirst /\ InstancesDeletedFirst
      BY <1>1, <1>4 DEF ItemsPlaced
    <3>2. ASSUME NEW x \in Items PROVE ItemPlaced(x)'
      BY <1>2, <2>6, <3>1 DEF ItemPlaced, ItemPlace, Owners
    <3>3. c.items \subseteq Items
      BY <1>2 DEF MailCalls
    <3>4. \A x \in c.items : attached[x] = c.mail => x \in instances
      BY <1>4, <3>3 DEF MailByID, Attachments
    <3>5. InstancesScanned'
      BY <1>2, <2>3, <2>4, <3>1, <3>4 DEF InstancesScanned
    <3>6. ItemsDeletedFirst' /\ InstancesDeletedFirst'
      BY <1>2, <2>3, <2>4, <3>1 DEF ItemsDeletedFirst, InstancesDeletedFirst
    <3> QED BY <3>2, <3>5, <3>6
  <2> QED BY <2>5, <2>7 DEF MailInvariant
<1> QED BY <1>3, <1>4 DEF RemoveMailItem

\* The item leaves the mail: who took it owns it.
LEMMA KeepsDeleteMailItem == ASSUME MailInvariant, NEW p \in Players, DeleteMailItem(p) PROVE MailInvariant'
<1> DEFINE c == calls[p]
<1>1. MailTypes /\ ItemsPlaced /\ PostOK /\ CallsTyped
  BY DEF MailInvariant, MailTypes
<1>2. /\ c.at = "deleteItem" /\ c \in MailCalls /\ c.items \subseteq Items /\ c.mail # 0
      /\ UNCHANGED <<bag, mails, instances, destroyed, cleaner>>
  BY <1>1 DEF DeleteMailItem, At, backOffice, CallsTyped, TakeSteps, MailCalls
<1>3. \A step \in {"idle", "sendCod", "update"} : step \in QuietSteps /\ step \notin TakeSteps
  BY DEF QuietSteps, MailSteps, TakeSteps
<1>4. CASE Done(p) /\ Expose({"item", "money"}) /\ UNCHANGED attached
  <2>1. exposed \subseteq exposed' /\ "item" \in exposed' /\ mails' \in Seq(MailRows)
    BY <1>1, <1>2, <1>4 DEF Expose, PostOK
  <2> QED BY <1>2, <1>3, <1>4, <2>1, KeepsQuietCall
<1>5. CASE /\ c.items \subseteq Attachments(c.mail) /\ attached' = [x \in Items |-> IF x \in c.items THEN 0 ELSE attached[x]]
           /\ Goto(p, "sendCod") \/ Goto(p, "update") \/ Done(p)
           /\ UNCHANGED exposed
  <2>1. PICK d : /\ CallsTyped' /\ \A q \in Players : calls'[q] = IF q = p THEN d ELSE calls[q]
                 /\ d.at \in {"idle", "sendCod", "update"}
    <3>1. CASE Done(p)
      BY <1>1, <3>1, CallEnds, RowTypes
    <3>2. CASE Goto(p, "sendCod")
      BY <1>1, <3>2, CallGoes DEF TakeSteps, MailSteps
    <3>3. CASE Goto(p, "update")
      BY <1>1, <3>3, CallGoes DEF TakeSteps, MailSteps
    <3> QED BY <1>5, <3>1, <3>2, <3>3
  <2>2. MailTypes'
    BY <1>1, <1>2, <1>5, <2>1 DEF MailTypes, PostOK, CleanerTyped
  <2>3. \A x \in Items : /\ Carriers(x)' = Carriers(x) /\ Holders(x)' = Holders(x)
                         /\ Takers(x)' = IF x \in c.items THEN Takers(x) \ {p} ELSE Takers(x)
                         /\ x \in c.items => p \in Takers(x)
    BY <1>2, <2>1 DEF Takers, Carriers, Holders
  <2>4. \A x \in Items : attached'[x] = IF x \in c.items THEN 0 ELSE attached[x]
    BY <1>5
  <2>5. ItemsPlaced'
    <3> SUFFICES ASSUME "item" \notin exposed'
                 PROVE  (\A x \in Items : ItemPlaced(x))' /\ InstancesScanned' /\ ItemsDeletedFirst' /\ InstancesDeletedFirst'
      BY DEF ItemsPlaced
    <3>1. (\A x \in Items : ItemPlaced(x)) /\ InstancesScanned /\ ItemsDeletedFirst /\ InstancesDeletedFirst
      BY <1>1, <1>5 DEF ItemsPlaced
    <3>2. \A x \in c.items : attached[x] = c.mail /\ x \in instances
      BY <1>2, <1>5, <3>1 DEF Attachments, InstancesScanned
    <3>3. ASSUME NEW x \in Items PROVE ItemPlaced(x)'
      <4>1. CASE x \notin c.items
        BY <1>2, <2>3, <2>4, <3>1, <4>1 DEF ItemPlaced, ItemPlace, Owners
      <4>2. CASE x \in c.items
        <5>1. Owners(x) = {} /\ Carriers(x) = {} /\ x \notin destroyed /\ Takers(x) \subseteq Holders(x)
          BY <1>2, <3>1, <3>2, <4>2 DEF ItemPlaced, ItemPlace
        <5>2. Owners(x)' = {p} /\ Carriers(x)' = {} /\ Takers(x)' \subseteq Holders(x)' /\ attached'[x] = 0
          BY <2>3, <2>4, <4>2, <5>1 DEF Owners
        <5> QED BY <1>2, <3>2, <4>2, <5>1, <5>2 DEF ItemPlaced, ItemPlace
      <4> QED BY <4>1, <4>2
    <3>4. InstancesScanned'
      <4> SUFFICES ASSUME NEW q \in Players, calls'[q].at = "deleteItem", NEW x \in calls'[q].items, attached'[x] = calls'[q].mail
                   PROVE  x \in instances
        BY <1>2 DEF InstancesScanned
      <4>1. calls'[q] = calls[q] /\ calls[q] \in MailCalls /\ calls[q].mail # 0
        BY <1>1, <2>1 DEF CallsTyped, TakeSteps
      <4>2. x \in Items
        BY <4>1 DEF MailCalls
      <4> QED BY <2>4, <3>1, <4>1, <4>2 DEF InstancesScanned
    <3>5. ItemsDeletedFirst'
      BY <1>2, <2>1, <3>1 DEF ItemsDeletedFirst
    <3>6. InstancesDeletedFirst'
      <4> SUFFICES ASSUME cleaner.at = "deleteMailItems", NEW x \in cleaner.items, x \notin destroyed
                   PROVE  attached'[x] # 0 /\ x \notin instances
        BY <1>2 DEF InstancesDeletedFirst
      <4>1. x \in Items
        BY <1>1 DEF MailTypes, CleanerTyped, Cleaners
      <4> QED BY <2>4, <3>1, <3>2, <4>1 DEF InstancesDeletedFirst
    <3> QED BY <3>3, <3>4, <3>5, <3>6
  <2> QED BY <2>2, <2>5 DEF MailInvariant
<1> QED BY <1>4, <1>5 DEF DeleteMailItem

-----------------------------------------------------------------------------
(* The deletion of a mail by its receiver                                   *)

\* DeleteMail reads which items it will delete.
LEMMA KeepsReadMailToDelete == ASSUME MailInvariant, NEW p \in Players, ReadMailToDelete(p) PROVE MailInvariant'
<1> DEFINE c == calls[p]
           items == Attachments(c.mail)
           step == IF items = {} THEN "deleteRow" ELSE "deleteMailItems"
           d == [c EXCEPT !.at = step, !.items = items]
<1>1. MailTypes /\ ItemsPlaced /\ PostOK /\ CallsTyped
  BY DEF MailInvariant, MailTypes
<1>2. c.at = "deleteMail" /\ c \in MailCalls /\ UNCHANGED <<bag, attached, mails, instances, destroyed, exposed, cleaner>>
  BY <1>1 DEF ReadMailToDelete, At, postOffice, backOffice, CallsTyped
<1>3. CASE Done(p)
  <2>1. mails' \in Seq(MailRows)
    BY <1>1, <1>2 DEF PostOK
  <2>2. "idle" \in QuietSteps /\ "idle" \notin TakeSteps
    BY DEF QuietSteps, MailSteps, TakeSteps
  <2> QED BY <1>2, <1>3, <2>1, <2>2, KeepsQuietCall
<1>4. CASE MailByID(c.mail) /\ calls' = [calls EXCEPT ![p].at = step, ![p].items = items]
  <2>1. c.mail # 0
    BY <1>1, <1>4, SequencesOfRows DEF MailByID, Exists, Ids, PostOK
  <2>2. items \subseteq Items /\ step \in {"deleteRow", "deleteMailItems"}
    BY DEF Attachments
  <2>3. calls' = [calls EXCEPT ![p] = d]
    BY <1>1, <1>4 DEF CallsTyped
  <2> HIDE DEF items, step
  <2>4. d \in MailCalls /\ d.at = step /\ d.mail = c.mail
    BY <1>2, <2>2 DEF MailCalls, MailSteps
  <2> HIDE DEF d
  <2>5. CallsTyped' /\ \A q \in Players : calls'[q] = IF q = p THEN d ELSE calls[q]
    BY <1>1, <2>1, <2>3, <2>4, CallSet
  <2>6. MailTypes'
    BY <1>1, <1>2, <2>5, KeepsMailTypes DEF PostOK
  <2>7. ItemsPlaced'
    BY <1>1, <1>2, <2>2, <2>4, <2>5, KeepsOthersItems
  <2> QED BY <2>6, <2>7 DEF MailInvariant
<1> QED BY <1>3, <1>4 DEF ReadMailToDelete

\* Items that leave their mails and the game.
LEMMA ItemsLeave ==
  ASSUME CallsTyped, \A x \in Items : ItemPlaced(x), NEW items, DeleteMailItemsWithIDs(items),
         \A x \in items : x \in destroyed \/ attached[x] # 0, UNCHANGED <<bag, instances>>,
         \A x \in Items : Takers(x)' = Takers(x) /\ Carriers(x)' = Carriers(x)
  PROVE  /\ \A x \in Items : ItemPlaced(x)'
         /\ \A x \in Items : attached'[x] = IF x \in items THEN 0 ELSE attached[x]
         /\ destroyed' = destroyed \cup items
<1>1. \A x \in Items : attached'[x] = IF x \in items THEN 0 ELSE attached[x]
  BY DEF DeleteMailItemsWithIDs
<1>2. destroyed' = destroyed \cup items
  BY DEF DeleteMailItemsWithIDs
<1>3. \A x \in Items : Holders(x)' = Holders(x) /\ Owners(x)' = Owners(x)
  BY DEF Holders, Owners
<1>4. ASSUME NEW x \in Items PROVE ItemPlaced(x)'
  <2>1. CASE x \notin items
    BY <1>1, <1>2, <1>3, <2>1 DEF ItemPlaced, ItemPlace
  <2>2. CASE x \in items
    <3>1. Owners(x) = {} /\ Carriers(x) = {} /\ Takers(x) \subseteq Holders(x)
      BY <2>2 DEF ItemPlaced, ItemPlace
    <3> QED BY <1>1, <1>2, <1>3, <2>2, <3>1 DEF ItemPlaced, ItemPlace
  <2> QED BY <2>1, <2>2
<1> QED BY <1>1, <1>2, <1>4

\* The items it read leave the mail: they are still there, or exposed.
LEMMA KeepsDeleteMailItems == ASSUME MailInvariant, NEW p \in Players, DeleteMailItems(p) PROVE MailInvariant'
<1> DEFINE c == calls[p]
<1>1. MailTypes /\ ItemsPlaced /\ PostOK /\ CallsTyped
  BY DEF MailInvariant, MailTypes
<1>2. /\ c.at = "deleteMailItems" /\ DeleteMailItemsWithIDs(c.items) /\ Goto(p, "deleteInstances")
      /\ exposed \subseteq exposed' /\ ("item" \in exposed' \/ c.items \subseteq Attachments(c.mail))
      /\ UNCHANGED <<bag, mails, instances, cleaner>>
  BY DEF DeleteMailItems, At, Expose
<1>3. c.items \subseteq Items /\ c.mail # 0
  BY <1>1, <1>2 DEF CallsTyped, MailCalls, TakeSteps
<1>4. CallsTyped' /\ \A q \in Players : calls'[q] = IF q = p THEN Stepped(p, "deleteInstances") ELSE calls[q]
  BY <1>1, <1>2, CallGoes DEF MailSteps, TakeSteps
<1>5. Stepped(p, "deleteInstances").at = "deleteInstances" /\ Stepped(p, "deleteInstances").items = c.items
  BY <1>1, <1>2, CallGoes DEF MailSteps, TakeSteps
<1>6. attached' \in [Items -> Nat]
  BY <1>1, <1>2 DEF DeleteMailItemsWithIDs, PostOK
<1>7. MailTypes'
  BY <1>1, <1>2, <1>4, <1>6 DEF MailTypes, PostOK, CleanerTyped
<1>8. \A x \in Items : Takers(x)' = Takers(x) /\ Carriers(x)' = Carriers(x)
  BY <1>2, <1>4, <1>5 DEF Takers, Carriers
<1>9. ItemsPlaced'
  <2> SUFFICES ASSUME "item" \notin exposed'
               PROVE  (\A x \in Items : ItemPlaced(x))' /\ InstancesScanned' /\ ItemsDeletedFirst' /\ InstancesDeletedFirst'
    BY DEF ItemsPlaced
  <2>1. (\A x \in Items : ItemPlaced(x)) /\ InstancesScanned /\ ItemsDeletedFirst /\ InstancesDeletedFirst
    BY <1>1, <1>2 DEF ItemsPlaced
  <2>2. \A x \in c.items : attached[x] # 0
    BY <1>2, <1>3 DEF Attachments
  <2>3. /\ \A x \in Items : ItemPlaced(x)'
        /\ \A x \in Items : attached'[x] = IF x \in c.items THEN 0 ELSE attached[x]
        /\ destroyed' = destroyed \cup c.items
    BY <1>1, <1>2, <1>8, <2>1, <2>2, ItemsLeave
  <2>4. InstancesScanned'
    <3> SUFFICES ASSUME NEW q \in Players, calls'[q].at = "deleteItem", NEW x \in calls'[q].items, attached'[x] = calls'[q].mail
                 PROVE  x \in instances
      BY <1>2 DEF InstancesScanned
    <3>1. calls'[q] = calls[q] /\ calls[q] \in MailCalls /\ calls[q].mail # 0
      BY <1>1, <1>4, <1>5 DEF CallsTyped, TakeSteps
    <3>2. x \in Items
      BY <3>1 DEF MailCalls
    <3> QED BY <2>1, <2>3, <3>1, <3>2 DEF InstancesScanned
  <2>5. ItemsDeletedFirst'
    BY <1>4, <1>5, <2>1, <2>3 DEF ItemsDeletedFirst
  <2>6. InstancesDeletedFirst'
    <3> SUFFICES ASSUME cleaner.at = "deleteMailItems", NEW x \in cleaner.items, x \notin destroyed'
                 PROVE  attached'[x] # 0 /\ x \notin instances
      BY <1>2 DEF InstancesDeletedFirst
    <3>1. x \in Items
      BY <1>1 DEF MailTypes, CleanerTyped, Cleaners
    <3> QED BY <2>1, <2>3, <3>1 DEF InstancesDeletedFirst
  <2> QED BY <2>3, <2>4, <2>5, <2>6
<1> QED BY <1>7, <1>9 DEF MailInvariant

\* Rows of items that no mail has any more.
LEMMA KeepsDeleteInstances == ASSUME MailInvariant, NEW p \in Players, DeleteInstances(p) PROVE MailInvariant'
<1> DEFINE c == calls[p]
<1>1. MailTypes /\ ItemsPlaced /\ PostOK /\ CallsTyped
  BY DEF MailInvariant, MailTypes
<1>2. /\ c.at = "deleteInstances" /\ instances' = instances \ c.items /\ Goto(p, "deleteRow")
      /\ UNCHANGED <<bag, attached, mails, destroyed, exposed, cleaner>>
  BY DEF DeleteInstances, At, backOffice
<1>3. CallsTyped' /\ \A q \in Players : calls'[q] = IF q = p THEN Stepped(p, "deleteRow") ELSE calls[q]
  BY <1>1, <1>2, CallGoes DEF MailSteps, TakeSteps
<1>4. Stepped(p, "deleteRow").at = "deleteRow"
  BY <1>1, <1>2, CallGoes DEF MailSteps, TakeSteps
<1>5. MailTypes'
  BY <1>1, <1>2, <1>3, KeepsMailTypes DEF PostOK
<1>6. \A x \in Items : Takers(x)' = Takers(x) /\ Carriers(x)' = Carriers(x) /\ Holders(x)' = Holders(x)
  BY <1>2, <1>3, <1>4 DEF Takers, Carriers, Holders
<1>7. ItemsPlaced'
  <2> SUFFICES ASSUME "item" \notin exposed'
               PROVE  (\A x \in Items : ItemPlaced(x))' /\ InstancesScanned' /\ ItemsDeletedFirst' /\ InstancesDeletedFirst'
    BY DEF ItemsPlaced
  <2>1. (\A x \in Items : ItemPlaced(x)) /\ InstancesScanned /\ ItemsDeletedFirst /\ InstancesDeletedFirst
    BY <1>1, <1>2 DEF ItemsPlaced
  <2>2. c.items \subseteq destroyed
    BY <1>2, <2>1 DEF ItemsDeletedFirst
  <2>3. ASSUME NEW x \in Items PROVE ItemPlaced(x)'
    BY <1>2, <1>6, <2>1, <2>2 DEF ItemPlaced, ItemPlace, Owners
  <2>4. InstancesScanned'
    <3> SUFFICES ASSUME NEW q \in Players, calls'[q].at = "deleteItem", NEW x \in calls'[q].items, attached[x] = calls'[q].mail
                 PROVE  x \in instances'
      BY <1>2 DEF InstancesScanned
    <3>1. calls'[q] = calls[q] /\ calls[q] \in MailCalls /\ calls[q].mail # 0
      BY <1>1, <1>3, <1>4 DEF CallsTyped, TakeSteps
    <3>2. x \in Items
      BY <3>1 DEF MailCalls
    <3>3. x \notin destroyed
      BY <2>1, <3>1, <3>2 DEF ItemPlaced
    <3> QED BY <1>2, <2>1, <2>2, <3>1, <3>3 DEF InstancesScanned
  <2>5. ItemsDeletedFirst' /\ InstancesDeletedFirst'
    BY <1>2, <1>3, <1>4, <2>1 DEF ItemsDeletedFirst, InstancesDeletedFirst
  <2> QED BY <2>3, <2>4, <2>5
<1> QED BY <1>5, <1>7 DEF MailInvariant

-----------------------------------------------------------------------------
(* Crashes of the mail service                                              *)

\* The calls it served end; what they carried or took is exposed.
LEMMA KeepsAbort == ASSUME MailInvariant, Abort PROVE MailInvariant'
<1>1. MailTypes /\ ItemsPlaced /\ PostOK /\ CallsTyped
  BY DEF MailInvariant, MailTypes
<1>2. /\ calls' = [p \in Players |-> IF calls[p].at \in InMailService THEN Idle ELSE calls[p]]
      /\ cleaner' = Resting /\ UNCHANGED <<bag, mails, attached, instances, destroyed>>
  BY DEF Abort
<1>3. exposed' = exposed \cup UNION {IF calls[p].at \in InMailService THEN AtRisk(calls[p]) ELSE {} : p \in Players}
  BY DEF Abort, Expose
<1>4. \A p \in Players : calls'[p] = IF calls[p].at \in InMailService THEN Idle ELSE calls[p]
  BY <1>2
<1>5. CallsTyped'
  BY <1>1, <1>2, <1>4, RowTypes DEF CallsTyped, TakeSteps
<1>6. MailTypes'
  <2>1. CleanerTyped'
    BY <1>2, RowTypes DEF CleanerTyped
  <2> QED BY <1>1, <1>2, <1>5, <2>1 DEF MailTypes, PostOK
<1>7. ASSUME "item" \notin exposed', NEW x \in Items PROVE Takers(x)' = Takers(x) /\ Carriers(x)' = Carriers(x)
  <2>1. \A p \in Players : calls[p].at \in InMailService => "item" \notin AtRisk(calls[p])
    BY <1>3, <1>7
  <2>2. \A p \in Players : calls[p].at \in InMailService =>
          calls[p].at \notin {"removeItem", "deleteItem"} /\ (calls[p].at \in {"payPostage", "post"} => calls[p].items = {})
    BY <2>1 DEF AtRisk
  <2>3. Takers(x)' = Takers(x)
    BY <1>4, <2>2, RowTypes DEF Takers
  <2>4. Carriers(x)' = Carriers(x)
    BY <1>4, <2>2, RowTypes DEF Carriers
  <2> QED BY <2>3, <2>4
<1>8. \A p \in Players : calls'[p].at \in {"deleteItem", "deleteInstances"} => calls'[p] = calls[p]
  BY <1>4, RowTypes
<1>9. exposed \subseteq exposed' /\ cleaner'.at # "deleteMailItems"
  BY <1>2, <1>3, RowTypes
<1>10. ItemsPlaced'
  BY <1>1, <1>2, <1>7, <1>8, <1>9, KeepsItems
<1> QED BY <1>6, <1>10 DEF MailInvariant

-----------------------------------------------------------------------------
(* MailsCleanupTicker                                                       *)

\* The ticker's own progress, and rows it writes or deletes.
LEMMA KeepsCleanerProgress ==
  ASSUME MailInvariant, UNCHANGED <<bag, calls, attached, instances, destroyed>>, mails' \in Seq(MailRows), exposed \subseteq exposed',
         CleanerTyped', cleaner'.at # "deleteMailItems"
  PROVE  MailInvariant'
<1>1. MailTypes /\ ItemsPlaced /\ PostOK /\ CallsTyped
  BY DEF MailInvariant, MailTypes
<1>2. MailTypes'
  BY <1>1 DEF MailTypes, PostOK, CallsTyped
<1>3. \A x \in Items : Takers(x)' = Takers(x) /\ Carriers(x)' = Carriers(x)
  BY DEF Takers, Carriers
<1>4. ItemsPlaced'
  BY <1>1, <1>3, KeepsItems
<1> QED BY <1>2, <1>4 DEF MailInvariant

\* ProcessExpiredMails reads the rows of all expired mails.
LEMMA KeepsExpiredMails == ASSUME MailInvariant, ExpiredMails PROVE MailInvariant'
<1> DEFINE S == {n \in Ids : Expired(n)}
           found == [m \in S |-> mails[m]]
           k == [Resting EXCEPT !.at = "deletePlain", !.read = found, !.todo = S]
<1>1. mails \in Seq(MailRows)
  BY DEF MailInvariant, MailTypes, PostOK
<1>2. cleaner' = k /\ UNCHANGED <<bag, calls, mails, attached, instances, destroyed, exposed>>
  BY DEF ExpiredMails, NoSession
<1>3. S \subseteq Nat /\ 0 \notin S /\ \A m \in S : mails[m] \in MailRows
  <2>1. Ids \subseteq Nat /\ 0 \notin Ids /\ \A m \in Ids : mails[m] \in MailRows
    BY <1>1, SequencesOfRows DEF Ids
  <2> QED BY <2>1
<1>4. found \in Reads /\ \A m \in S : found[m] \in MailRows
  <2>1. found \in [S -> MailRows] /\ S \in SUBSET Nat
    BY <1>3
  <2> QED BY <2>1 DEF Reads
<1> HIDE DEF S, found
<1>5. k \in Cleaners /\ k.at = "deletePlain" /\ k.read = found /\ k.todo = S /\ k.doomed = {}
  BY <1>3, <1>4, RowTypes DEF Cleaners, CleanerSteps
<1>6. CleanerTyped'
  BY <1>2, <1>3, <1>4, <1>5 DEF CleanerTyped
<1> QED BY <1>1, <1>2, <1>5, <1>6, KeepsCleanerProgress

\* It deletes those without items and money.
LEMMA KeepsDeletePlainMails == ASSUME MailInvariant, DeletePlainMails PROVE MailInvariant'
<1> DEFINE rest == cleaner.todo \ Plain
           k == [cleaner EXCEPT !.at = "return", !.todo = rest]
<1>1. mails \in Seq(MailRows) /\ CleanerTyped
  BY DEF MailInvariant, MailTypes, PostOK
<1>2. cleaner' = k /\ DeleteMailsWithoutAttachments(Plain) /\ UNCHANGED <<bag, calls, attached, instances, destroyed, exposed>>
  BY DEF DeletePlainMails, NoSession
<1>3. mails' \in Seq(MailRows)
  BY <1>1, <1>2, DeleteTypes
<1>4. rest \subseteq cleaner.todo /\ cleaner \in Cleaners /\ cleaner.todo \subseteq Nat
  BY <1>1 DEF CleanerTyped, Cleaners
<1> HIDE DEF rest
<1>5. k \in Cleaners /\ k.at = "return" /\ k.read = cleaner.read /\ k.todo = rest /\ k.doomed = cleaner.doomed
  BY <1>4 DEF Cleaners, CleanerSteps
<1>6. CleanerTyped'
  BY <1>1, <1>2, <1>4, <1>5 DEF CleanerTyped
<1> QED BY <1>2, <1>3, <1>5, <1>6, KeepsCleanerProgress

\* It returns a mail, or notes that it was returned before.
LEMMA KeepsReturnMail == ASSUME MailInvariant, NEW m \in Ids, ReturnMail(m) PROVE MailInvariant'
<1> DEFINE row == cleaner.read[m]
           rest == cleaner.todo \ {m}
           more == cleaner.doomed \cup {m}
<1>1. mails \in Seq(MailRows) /\ CleanerTyped
  BY DEF MailInvariant, MailTypes, PostOK
<1>2. /\ m \in cleaner.todo /\ cleaner.at = "return" /\ m # 0 /\ row \in MailRows /\ cleaner \in Cleaners
      /\ UNCHANGED <<bag, calls, attached, instances, destroyed>>
  BY <1>1 DEF ReturnMail, Cleaning, NoSession, CleanerTyped
<1>3. rest \subseteq cleaner.todo /\ cleaner.todo \subseteq Nat /\ more \subseteq Nat /\ 0 \notin more
  BY <1>1, <1>2 DEF CleanerTyped, Cleaners
<1>4. CASE row.returned
  <2> DEFINE k == [cleaner EXCEPT !.todo = rest, !.doomed = more]
  <2>1. cleaner' = k /\ UNCHANGED <<mails, exposed>>
    BY <1>4 DEF ReturnMail
  <2> HIDE DEF rest, more
  <2>2. k \in Cleaners /\ k.at = cleaner.at /\ k.read = cleaner.read /\ k.todo = rest /\ k.doomed = more
    BY <1>2, <1>3 DEF Cleaners
  <2>3. CleanerTyped'
    BY <1>1, <1>3, <2>1, <2>2 DEF CleanerTyped
  <2> QED BY <1>1, <1>2, <2>1, <2>2, <2>3, KeepsCleanerProgress
<1>5. CASE ~row.returned
  <2> DEFINE k == [cleaner EXCEPT !.todo = rest]
             back == [row EXCEPT !.returned = TRUE, !.to = row.from]
  <2>1. cleaner' = k /\ UpdateMailByID(m, back) /\ exposed \subseteq exposed'
    BY <1>5 DEF ReturnMail, Expose
  <2>2. back \in MailRows
    BY <1>2 DEF MailRows
  <2> HIDE DEF rest, back
  <2>3. k \in Cleaners /\ k.at = cleaner.at /\ k.read = cleaner.read /\ k.todo = rest /\ k.doomed = cleaner.doomed
    BY <1>2, <1>3 DEF Cleaners
  <2>4. CleanerTyped'
    BY <1>1, <1>3, <2>1, <2>3 DEF CleanerTyped
  <2>5. mails' \in Seq(MailRows)
    BY <1>1, <2>1, <2>2, UpdateTypes
  <2> QED BY <1>2, <2>1, <2>3, <2>4, <2>5, KeepsCleanerProgress
<1> QED BY <1>4, <1>5

\* It reads which items go with the mails.
LEMMA KeepsMailItemsIDsByMailIDs == ASSUME MailInvariant, MailItemsIDsByMailIDs PROVE MailInvariant'
<1> DEFINE S == {x \in Items : attached[x] \in cleaner.doomed}
           k == [cleaner EXCEPT !.at = "deleteInstances", !.items = S]
<1>1. mails \in Seq(MailRows) /\ CleanerTyped /\ cleaner \in Cleaners
  BY DEF MailInvariant, MailTypes, PostOK, CleanerTyped
<1>2. (cleaner' = Resting \/ cleaner' = k) /\ UNCHANGED <<bag, calls, mails, attached, instances, destroyed, exposed>>
  BY DEF MailItemsIDsByMailIDs, NoSession
<1>3. S \subseteq Items
  OBVIOUS
<1> HIDE DEF S
<1>4. k \in Cleaners /\ k.at = "deleteInstances" /\ k.read = cleaner.read /\ k.todo = cleaner.todo /\ k.doomed = cleaner.doomed
  BY <1>1, <1>3 DEF Cleaners, CleanerSteps
<1>5. CleanerTyped' /\ cleaner'.at # "deleteMailItems"
  BY <1>1, <1>2, <1>4, RowTypes DEF CleanerTyped
<1> QED BY <1>1, <1>2, <1>5, KeepsCleanerProgress

\* The ticker deletes item rows first: the items are in no bag, or exposed.
LEMMA KeepsDeleteItemsWithIDs == ASSUME MailInvariant, DeleteItemsWithIDs PROVE MailInvariant'
<1> DEFINE k == [cleaner EXCEPT !.at = "deleteMailItems"]
<1>1. MailTypes /\ ItemsPlaced /\ PostOK /\ CallsTyped /\ CleanerTyped /\ cleaner \in Cleaners
  BY DEF MailInvariant, MailTypes, CleanerTyped
<1>2. /\ instances' = instances \ cleaner.items /\ cleaner' = k /\ exposed \subseteq exposed'
      /\ "item" \in exposed' \/ \A x \in cleaner.items : attached[x] \in cleaner.doomed /\ \A p \in Players : x \notin bag[p]
      /\ UNCHANGED <<bag, calls, mails, attached, destroyed>>
  BY DEF DeleteItemsWithIDs, NoSession, Expose
<1>3. k \in Cleaners /\ k.read = cleaner.read /\ k.todo = cleaner.todo /\ k.doomed = cleaner.doomed /\ k.items = cleaner.items
  BY <1>1 DEF Cleaners, CleanerSteps
<1>4. MailTypes'
  BY <1>1, <1>2, <1>3 DEF MailTypes, PostOK, CallsTyped, CleanerTyped
<1>5. ItemsPlaced'
  <2> SUFFICES ASSUME "item" \notin exposed'
               PROVE  (\A x \in Items : ItemPlaced(x))' /\ InstancesScanned' /\ ItemsDeletedFirst' /\ InstancesDeletedFirst'
    BY DEF ItemsPlaced
  <2>1. (\A x \in Items : ItemPlaced(x)) /\ InstancesScanned /\ ItemsDeletedFirst
    BY <1>1, <1>2 DEF ItemsPlaced
  <2>2. \A x \in cleaner.items : attached[x] # 0 /\ \A p \in Players : x \notin bag[p]
    BY <1>1, <1>2 DEF CleanerTyped
  <2>3. \A x \in Items : Takers(x)' = Takers(x) /\ Carriers(x)' = Carriers(x) /\ Holders(x)' = Holders(x)
    BY <1>2 DEF Takers, Carriers, Holders
  <2>4. ASSUME NEW x \in Items PROVE ItemPlaced(x)'
    BY <1>2, <2>1, <2>2, <2>3 DEF ItemPlaced, ItemPlace, Owners
  <2>5. InstancesScanned'
    <3> SUFFICES ASSUME NEW q \in Players, calls[q].at = "deleteItem", NEW x \in calls[q].items, attached[x] = calls[q].mail
                 PROVE  x \in instances'
      BY <1>2 DEF InstancesScanned
    <3>1. x \in Items
      BY <1>1 DEF CallsTyped, MailCalls
    <3>2. x \in bag[q]
      BY <2>1, <3>1 DEF ItemPlaced, Takers, Holders
    <3> QED BY <1>2, <2>1, <2>2, <3>2 DEF InstancesScanned
  <2>6. ItemsDeletedFirst'
    BY <1>2, <2>1 DEF ItemsDeletedFirst
  <2>7. InstancesDeletedFirst'
    BY <1>2, <1>3, <2>2 DEF InstancesDeletedFirst
  <2> QED BY <2>4, <2>5, <2>6, <2>7
<1> QED BY <1>4, <1>5 DEF MailInvariant

\* They leave their mails after they lost their rows.
LEMMA KeepsDeleteReturnedMailItems == ASSUME MailInvariant, DeleteReturnedMailItems PROVE MailInvariant'
<1> DEFINE k == [cleaner EXCEPT !.at = "deleteMails"]
<1>1. MailTypes /\ ItemsPlaced /\ PostOK /\ CallsTyped /\ CleanerTyped /\ cleaner \in Cleaners
  BY DEF MailInvariant, MailTypes, CleanerTyped
<1>2. /\ cleaner.at = "deleteMailItems" /\ DeleteMailItemsWithIDs(cleaner.items) /\ cleaner' = k
      /\ UNCHANGED <<bag, calls, mails, instances, exposed>>
  BY DEF DeleteReturnedMailItems, Cleaning, NoSession
<1>3. k \in Cleaners /\ k.at = "deleteMails" /\ k.read = cleaner.read /\ k.todo = cleaner.todo /\ k.doomed = cleaner.doomed
  BY <1>1 DEF Cleaners, CleanerSteps
<1>4. attached' \in [Items -> Nat]
  BY <1>1, <1>2 DEF DeleteMailItemsWithIDs, PostOK
<1>5. MailTypes'
  BY <1>1, <1>2, <1>3, <1>4 DEF MailTypes, PostOK, CallsTyped, CleanerTyped
<1>6. ItemsPlaced'
  <2> SUFFICES ASSUME "item" \notin exposed'
               PROVE  (\A x \in Items : ItemPlaced(x))' /\ InstancesScanned' /\ ItemsDeletedFirst' /\ InstancesDeletedFirst'
    BY DEF ItemsPlaced
  <2>1. (\A x \in Items : ItemPlaced(x)) /\ InstancesScanned /\ ItemsDeletedFirst /\ InstancesDeletedFirst
    BY <1>1, <1>2 DEF ItemsPlaced
  <2>2. \A x \in cleaner.items : x \in destroyed \/ attached[x] # 0
    BY <1>2, <2>1 DEF InstancesDeletedFirst
  <2>3. \A x \in Items : Takers(x)' = Takers(x) /\ Carriers(x)' = Carriers(x)
    BY <1>2 DEF Takers, Carriers
  <2>4. /\ \A x \in Items : ItemPlaced(x)'
        /\ \A x \in Items : attached'[x] = IF x \in cleaner.items THEN 0 ELSE attached[x]
        /\ destroyed' = destroyed \cup cleaner.items
    BY <1>1, <1>2, <2>1, <2>2, <2>3, ItemsLeave
  <2>5. InstancesScanned'
    <3> SUFFICES ASSUME NEW q \in Players, calls[q].at = "deleteItem", NEW x \in calls[q].items, attached'[x] = calls[q].mail
                 PROVE  x \in instances
      BY <1>2 DEF InstancesScanned
    <3>1. x \in Items /\ calls[q].mail # 0
      BY <1>1 DEF CallsTyped, MailCalls, TakeSteps
    <3> QED BY <2>1, <2>4, <3>1 DEF InstancesScanned
  <2>6. ItemsDeletedFirst'
    BY <1>2, <2>1, <2>4 DEF ItemsDeletedFirst
  <2>7. InstancesDeletedFirst'
    BY <1>2, <1>3 DEF InstancesDeletedFirst
  <2> QED BY <2>4, <2>5, <2>6, <2>7
<1> QED BY <1>5, <1>6 DEF MailInvariant

\* The ticker ends, by itself or with a failing statement.
LEMMA KeepsEndOfCleaning == ASSUME MailInvariant, DeleteReturnedMails \/ CleanerFails PROVE MailInvariant'
<1>1. mails \in Seq(MailRows)
  BY DEF MailInvariant, MailTypes, PostOK
<1>2. cleaner' = Resting /\ UNCHANGED <<bag, calls, attached, instances, destroyed, exposed>>
  BY DEF DeleteReturnedMails, CleanerFails, NoSession
<1>3. mails' \in Seq(MailRows)
  <2>1. CASE DeleteReturnedMails
    BY <1>1, <2>1, DeleteTypes DEF DeleteReturnedMails
  <2>2. CASE CleanerFails
    BY <1>1, <2>2 DEF CleanerFails
  <2> QED BY <2>1, <2>2
<1>4. CleanerTyped' /\ cleaner'.at # "deleteMailItems"
  BY <1>2, RowTypes DEF CleanerTyped
<1> QED BY <1>2, <1>3, <1>4, KeepsCleanerProgress

\* The clock, and steps of nobody.
LEMMA KeepsPost ==
  ASSUME MailInvariant, UNCHANGED <<bag, calls, mails, attached, instances, destroyed, exposed, cleaner>>
  PROVE  MailInvariant'
<1>1. MailTypes /\ ItemsPlaced
  BY DEF MailInvariant
<1>2. MailTypes'
  BY <1>1 DEF MailTypes, PostOK, CallsTyped, CleanerTyped
<1>3. \A x \in Items : Takers(x)' = Takers(x) /\ Carriers(x)' = Carriers(x)
  BY DEF Takers, Carriers
<1>4. ItemsPlaced'
  BY <1>1, <1>3, KeepsItems
<1> QED BY <1>2, <1>4 DEF MailInvariant

-----------------------------------------------------------------------------
(* The mail service: theorems                                               *)

\* Every step of the mail service and its clients keeps the invariant.
LEMMA MailInvariantKept == ASSUME MailInvariant, [MailNext]_mailVars PROVE MailInvariant'
<1>1. ASSUME NEW p \in Players, MailInput(p) PROVE MailInvariant'
  <2>1. CASE \E w \in Parcels : HandleSendMail(p, w)
    BY <2>1, KeepsHandleSendMail
  <2>2. CASE HandleGetMailList(p)
    BY <2>2, KeepsHandleGetMailList
  <2>3. ASSUME NEW m \in Ids, HandleMailTakeMoney(p, m) \/ HandleDeleteMail(p, m) \/ HandleMailMarksAsRead(p, m) PROVE MailInvariant'
    BY <2>3, KeepsReadingPackets
  <2>4. ASSUME NEW m \in Ids, NEW x \in Items, HandleMailTakeItem(p, m, x) PROVE MailInvariant'
    BY <2>4, KeepsReadingPackets
  <2> QED BY <1>1, <2>1, <2>2, <2>3, <2>4 DEF MailInput
<1>2. ASSUME NEW p \in Players, MailStep(p) PROVE MailInvariant'
  <2>1. CASE PayPostage(p) \/ SendMail(p) \/ RemoveMailMoneyForPlayer(p) \/ TakeMoney(p) \/ PayCashOnDelivery(p)
    BY <2>1, KeepsPayPostage, KeepsSendMail, KeepsRemoveMailMoneyForPlayer, KeepsPurseSteps
  <2>2. CASE AddExistingItemToPlayer(p) \/ NoSpace(p) \/ RemoveMailItem(p) \/ DeleteMailItem(p) \/ SendCashOnDelivery(p)
    BY <2>2, KeepsAddExistingItemToPlayer, KeepsPurseSteps, KeepsRemoveMailItem, KeepsDeleteMailItem, KeepsSendCashOnDelivery
  <2>3. CASE UpdateMailWithoutAttachments(p) \/ ReadMailToDelete(p) \/ DeleteMailItems(p) \/ DeleteInstances(p) \/ DeleteMail(p)
    BY <2>3, KeepsUpdateMailWithoutAttachments, KeepsReadMailToDelete, KeepsDeleteMailItems, KeepsDeleteInstances, KeepsDeleteMail
  <2>4. CASE MarkMailAsReadForPlayer(p) \/ MailListForPlayer(p) \/ ListPanics(p)
    BY <2>4, KeepsMarkMailAsReadForPlayer, KeepsPurseSteps, KeepsAbort DEF ListPanics
  <2> QED BY <1>2, <2>1, <2>2, <2>3, <2>4 DEF MailStep
<1>3. CASE CleanerStep
  BY <1>3, KeepsExpiredMails, KeepsDeletePlainMails, KeepsReturnMail, KeepsMailItemsIDsByMailIDs, KeepsDeleteItemsWithIDs,
     KeepsDeleteReturnedMailItems, KeepsEndOfCleaning DEF CleanerStep
<1>4. CASE MailFault
  BY <1>4, KeepsAbort, KeepsEndOfCleaning, KeepsHandlerFails DEF MailFault, MailCrash
<1>5. ASSUME NEW m \in Ids, MailExpires(m) PROVE MailInvariant'
  BY <1>5, KeepsPost DEF MailExpires
<1>6. CASE UNCHANGED mailVars
  BY <1>6, KeepsPost DEF mailVars
<1> QED BY <1>1, <1>2, <1>3, <1>4, <1>5, <1>6 DEF MailNext

\* Every item is somebody's at first (none exists outside the bags).
ItemsHaveOwners == \A x \in Items : \E p \in Players : x \in FirstBag[p]

\* It holds at first.
LEMMA MailStarts == ASSUME ItemsHaveOwners, MailInit PROVE MailInvariant
<1>1. /\ bag = FirstBag /\ mails = <<>> /\ attached = [x \in Items |-> 0] /\ instances = UNION {bag[p] : p \in Players}
      /\ calls = [p \in Players |-> Idle] /\ cleaner = Resting /\ destroyed = {}
  BY DEF MailInit, MailStart
<1>2. \A p \in Players : calls[p] = Idle
  BY <1>1
<1>3. MailTypes
  <2>1. PostOK
    BY <1>1, MailAssumption DEF PostOK
  <2>2. CallsTyped
    BY <1>1, RowTypes DEF CallsTyped, TakeSteps
  <2>3. CleanerTyped
    BY <1>1, RowTypes DEF CleanerTyped
  <2> QED BY <2>1, <2>2, <2>3 DEF MailTypes
<1>4. ItemsPlaced
  <2>1. ASSUME NEW x \in Items PROVE ItemPlaced(x)
    <3>1. Takers(x) = {} /\ Carriers(x) = {}
      BY <1>2, RowTypes DEF Takers, Carriers
    <3>2. PICK p \in Players : x \in FirstBag[p]
      BY DEF ItemsHaveOwners
    <3>3. \A q \in Players : x \in FirstBag[q] => q = p
      BY <3>2, MailAssumption
    <3>4. Owners(x) = {p}
      BY <1>1, <3>1, <3>2, <3>3 DEF Owners, Holders
    <3>5. x \in instances /\ attached[x] = 0 /\ x \notin destroyed
      BY <1>1, <3>2
    <3> QED BY <3>1, <3>4, <3>5 DEF ItemPlaced, ItemPlace
  <2>2. InstancesScanned /\ ItemsDeletedFirst /\ InstancesDeletedFirst
    BY <1>1, <1>2, RowTypes DEF InstancesScanned, ItemsDeletedFirst, InstancesDeletedFirst
  <2> QED BY <2>1, <2>2 DEF ItemsPlaced
<1> QED BY <1>3, <1>4 DEF MailInvariant

\* Between calls nobody carries or takes.
LEMMA PlacedItems == MailInvariant => ItemOnce
<1> SUFFICES ASSUME MailInvariant, Quiet, "item" \notin exposed, NEW x \in Items
             PROVE  IF x \in destroyed THEN PlacesOf(x) = {} ELSE Cardinality(PlacesOf(x)) = 1 /\ (attached[x] = 0 => x \in instances)
  BY DEF ItemOnce
<1>1. attached[x] \in Nat /\ ItemPlaced(x)
  BY DEF MailInvariant, MailTypes, PostOK, ItemsPlaced
<1>2. Takers(x) = {} /\ Carriers(x) = {}
  BY DEF Quiet, Free, Takers, Carriers
<1>3. Owners(x) = Holders(x) /\ PlacesOf(x) = Holders(x) \cup ({attached[x]} \ {0})
  BY <1>2 DEF Owners, Holders, PlacesOf
<1>4. CASE x \in destroyed
  BY <1>1, <1>3, <1>4 DEF ItemPlaced, ItemPlace
<1>5. CASE x \notin destroyed /\ attached[x] # 0
  <2>1. PlacesOf(x) = {attached[x]}
    BY <1>1, <1>3, <1>5 DEF ItemPlaced, ItemPlace
  <2> QED BY <1>5, <2>1, FS_Singleton
<1>6. CASE x \notin destroyed /\ attached[x] = 0
  <2>1. PICK p \in Players : Owners(x) = {p}
    BY <1>1, <1>2, <1>6 DEF ItemPlaced, ItemPlace
  <2>2. PlacesOf(x) = {p}
    BY <1>3, <1>6, <2>1
  <2>3. x \in instances
    BY <1>1, <1>6 DEF ItemPlaced, ItemPlace
  <2> QED BY <1>6, <2>2, <2>3, FS_Singleton
<1> QED BY <1>4, <1>5, <1>6

\* ItemOnce: sent, taken, returned, deleted and through restarts of the mail
\* service, an item is in one bag or one mail, until it is deleted with it.
THEOREM ItemsAreKept == ASSUME ItemsHaveOwners PROVE MailSpec => []ItemOnce
<1>1. MailInit => MailInvariant
  BY MailStarts
<1>2. MailInvariant /\ [MailNext]_mailVars => MailInvariant'
  BY MailInvariantKept
<1>3. MailInvariant => ItemOnce
  BY PlacedItems
<1> QED BY <1>1, <1>2, <1>3, PTL DEF MailSpec
=============================================================================
