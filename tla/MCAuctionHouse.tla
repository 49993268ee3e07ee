--------------------------- MODULE MCAuctionHouse ---------------------------
EXTENDS AuctionHouse
CONSTANTS ann, bob, cyd, sword, s1, s2

Empty == [p \in Players |-> {}]
\* One instance: ann may list her sword, the others bid, calls fail.
Listing == [servers |-> {s1}, auctions |-> <<>>, bags |-> [Empty EXCEPT ![ann] = {sword}], requests |-> 3, faults |-> 1]
\* Two instances and an auction with a bid: two requests, or one and a fault.
Bidding(r, f) == [servers |-> {s1, s2}, bags |-> Empty, requests |-> r, faults |-> f,
                  auctions |-> <<[no |-> 1, owner |-> ann, items |-> {sword}, bid |-> 100, bidder |-> bob]>>]
MCOpenings == {Listing, Bidding(2, 0), Bidding(1, 1)}
=============================================================================
