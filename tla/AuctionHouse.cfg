\* One instance and three requests, or two instances with an auction under way.
CONSTANTS
  ann = ann
  bob = bob
  cyd = cyd
  sword = sword
  s1 = s1
  s2 = s2
  Players = {ann, bob, cyd}
  Items = {sword}
  FirstBag <- Empty
  FirstMoney = 104
  Parcels = {}
  NoOne = NoOne
  Servers = {s1, s2}
  Openings <- MCOpenings
  AuctionIDs = {1}
  Prices = {100, 105, 110}
  StartBid = 100
  BuyoutPrice = 110
  CutPercent = 5
  MaxMailInputs = 0
  MaxFaults = 1
SPECIFICATION AuctionSpec
INVARIANTS LotOnce GoldConserved OneClerkPerLot
PROPERTY OverdueAuctionsEnd
CHECK_DEADLOCK FALSE
