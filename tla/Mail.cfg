CONSTANTS
  ann = ann
  bob = bob
  sword = sword
  Players = {ann, bob}
  Items = {sword}
  FirstBag <- MCFirstBag
  FirstMoney = 100
  Parcels <- MCParcels
  NoOne = NoOne
  MaxMailInputs = 3
  MaxFaults = 1
SPECIFICATION MailSpec
INVARIANTS MoneyConserved ItemOnce
PROPERTY ExpiredMailLeaves
CHECK_DEADLOCK FALSE
