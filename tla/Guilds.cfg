CONSTANTS
  master = master
  officer = officer
  newcomer = newcomer
  Players = {master, officer, newcomer}
  FirstRanks <- MCFirstRanks
  FirstRights <- MCFirstRights
  FirstInvites = {newcomer, officer}
  RightSets <- MCRightSets
  GuildRankMax = 3
  DefaultRanks = 2
  NoText = NoText
  Plays <- MCPlays
  MaxInputs = 4
  MaxFaults = 2
SPECIFICATION FairSpec
INVARIANTS CacheMirrorsRows OneMaster
PROPERTY SessionsFollow
CHECK_DEADLOCK FALSE
