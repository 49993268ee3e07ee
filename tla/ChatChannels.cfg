SPECIFICATION FairSpec
CONSTANTS
  Players = {p, q, r}
  Listener = listener
  NoOne = noone
  Passwords = {none, secret}
  NoPassword = none
  FirstMembers = {p, q, r}
  FirstModerators = {q}
  MaxInputs = 2
  MaxFaults = 2
INVARIANTS MirrorsRows SessionsAreMembers PresenceFollows
PROPERTIES OwnershipSpec CallsReturn
CHECK_DEADLOCK FALSE
