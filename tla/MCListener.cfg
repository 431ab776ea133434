SPECIFICATION FairSpec
CONSTANTS
  Clients = {c1, c2, c3, c4}
  max_players = 2
INVARIANTS
  TypeOK
  PermitsBalance
PROPERTIES
  RejectedOnlyWhenFull
  SignalEndsProcess
