CONSTANTS
  s1 = s1
  s2 = s2
  m1 = m1
  NONE = NONE
  ValueError = ValueError
  Senders <- MCSenders
  Managers <- MCManagers
  ManagerOf <- MCManagerOf
  MessagesOf <- MCMessagesOf
  NonceLimit = 3
  MaxSends = 2
  MaxSockets = 2
SPECIFICATION FairSpec
INVARIANT TypeOK
INVARIANT NoncesUnique
INVARIANT NoncesAscend
INVARIANT WireNotTorn
INVARIANT SentExactlyOnce
INVARIANT WireDecodes
PROPERTY SendEnds
