SPECIFICATION Spec
CONSTANTS
  alice = alice
  bob = bob
  carol = carol
  cloud = cloud
  m1 = m1
  m2 = m2
  m3 = m3
  Null = Null
  Clients = {alice, bob}
  Servers = {cloud}
  Envelopes = {m1, m2}
  Rank <- MCRank
  Data <- MCData
  SecretLen <- MCSecretLen
  Promises <- MCNotFresh
  MaxSessions = 2
  Pairs <- MCNoPairs
INVARIANT
  PolynomialMatchesOutput
CHECK_DEADLOCK FALSE
