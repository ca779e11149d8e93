SPECIFICATION Spec
CONSTANTS
  alice = alice
  bob = bob
  carol = carol
  cloud = cloud
  m1 = m1
  m2 = m2
  m3 = m3
  Null = Null
  Clients = {alice, bob, carol}
  Servers = {cloud}
  Envelopes = {m1, m2, m3}
  Rank <- MCRank
  Data <- MCData
  SecretLen <- MCSecretLen
  Promises <- MCAllPromises
  MaxSessions = 3
  Pairs <- MCNoPairs
INVARIANTS
  TypeOK
  ContractInv
  NoUndefined
  AnswerCorrect
  StoredIsOwn
PROPERTIES
  RequestsAreAnswered
  ImplementsIdealPSI
CHECK_DEADLOCK FALSE
