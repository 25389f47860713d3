SPECIFICATION Spec
CONSTANTS
  alice = alice
  bob = bob
  vault = vault
  j1 = j1
  j2 = j2
  client = client
  None = None
  Account = {alice, bob, vault}
  Principal = {alice, bob}
  TokenId = {1}
  Caller = {client}
  Block <- MCMints
  Query <- MCMintQuery
  BlockBatchSize = 2
  MaxBlocks = 2
  MaxArchived = 0
  Job = {j1, j2}
  MaxFailures = 0
INVARIANT AnswersStrictlyAscend
