SPECIFICATION Spec
CONSTANTS
  alice = alice
  bob = bob
  vault = vault
  j1 = j1
  j2 = j2
  client = client
  None = None
  Account = {alice, vault}
  Principal = {alice}
  TokenId = {1}
  Caller = {client}
  Block <- MCTransfers
  Query <- MCQueries
  BlockBatchSize = 3
  MaxBlocks = 3
  MaxArchived = 1
  Job = {j1, j2}
  MaxFailures = 1
INVARIANTS
  IndexTypeOK
  NeverAhead
  IndexComplete
  AnswersComplete
PROPERTY IndexCatchesUp
