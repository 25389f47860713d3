SPECIFICATION Spec
CONSTANTS
  alice = alice
  bob = bob
  vault = vault
  Anonymous = Anonymous
  None = None
  Account <- MCPlainAccounts
  Spender <- MCBob
  MaxTokenId = 2
  MaxBatch = 2
  MaxTime = 0
  Expiry = {None}
  MaxApprovals = 1
  SupplyCaps = {1, 2}
  BatchSizes = {2}
  MetadataEntry = {e}
INVARIANTS
  TypeOK
  ByOwnerConsistent
  LogReplaysOwners
  ApprovalsOnIssuedTokens
PROPERTIES
  MetadataKeptByMint
  ImplementsRegistry
