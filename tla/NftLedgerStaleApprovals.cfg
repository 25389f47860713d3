SPECIFICATION Spec
CONSTANTS
  alice = alice
  bob = bob
  vault = vault
  Anonymous = Anonymous
  None = None
  Account <- MCSubaccounts
  Spender <- MCSpenders
  MaxTokenId = 1
  MaxBatch = 1
  MaxTime = 1
  Expiry = {1}
  MaxApprovals = 1
  SupplyCaps = {1}
  BatchSizes = {2}
  MetadataEntry = {}
INVARIANT ApprovalsOfPresentOwner
