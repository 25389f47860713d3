SPECIFICATION QueriesSpec
CONSTANTS
  alice = alice
  bob = bob
  carol = carol
  savings = savings
  Anonymous = Anonymous
  None = None
  Account <- MCAccounts
  Spender <- MCSpenders
  Workloads <- MCUnconfigured
  MaxTokenId = 3
  MaxBatch = 1
  MaxTime = 4
  Expiry = {2, None}
  MaxApprovals = 3
  SupplyCaps = {3}
  BatchSizes = {1}
  MetadataEntry = {}
  WindowCalls = 2
  WindowDuration = 2
  TxWindows = {None}
  Drifts = {None}
  MemoSizes = {None}
  DefaultTxWindow = 2
  DefaultDrift = 1
  DefaultMemoSize = 1
  NanosPerMilli = 4
  Take = 1
INVARIANT
  NoDuplicates
