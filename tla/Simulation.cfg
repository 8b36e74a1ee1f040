CONSTANTS
  Alpha = alpha
  Beta = beta
  CommandLine = {r1}
  MaxEmissions = 2
  AllTenantIDs <- BothTenants
  Runs = {r1, r2}
  Stores = {minio}
  TotalUnique = 2
SPECIFICATION MCSpec
INVARIANTS IInv NothingLeaked OKIsExact CleanRunPasses
PROPERTIES DashboardFrees
CHECK_DEADLOCK FALSE
