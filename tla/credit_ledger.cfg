\* Two CPUs with the four turns of the code; liveness, so no symmetry.
CONSTANTS
  c1 = c1
  c2 = c2
  Cpus = {c1, c2}
  Deltas = {0, 1, 3}
  Heads <- MCHeads
  EMAX = 2
  CREDIT_MAX = 4
  RETRIES = 4
  MAX_VISIT = 2
SPECIFICATION FairSpec
INVARIANTS TypeOK PaidWhileTiersBusy
PROPERTIES SpentIsReserved GivesUpBeaten LedgerSpec OperationsEnd
