SPECIFICATION SignInSpec
CONSTANTS
  MaxAccounts = 1
  MaxBothers = 1
INVARIANTS DroppedHadNoProfile
CHECK_DEADLOCK FALSE
