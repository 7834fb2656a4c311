CONSTANTS
  NumVcpu = 4
  PhysCpus <- Cpus3
  NumPc = 2
  Entry = 1
  OncePerCpu = TRUE
SPECIFICATION FairSpec
CHECK_DEADLOCK FALSE
INVARIANTS TypeOK NeverUninitialized ResumesWhereTrapped StartsWhereAsked
PROPERTY GrantedRuns
