SPECIFICATION FairSpec
CONSTANTS
  str1 = str1
  str2 = str2
  flag = flag
  BUF = BUF
  NULL = NULL
  NoFlag = NoFlag
  SERO_SQENTRYS = 3
  Strings = {str1, str2}
  Values = {0, 1, 2}
  Flags = {flag}
  TaskJobs <- MC_TaskJobs
  TickJobs <- MC_TickJobs
  Racing = FALSE
PROPERTIES ImplementsLine Completes
INVARIANTS TypeOK CountRight
