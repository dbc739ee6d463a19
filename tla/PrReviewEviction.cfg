SPECIFICATION Spec
CONSTANTS
  h1 = h1  h2 = h2  l2 = l2
  s1 = s1  s2 = s2  s3 = s3
  f1 = f1  f2 = f2
  Jobs = {"j1"}
  Sites <- AllSites
  Fps = {h1, h2, l2}
  FileOf <- File
  LocFp <- Loc
  Hunkings <- OneHunking
  Platform = "bitbucket"
  UseNova = TRUE
  Persist = FALSE
  Overlap = FALSE
  Env = {"limit", "evict", "lost"}
  MaxThreads = 3
  MaxRuns = 4
  Window = 0
INVARIANT OneThreadPerFinding
PROPERTY AnswersMoveForward
CHECK_DEADLOCK FALSE
