SPECIFICATION Spec
CONSTANTS
  h1 = h1  h2 = h2  l2 = l2
  s1 = s1  s2 = s2  s3 = s3
  f1 = f1  f2 = f2
  Jobs = {"j1"}
  Sites <- OneFile
  Fps = {h1, l2}
  FileOf <- File
  LocFp <- Loc
  Hunkings <- OneHunking
  Platform = "bitbucket"
  UseNova = TRUE
  Persist = FALSE
  Overlap = FALSE
  Env = {"post", "lost", "reply", "resolve", "nova", "crash", "comment"}
  MaxThreads = 3
  MaxRuns = 3
  Window = 0
INVARIANTS TypeOK OneThreadPerFinding RemovedCodeIsAnswered
PROPERTY AnswersMoveForward
CHECK_DEADLOCK FALSE
