SPECIFICATION Spec
CONSTANTS
  h1 = h1  h2 = h2  l2 = l2
  s1 = s1  s2 = s2  s3 = s3
  f1 = f1  f2 = f2
  Jobs = {"j1"}
  Sites <- OneFile
  Fps = {h1, l2}
  FileOf <- File
  LocFp <- Loc
  Hunkings <- OneHunking
  Platform = "gitlab"
  UseNova = TRUE
  Persist = TRUE
  Overlap = FALSE
  Env = {"post", "lost", "reply", "resolve", "nova", "crash", "close", "tick"}
  MaxThreads = 2
  MaxRuns = 3
  Window = 2
INVARIANT StoreNotAhead
CHECK_DEADLOCK FALSE
