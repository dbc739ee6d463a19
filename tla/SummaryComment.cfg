SPECIFICATION Spec
CONSTANTS
  j1 = j1  j2 = j2
  Jobs = {j1, j2}
  Platforms = {"github"}
  Styles = {"per-issue", "summary"}
  Env = {"scan", "update", "post", "lost", "crash", "delete", "cache", "overlap",
         "remark"}
  Page = 1
  MaxRemarks = 1
  MaxRuns = 3
  MaxFlaws = 1
SYMMETRY Alike
INVARIANTS
  TypeOK
  DuplicatesHaveCause
  SummaryIsLatest
PROPERTY RevisionsGrow
CHECK_DEADLOCK FALSE
