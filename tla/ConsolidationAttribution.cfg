SPECIFICATION Spec
CONSTANTS
  a1 = a1  a2 = a2  a3 = a3  a4 = a4
  Agents = {a1, a2, a3, a4}
  Files <- TwoFiles
  Indent <- Layout
  Changed <- Additions
  Inputs <- Reports
  Lines <- SomeLines
  Spans <- UpToThree
  N = 1
  K = 3
  MaxDelta = 2
INVARIANT AttributionKept
