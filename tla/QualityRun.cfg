SPECIFICATION RunSpec
CONSTANTS
  Runs = {p1, p2, p3}
  Cases <- MCCases
  Revisions = {r1, r2}
  None = None
  MaxKills = 6
SYMMETRY Symmetric
CHECK_DEADLOCK FALSE
PROPERTIES ResumeIsExact
