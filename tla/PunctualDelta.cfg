SPECIFICATION MCSpec
CONSTANTS
  None = None
  r1 = r1
  r2 = r2
  Requests = {r1, r2}
  Cases <- MCCases
  Day = 0
  Replies <- MCReplies
  Drives = {None, 30}
  Queries <- MCQueries
  Origins = {"o", "o2"}
  Cells <- MCCells
  Flat <- MCFlat
INVARIANTS PunctualIsExact
CHECK_DEADLOCK FALSE
