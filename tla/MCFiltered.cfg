SPECIFICATION PickerSpec
CONSTANTS
  t = t
  u = u
  i1 = i1
  i2 = i2
  c1 = c1
  c2 = c2
  c3 = c3
  None = None
  Reliable = TRUE
  NoRow = NoRow
  NoQuery = ""
  SearchLimit = 2
  MaxUnread = 3
  Keys = {"type"}
  Ids <- MCIds
  Texts <- MCTexts
  Htmls <- NoneOf
  Pngs <- NoneOf
  Cleaned <- MCCleaned
  Queries <- MCQueries
  Hits <- MCHits
  Conns <- ThreeConns
  Requests <- MCRequests
SYMMETRY Symmetry
INVARIANTS
  Filtered
