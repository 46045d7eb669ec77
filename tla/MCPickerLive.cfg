SPECIFICATION FairPickerSpec
CONSTANTS
  t = t
  u = u
  i1 = i1
  i2 = i2
  c1 = c1
  c2 = c2
  c3 = c3
  None = None
  Reliable = FALSE
  NoRow = NoRow
  NoQuery = ""
  SearchLimit = 2
  MaxUnread = 2
  Keys = {"type", "Up", "Down", "Return", "Shift+Return", "Delete", "Ctrl+P", "Ctrl+F"}
  Ids <- OneId
  Texts <- OneText
  Htmls <- NoneOf
  Pngs <- NoneOf
  Cleaned <- MCCleaned
  Queries <- MCQueries
  Hits <- MCHits
  Conns <- TwoConns
  Requests <- MCRequests
INVARIANTS
  PickerTypeOK
PROPERTIES
  RestoreEnds
