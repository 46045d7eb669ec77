SPECIFICATION SessionSpec
CONSTANTS
  t = t
  m = m
  u = u
  i1 = i1
  i2 = i2
  c1 = c1
  c2 = c2
  None = None
  NoRow = NoRow
  NoQuery = ""
  SearchLimit = 2
  MaxUnread = 2
  Reliable = FALSE
  Keys = {"Down", "Return"}
  Ids <- TwoIds
  Texts <- MCTexts
  Htmls <- NoData
  Pngs <- NoData
  Cleaned <- MCCleaned
  Queries <- MCQueries
  Hits <- MCHits
  Conns <- TwoConns
  Requests <- MCRequests
  AtStart <- AppAtStart
  Outside <- TwoTexts
SYMMETRY Symmetry
PROPERTIES
  PastesIntoApp
