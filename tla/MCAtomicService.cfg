SPECIFICATION Spec
CONSTANTS
  t = t
  g = g
  i1 = i1
  i2 = i2
  i3 = i3
  c1 = c1
  None = None
  NoRow = NoRow
  NoQuery = ""
  SearchLimit = 2
  Ids <- MCIds
  Texts <- MCTexts
  Htmls <- MCHtmls
  Pngs <- MCPngs
  Cleaned <- MCCleaned
  Queries <- MCQueries
  Hits <- MCHits
  Conns <- MCConns
  Requests <- MCRequests
SYMMETRY Symmetry
INVARIANTS
  TypeOK
  UniqueHash
  RankedOnce
  OneListing
PROPERTIES
  MarksOnlyByRequest
  UndeletedOnlyByCapture
  ListingsHonest
