SPECIFICATION FairSpec
CONSTANTS
  t = t
  m = m
  g = g
  h = h
  i1 = i1
  i2 = i2
  c1 = c1
  c2 = c2
  None = None
  NoRow = NoRow
  NoQuery = ""
  SearchLimit = 2
  Ids <- OneId
  Texts <- MCTexts
  Htmls <- NoData
  Pngs <- Image
  Cleaned <- MCCleaned
  Queries <- MCQueries
  Hits <- MCHits
  Conns <- TwoConns
  Requests <- EveryRequest
  AtStart <- ImageAtStart
  Outside <- ImageOutside
INVARIANTS
  WritesItsItem
PROPERTIES
  Atomic
  Answered
