SPECIFICATION Spec
CONSTANTS
  t = t
  m = m
  g = g
  h = h
  i1 = i1
  i2 = i2
  c1 = c1
  c2 = c2
  None = None
  NoRow = NoRow
  NoQuery = ""
  SearchLimit = 2
  Ids <- TwoIds
  Texts <- MCTexts
  Htmls <- Html
  Pngs <- NoData
  Cleaned <- MCCleaned
  Queries <- MCQueries
  Hits <- MCHits
  Conns <- TwoConns
  Requests <- DeletingRequests
  AtStart <- HtmlAtStart
  Outside <- HtmlOutside
SYMMETRY TwoSymmetry
INVARIANTS
  TypeOK
  IInv
  OneAtATime
  PastesItsOwn
  WritesItsItem
  MarkedBeforePaste
PROPERTIES
  CaptureUndisturbed
  Atomic
