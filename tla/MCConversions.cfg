SPECIFICATION ConversionsSpec
CONSTANTS
  t = t
  u = u
  i1 = i1
  i2 = i2
  None = None
  NoRow = NoRow
  NoQuery = ""
  SearchLimit = 2
  Pieces <- MCPieces
  Heads <- MCHeads
  MaxPieces = 4
  Ids <- MCIds
  Texts <- MCTexts
  Htmls <- NoneOf
  Pngs <- NoneOf
  Cleaned <- MCCleaned
  Queries <- MCQueries
  Hits <- MCHits
  Times <- MCTimes
INVARIANTS
  DecodesOnce
  RestoredIsStored
  ShownIsPasted
  WordsKept
PROPERTIES
  RanksByUse
CHECK_DEADLOCK FALSE
