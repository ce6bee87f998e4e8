CONSTANTS
  plain = plain
  long = long
  wide = wide
  pair = pair
  empty = empty
  Names <- AllNames
  Chars <- NameChars
  Bytes <- NameBytes
  Widest <- NameWidest
  Contents <- ShortLists
  EstimateFrom <- EstimateSum
  Average = 11
  Sizes = {1, 2, 4, 9}
  MaxName = 3
  FillerCodes <- FullDirectory
  Errnos = {5}
  MaxChanges = 2
SPECIFICATION FairSpec
INVARIANTS
  TypeOK
  InsideBuffer
  SizedFits
  ListingAllOrNone
PROPERTIES
  ImplementsDelivery
  ReadSettles
  ReadRunsDown
