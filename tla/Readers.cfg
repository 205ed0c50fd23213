SPECIFICATION MCSpec
CONSTANTS
  Setups <- MCSetups
  Parts <- MCParts
  MaxParts <- MCMaxParts
  MayFollow <- MCMayFollow
  ReadsBytes <- MCReadsBytes
  ReadsLimbs <- MCReadsLimbs
  ReadsDigits <- MCReadsDigits
  ReadsKey <- MCReadsKey
  ReadsOtb <- MCReadsOtb
  ReadsTree <- MCReadsTree
  ReadsMap <- MCReadsMap
  ReadsTokens <- MCReadsTokens
  ReadsItems <- MCReadsItems
  ByteBase = 8
  ADLER32_BASE = 61
  ADLER32_NMAX = 26
  delta = 2489
  decode_sum = 1824
  Fields <- MCFields
  MaxFields = 3
  MaxLen = 6
  BufferSize = 62
  Keys <- MCKeys
  Changes = {7}
  WORLD_INFO = 1
  WORLD_SPARSE_DATA = 2
  FileElements <- MCElements
  MaxElements = 3
  FieldValues = {0, 3, 4, 5}
INVARIANTS
  FieldsAsWritten
  MessagesSurviveWrap
  ChecksumExact
  NumbersExact
  RsaRoundTrip
  OtbAsWritten
  ElementsAsWritten
  TokensAsWritten
  ItemsAsWritten
  WorldAsWritten
CHECK_DEADLOCK FALSE
