\* NewTestNet and two AddDetails, requests of up to 2 nodes and lists of
\* one entry, first images array of capacity up to 2, lists encoded as
\* null when nil.
CONSTANTS
  i1 = i1
  i2 = i2
  fa = fa
  fb = fb
  Img <- MCImg
  FileKeys <- MCFileKeys
  EmptyImage = EmptyImage
  NilSlice = NilSlice
  MaxNodes = 2
  MaxLen = 1
  MaxCap = 2
  MaxAddDetails = 2
  OmitEmpty = FALSE
SPECIFICATION Spec
\* The testnet takes no more deployments after MaxAddDetails.
CHECK_DEADLOCK FALSE
INVARIANT DetailsUnchanged
