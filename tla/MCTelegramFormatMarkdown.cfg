CONSTANTS
  Chans <- MCChans
  Alphabet <- MCAlphabet
  MaxContent = 8
  TgLimit = 14
  CutMargin = 6
  Marker <- MCMarker
  AnnHeader <- MCAnnHeader
  DevHeader <- MCDevHeader
SPECIFICATION Spec
INVARIANT


  EntitiesBalanced
