CONSTANTS
  Chans <- MCChans
  Listings <- MCListings
  NameOf <- MCNameOf
  OldAnn = OldAnn
  NewAnn = NewAnn
  EnvLines <- MCGoodEnv
  MaxEnvLines = 4
  Limit = 2
  FirstId = 1
  NoId = NoId
  TelegramMayFail = TRUE
  KillMayTruncate = FALSE
  Corrupt = Corrupt
  MaxMsgs = 3
  MaxFail = 1
SPECIFICATION Spec
CHECK_DEADLOCK FALSE
INVARIANT
  CheckpointSound
