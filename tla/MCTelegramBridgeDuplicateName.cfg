\* One bridged name carried by two channels, listed in either order; every
\* send succeeds and nothing crashes.
CONSTANTS
  Chans <- MCOneChan
  Listings <- MCDupListings
  NameOf <- MCDupNameOf
  OldAnn = OldAnn
  NewAnn = NewAnn
  EnvLines <- MCGoodEnv
  MaxEnvLines = 4
  Limit = 2
  FirstId = 1
  NoId = NoId
  TelegramMayFail = FALSE
  KillMayTruncate = FALSE
  Corrupt = Corrupt
  MaxMsgs = 3
  MaxFail = 0
SPECIFICATION Spec
CHECK_DEADLOCK FALSE
INVARIANT
  CheckpointSound
