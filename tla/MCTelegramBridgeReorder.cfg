\* Both bridged channels; Telegram may reject a send and a poll may throw,
\* no kills.  Two messages in one channel are enough for a rejected send
\* followed by an accepted one in the same batch.
CONSTANTS
  Chans <- MCChans
  Listings <- MCListings
  NameOf <- MCNameOf
  OldAnn = OldAnn
  NewAnn = NewAnn
  EnvLines <- MCGoodEnv
  MaxEnvLines = 4
  Limit = 2
  FirstId = 1
  NoId = NoId
  TelegramMayFail = TRUE
  KillMayTruncate = FALSE
  Corrupt = Corrupt
  MaxMsgs = 2
  MaxFail = 2
SPECIFICATION Spec
CHECK_DEADLOCK FALSE
INVARIANT
  FirstForwardOrder
