\* One bridged channel, Telegram accepts every send; Discord calls may fail,
\* a poll may throw and the process may be killed while it writes the
\* checkpoint file.  Limit 2 with 4 messages (one to create a checkpoint,
\* three tracked) reaches a page that does not hold them all.
CONSTANTS
  Chans <- MCOneChan
  Listings <- MCOneListing
  NameOf <- MCNameOf
  OldAnn = OldAnn
  NewAnn = NewAnn
  EnvLines <- MCEnvLines
  MaxEnvLines = 4
  Limit = 2
  FirstId = 1
  NoId = NoId
  TelegramMayFail = FALSE
  KillMayTruncate = TRUE
  Corrupt = Corrupt
  MaxMsgs = 4
  MaxFail = 2
SPECIFICATION Spec
CHECK_DEADLOCK FALSE
INVARIANTS
  TypeOK
  ForwardedTwiceOnlyAfterInterruption
PROPERTIES
  EventuallyForwarded
