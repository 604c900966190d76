\* Three invocations, up to three failed calls or crashes, dry-run or not.
CONSTANTS
  New <- MCNew
  Pinned <- MCPinned
  Placeholder <- MCPlaceholder
  BotsNames <- MCBotsNames
  InitChannels <- MCInitChannels
  ServerRoles <- MCServerRoles
  FirstId = 7
  GuildId = 0
  NoId = NoId
  MaxRuns = 3
  MaxFail = 3
SPECIFICATION Spec
CHECK_DEADLOCK FALSE
INVARIANTS
  TypeOK
  MessagesInPlace
  FeedChannelsUnique
  FeedPinsComplete
