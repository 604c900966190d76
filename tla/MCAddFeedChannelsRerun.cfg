\* spec 8 idempotency: a second run must never double-pin.
CONSTANTS
  New <- MCNew
  Pinned <- MCPinned
  Placeholder <- MCPlaceholder
  BotsNames <- MCBotsNames
  InitChannels <- MCInitChannels
  ServerRoles <- MCServerRoles
  FirstId = 7
  GuildId = 0
  NoId = NoId
  MaxRuns = 3
  MaxFail = 3
SPECIFICATION Spec
CHECK_DEADLOCK FALSE
INVARIANTS
  NoDoublePin
