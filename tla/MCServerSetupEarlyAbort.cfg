\* Placeholder catalog: spec 3 says the check precedes any network effect.
CONSTANTS
  Roles <- MCRoles
  Structure <- MCStructure
  PinnedChans <- MCPinnedChans
  Pinned <- MCPinned
  RolePerms <- MCRolePerms
  Placeholder <- MCDirtyPlaceholder
  DefaultChannels <- MCDefaultChannels
  FirstId = 3
  GuildId = 0
  NoId = NoId
  DryRunId = DryRunId
  MaxRuns = 2
  MaxFail = 2
SPECIFICATION Spec
CHECK_DEADLOCK FALSE
INVARIANTS
  ServerUntouchedOnPlaceholder
