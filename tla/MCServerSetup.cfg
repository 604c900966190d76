\* Clean catalog: the full engine runs to completion and pins messages.
CONSTANTS
  Roles <- MCRoles
  Structure <- MCStructure
  PinnedChans <- MCPinnedChans
  Pinned <- MCPinned
  RolePerms <- MCRolePerms
  Placeholder <- MCCleanPlaceholder
  DefaultChannels <- MCDefaultChannels
  FirstId = 3
  GuildId = 0
  NoId = NoId
  DryRunId = DryRunId
  MaxRuns = 2
  MaxFail = 2
SPECIFICATION Spec
CHECK_DEADLOCK FALSE
INVARIANTS
  TypeOK
  ChannelsFullyProtected
  Reconciled
  RoleHierarchy
  PinsComplete
  TeamOnlyPrivate
  UnverifiedConfined
  
