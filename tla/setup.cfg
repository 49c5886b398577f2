CONSTANTS
  None = None
  Unreadable = Unreadable
  Home <- MCHome
  Worlds <- MCWorlds
  MaxDepth = 1
  MaxResults = 1
  SkipDirs = {"dist"}
  Names = {"a", "b", "2c"}
  BadNames = {"2c"}
  Namespaces = {"a", "b"}
SPECIFICATION Spec
CHECK_DEADLOCK FALSE
INVARIANTS InitializedIsComplete WorkspaceIntact EnvironmentAsPicked RecoveryStarts
