SPECIFICATION FairSetupSpec

CONSTANTS
  Paths <- MCPaths
  BuiltInPaths <- MCBuiltInPaths
  Configs <- MCConfigs
  Workers = {w1, w2}
  MainThread = main
  NoHandler = nohandler
  Idle = idle

INVARIANTS
  SetupTypeOK
  HandlersUsable
  ServesAsConfigured
  HandlersAsConfigured

PROPERTIES
  ImplementsHandlerRegistry
  ShutDownEnds

\* A server that is gone stays so, and an application need not call run.
CHECK_DEADLOCK FALSE
