SPECIFICATION Spec
CONSTANTS
  Process = {p1}
  Package <- Packages
  PathDependencies <- MCPathDependencies
  NamedDependencies <- MCNamedDependencies
  Unbuilt = {"text"}
  Torn = Torn
  MaxCommands = 3
  MaxFaults = 1
INVARIANTS
  TypeOK
  RegisteredIsInstalled
  InstalledIsRegistered
  DependenciesInstalled
PROPERTIES
  CommandsReturn
CHECK_DEADLOCK FALSE
