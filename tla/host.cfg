SPECIFICATION HostLiveSpec
CONSTANTS
  Members <- Workspace
  Kernel = "rpi5_baremetal_hello"
  Faults = {"cargo", "objcopy", "kill"}
  Profiles = {"debug"}
  MaxVersion = 2
  Builds <- Kinds
  ScriptFaults = {"network", "tools", "interrupt", "kill"}
INVARIANTS
  BuiltIsNew
  PassedMeansAll
  OkIsWhole
PROPERTIES
  WholeStays
  Heals
