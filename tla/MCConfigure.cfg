SPECIFICATION Spec
CONSTANTS
  Vlans = {1, 2}
  Ports = {1}
  PoePorts = {1}
  Hosts = {1, 2}
  Routes = {1, 2}
  Addrs = {1, 2}
  Groups = {1, 2}
  Factory <- MCFactory
  Configs <- MCConfigs
  MaxConfigures = 2
  MaxFaults = 1
  MaxBoots = 1
INVARIANTS
  TypeOK
  AppliedIsRunning
  CacheAgrees
  StartupComplete
  ActiveNamesRunning
  PasswordKept
PROPERTY
  SkippedUntouched
