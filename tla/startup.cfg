SPECIFICATION StartupFairSpec
CONSTANTS
  old = old
  new = new
  broken = broken
  Instances = {old, new, broken}
  head <- MChead
  Configured = {old, new}
  NoInstance = NoInstance
  MaxFaults = 2
INVARIANTS
  SeedsAreGenuine
  BehindOnlyForCause
PROPERTIES
  EveryStartServes
