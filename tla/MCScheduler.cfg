SPECIFICATION FairSpec
CONSTANTS
  Service <- MCService
  MaxCrashes = 2
INVARIANT TypeOK
PROPERTIES
  NoOverlap
  GracefulStop
  SignalStops
  TicksGoOn
