SPECIFICATION FairSpec
CONSTANTS
  ItemsMaxSize = 4
  LastDescriptor = 4
  Workers = {w1}
  MaxArrivals = 3
  MaxJobs = 1
CHECK_DEADLOCK FALSE
INVARIANTS
  TypeOK
  TableAgrees
  NoStaleEvent
  NoLostWakeup
PROPERTIES
  EventsServed
  SigtermStops
