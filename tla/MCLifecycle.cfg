SPECIFICATION LiveClusterSpec
CONSTANTS
  MaxSleeps = 2
  MaxSpots = 1
INVARIANTS  FormOutlivesServers
PROPERTIES UnloadEnds
