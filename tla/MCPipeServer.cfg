\* Three commands, one of them too long, and two frequencies.
SPECIFICATION FairSpec
CONSTANTS
  MaxIn = 3
  MaxOut = 2
  Long = {2}
  PipeSize = 1
  MaxLeaked = 1
INVARIANTS ClosedAtExit
PROPERTIES CommandsInOrder FrequenciesInOrder ExitEnds Reconnects FrequenciesArrive
