\* A Tune of more than a minute.
SPECIFICATION Spec
CONSTANTS
  Starts = {0}
  FT8txDelay = 250
  MaxLatency = 10
  Latencies = {10}
  Passes <- LongPasses
  Tunes = {TRUE}
  CommandTones = {}
  MaxCommands = 0
  MaxTones = 420
INVARIANTS HeardInTone
