\* FT8 and FT4 begun on time, late, very late and too late, and changed once.
SPECIFICATION Spec
CONSTANTS
  Starts = {0, 990, 2180, 5200}
  FT8txDelay = 250
  MaxLatency = 100
  Latencies = {20, 100}
  Passes <- LongPasses
  Tunes = {FALSE}
  CommandTones = {0, 50, 78, 104}
  MaxCommands = 1
  MaxTones = 200
INVARIANTS HeardInTone EndsInPeriod
