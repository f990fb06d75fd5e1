\* Mutes, standby and unloading, with messages cut in two, lockouts, resets and RTTY.
SPECIFICATION Spec
CONSTANTS
  Freqs = {1}
  Levels = {1}
  MaxLine = 2
  Ops = {"Standby", "Mode", "Mute", "Unload", "Lockout", "Reset", "Split"}
INVARIANTS UnloadedIsOff MutesRestored
