\* Frequency, level, amplifier and standby, with resets and a cable that comes and goes.
SPECIFICATION FairSpec
CONSTANTS
  Freqs = {1, 2}
  Levels = {0, 1}
  MaxLine = 2
  Ops = {"Tune", "Level", "QRO", "Standby", "Reset", "Unplug", "Early"}
INVARIANTS TypeOK SettingsTold AmplifierAsTicked StandbyIsOff
PROPERTIES FreqArrives
