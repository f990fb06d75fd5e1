\* A text and a Tune, with the split button, tuning by hand and RTTY in between.
SPECIFICATION Spec
CONSTANTS
  Statuses <- OneBand
  MaxSleeps = 1
  StartFreq = 3
  StartSplit = "None"
  NoMsg = "none"
  Ops = {"UnSplit", "Tune", "RTTY"}
INVARIANTS TransmitsStatus
