\* Three statuses on two bands and in two modes, restored to SplitFT8, the server waiting not at all.
SPECIFICATION FairSpec
CONSTANTS
  Statuses <- TwoBands
  MaxSleeps = 0
  StartFreq = 3
  StartSplit = "FT8"
  NoMsg = "none"
  Ops = {}
INVARIANTS TransmitsStatus OnDial 
  
