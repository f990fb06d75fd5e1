\* Every operation, by one or two at a time, on two threads of SDRuno.
SPECIFICATION FairSpec
CONSTANTS
  Freqs = {10, 20}
  TXupHz = 1
  TXDF = 5
  Revolution = 1
  Handlers = {"h1", "h2"}
  Restored = FALSE
  Ops = {"VRX0", "VRX1", "Split", "TXup", "RXtoTX", "Swap", "Data", "Knob", "RIT", "Restart"}
  MaxMoves = 2
  
PROPERTIES Settles
