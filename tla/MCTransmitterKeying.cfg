\* The Morse key and the amplifiers, with digital messages and power commands in between.
CONSTANTS
  err = err
  cq8 = cq8
  tune8 = tune8
  cq4 = cq4
  none = none
  FT8Messages = {err, cq8}
  FT4Messages = {}
  TuneMessages = {}
  FT8TxMsgErr = err
  NoSymbols = none
  DFs = {0}
  SymbolCount <- MCSymbolCount
  ToneTicks <- MCToneTicks
  SyncTicks <- MCSyncTicks
  KillTicks <- MCKillTicks
  TruncTicks <- MCTruncTicks
  TxDelay <- MCTxDelay
  BufferSize = 5
  TXholdTime = 2
  EndTimes = {6}
  MaxElapsed = 8
  Ops = {"D", "U", "L", "Q", "C", "F", "X", "W", "Z", "Key", "Trip"}
SPECIFICATION FairSpec
INVARIANTS PttSequence
PROPERTIES NoHotSwitching  
