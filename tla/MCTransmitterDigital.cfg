\* FT8, FT4 and RTTY: mode, message and offset changed on the air, and the lockout.
CONSTANTS
  err = err
  cq8 = cq8
  tune8 = tune8
  cq4 = cq4
  none = none
  FT8Messages = {err, cq8}
  FT4Messages = {cq4}
  TuneMessages = {}
  FT8TxMsgErr = err
  NoSymbols = none
  DFs = {0, 1}
  SymbolCount <- MCSymbolCount
  ToneTicks <- MCToneTicks
  SyncTicks <- MCSyncTicks
  KillTicks <- MCKillTicks
  TruncTicks <- MCTruncTicks
  TxDelay <- MCTxDelay
  BufferSize = 5
  TXholdTime = 1
  EndTimes <- MCEndTimesModes
  MaxElapsed = 8
  Ops = {"U", "X", "W", "Y", "Z", "M", "Trip"}
SPECIFICATION Spec
INVARIANTS TypeOK NoMixedMessage
PROPERTIES LockoutHolds 
