-------------------------- MODULE TransmitterProofs -------------------------
(***************************************************************************)
(* Proofs about Transmitter, for any symbol counts, durations, limits,     *)
(* delays and message lists.                                               *)
(***************************************************************************)
EXTENDS Transmitter, TLAPS

-----------------------------------------------------------------------------
(* Arithmetic.                                                             *)

(* A quotient times the divisor does not exceed the dividend.              *)
LEMMA QuotientBound ==
  ASSUME NEW a \in Int, NEW b \in Nat \ {0}
  PROVE  a \div b \in Int /\ (a \div b) * b <= a
  BY Z3

(* Multiplying by a natural number keeps the order.                        *)
LEMMA ProductOrder ==
  ASSUME NEW a \in Int, NEW b \in Int, NEW t \in Nat, a <= b
  PROVE  a * t <= b * t
  BY Z3

(* AdjustStart gives an index of the list, its length, or in RTTY mode -1. *)
LEMMA AdjustStartRange ==
  ASSUME NEW mode \in Modes, NEW tone \in Nat \ {0}, NEW left \in Int
  PROVE  /\ AdjustStart(mode, tone, left) \in Int
         /\ AdjustStart(mode, tone, left) >= -1
         /\ mode \in Digital => AdjustStart(mode, tone, left) \in 0 .. SymbolCount[mode]
  <1> DEFINE limits   == IF mode = "FT4" THEN "FT4" ELSE "FT8"
             TimeLeft == left - SyncTicks[limits]
             q        == TimeLeft \div tone
  <1>1. /\ limits \in Digital
        /\ SyncTicks[limits] \in Nat /\ KillTicks[limits] \in Nat
        /\ TruncTicks[limits] \in Nat
    BY TransmitterAssumption DEF Digital
  <1>2. TimeLeft \in Int /\ q \in Int
    BY <1>1, QuotientBound
  <1>3. /\ symbol_count(mode) \in Int /\ symbol_count(mode) >= -1
        /\ mode \in Digital => symbol_count(mode) = SymbolCount[mode] /\ SymbolCount[mode] \in Nat
    BY TransmitterAssumption DEF symbol_count, Modes, Digital
  <1> HIDE DEF limits, TimeLeft, q
  <1>4. AdjustStart(mode, tone, left) =
          IF TimeLeft < KillTicks[limits] THEN symbol_count(mode)
          ELSE IF TimeLeft <= TruncTicks[limits]
            THEN MinOf(IF symbol_count(mode) - q < 0 THEN 0 ELSE symbol_count(mode) - q,
                       symbol_count(mode))
          ELSE 0
    BY DEF AdjustStart, limits, TimeLeft, q
  <1> QED
    BY <1>1, <1>2, <1>3, <1>4 DEF MinOf

(* What AdjustStart leaves of the list fits the time: the tones from there *)
(* to the end, and the part of the period FT4 may not use.                 *)
THEOREM AdjustStartFits ==
  ASSUME NEW mode \in Digital, NEW left \in Int,
         AdjustStart(mode, ToneTicks[mode], left) < SymbolCount[mode]
  PROVE  (SymbolCount[mode] - AdjustStart(mode, ToneTicks[mode], left)) * ToneTicks[mode]
           + SyncTicks[mode] <= left
  <1> DEFINE tone     == ToneTicks[mode]
             count    == SymbolCount[mode]
             start    == AdjustStart(mode, tone, left)
             TimeLeft == left - SyncTicks[mode]
             q        == TimeLeft \div tone
  <1>1. /\ tone \in Nat \ {0} /\ count \in Nat \ {0} /\ SyncTicks[mode] \in Nat
        /\ KillTicks[mode] \in Nat /\ TruncTicks[mode] \in Nat
        /\ count * tone <= TruncTicks[mode] + 1
    BY TransmitterAssumption
  <1>2. TimeLeft \in Int
    BY <1>1
  <1>3. q \in Int /\ q * tone <= TimeLeft
    BY <1>1, <1>2, QuotientBound
  <1>4. symbol_count(mode) = count /\ (IF mode = "FT4" THEN "FT4" ELSE "FT8") = mode
    BY DEF symbol_count, Digital
  <1>5. start = IF TimeLeft < KillTicks[mode] THEN count
                ELSE IF TimeLeft <= TruncTicks[mode]
                  THEN MinOf(IF count - q < 0 THEN 0 ELSE count - q, count)
                ELSE 0
    BY <1>4 DEF AdjustStart
  <1>6. start < count
    OBVIOUS
  <1> HIDE DEF tone, count, start, TimeLeft, q
  <1>7. (count - start) * tone <= TimeLeft
    <2>1. CASE start = 0 /\ TimeLeft > TruncTicks[mode]
      BY <2>1, <1>1, <1>2
    <2>2. CASE ~ (start = 0 /\ TimeLeft > TruncTicks[mode])
      <3>1. start \in Int /\ count - start \in Int /\ count - start <= q
        BY <2>2, <1>1, <1>2, <1>3, <1>5, <1>6 DEF MinOf
      <3>2. (count - start) * tone <= q * tone
        BY <3>1, <1>1, <1>3, ProductOrder
      <3>3. (count - start) * tone \in Int /\ q * tone \in Int
        BY <3>1, <1>1, <1>3
      <3> QED
        BY <3>2, <3>3, <1>2, <1>3
    <2> QED
      BY <2>1, <2>2
  <1>8. start \in Int /\ (count - start) * tone \in Int
    <2>1. start \in Int
      BY <1>1, <1>2, <1>3, <1>5 DEF MinOf
    <2> QED
      BY <2>1, <1>1
  <1>9. (count - start) * tone + SyncTicks[mode] <= left
    BY <1>1, <1>7, <1>8 DEF TimeLeft
  <1> QED
    BY <1>9 DEF count, start, tone
-----------------------------------------------------------------------------
(* Type correctness.                                                       *)

(* What a message starts as, and the record between messages, are runs.    *)
LEMMA RunTyped ==
  ASSUME NamesOK
  PROVE  Run \in Runs /\ Idle \in Runs
  <1>1. /\ tx_buffer \in Messages \union {NoSymbols}
        /\ FTxTxDF \in DFs /\ 0 \in DFs
        /\ (tx_buffer = FTxTxMsg /\ Fits(tx_buffer, TxMode)) \in BOOLEAN
    BY TransmitterAssumption DEF NamesOK, Fits
  <1> QED
    BY <1>1 DEF Run, Idle, Runs

(* setup() leaves every variable within its type.                          *)
LEMMA TypeInit == Init => TypeOK
  <1> SUFFICES ASSUME Init PROVE TypeOK
    OBVIOUS
  <1>1. PinsOK
    BY DEF Init, PinsOK
  <1>2. SwitchesOK
    BY DEF Init, SwitchesOK
  <1>3. MarksOK
    BY DEF Init, MarksOK
  <1>4. CountersOK
    BY TransmitterAssumption DEF Init, CountersOK, NotHolding, Digital
  <1>5. NamesOK
    <2>1. run \in Runs
      BY TransmitterAssumption DEF Init, Idle, Runs
    <2> QED
      BY <2>1, TransmitterAssumption
      DEF Init, NamesOK, InLoop, Modes, Digital, Messages
  <1> QED
    BY <1>1, <1>2, <1>3, <1>4, <1>5 DEF TypeOK

(* The pins, the key and the mute are Booleans after every step of the     *)
(* firmware; no command touches them.                                      *)
LEMMA PinsTyped ==
  ASSUME PinsOK, [Next]_vars
  PROVE  PinsOK'
  <1> USE DEF PinsOK, pins, amplifier, keying, switch, request, change, locals,
          observers
  <1>1. CASE SwitchToTx
    BY <1>1 DEF SwitchToTx
  <1>2. CASE AlreadyTx
    BY <1>2 DEF AlreadyTx
  <1>3. CASE DelayOver
    BY <1>3 DEF DelayOver
  <1>4. CASE KeyDown
    BY <1>4 DEF KeyDown, ResetHold
  <1>5. CASE KeyDownRtty
    BY <1>5 DEF KeyDownRtty
  <1>6. CASE KeyDownDigital
    BY <1>6 DEF KeyDownDigital
  <1>7. CASE KeyUp
    BY <1>7 DEF KeyUp, StartHold
  <1>8. CASE SwitchToRx
    BY <1>8 DEF SwitchToRx, ResetHold
  <1>9. CASE StartTone
    BY <1>9 DEF StartTone
  <1>10. CASE NoMoreTones
    BY <1>10 DEF NoMoreTones, EndMessage, ResetHold
  <1>11. CASE ToneOver
    BY <1>11 DEF ToneOver, NextTone
  <1>12. CASE TimeUp
    BY <1>12 DEF TimeUp, EndMessage, ResetHold
  <1>13. CASE Restart
    BY <1>13 DEF Restart, EndMessage, NextTone, ResetHold
  <1>14. CASE RttyBit
    BY <1>14 DEF RttyBit
  <1>15. CASE RttyEnd
    BY <1>15 DEF RttyEnd, EndMessage, ResetHold
  <1>16. CASE SerialDone
    BY <1>16 DEF SerialDone
  <1>17. CASE Measurement
    BY <1>17 DEF Measurement, Measure, DelayTick, ToneTick, Background, RttyService
  <1>18. CASE SerialCommand
    BY <1>18 DEF SerialCommand, Command, PowerDownCommand, PowerUpCommand,
        CalibrationCommand, FrequencyCommand, LevelCommand, ExtPACommand,
        DigiCommand, ModeCommand, EndTimeCommand, OffsetCommand, MessageCommand
  <1>19. CASE MoveKey
    BY <1>19 DEF MoveKey
  <1>20. CASE UNCHANGED vars
    BY <1>20 DEF vars
  <1> QED
    BY <1>1, <1>2, <1>3, <1>4, <1>5, <1>6, <1>7, <1>8, <1>9, <1>10, <1>11,
        <1>12, <1>13, <1>14, <1>15, <1>16, <1>17, <1>18, <1>19, <1>20 DEF Next,
        Firmware

(* Every step keeps the switches that the commands set Boolean.            *)
LEMMA SwitchesTyped ==
  ASSUME SwitchesOK, [Next]_vars
  PROVE  SwitchesOK'
  <1> USE DEF SwitchesOK, pins, amplifier, keying, switch, request, change,
          locals, observers
  <1>1. CASE SwitchToTx
    BY <1>1 DEF SwitchToTx
  <1>2. CASE AlreadyTx
    BY <1>2 DEF AlreadyTx
  <1>3. CASE DelayOver
    BY <1>3 DEF DelayOver
  <1>4. CASE KeyDown
    BY <1>4 DEF KeyDown, ResetHold
  <1>5. CASE KeyDownRtty
    BY <1>5 DEF KeyDownRtty
  <1>6. CASE KeyDownDigital
    BY <1>6 DEF KeyDownDigital
  <1>7. CASE KeyUp
    BY <1>7 DEF KeyUp, StartHold
  <1>8. CASE SwitchToRx
    BY <1>8 DEF SwitchToRx, ResetHold
  <1>9. CASE StartTone
    BY <1>9 DEF StartTone
  <1>10. CASE NoMoreTones
    BY <1>10 DEF NoMoreTones, EndMessage, ResetHold
  <1>11. CASE ToneOver
    BY <1>11 DEF ToneOver, NextTone
  <1>12. CASE TimeUp
    BY <1>12 DEF TimeUp, EndMessage, ResetHold
  <1>13. CASE Restart
    BY <1>13 DEF Restart, EndMessage, NextTone, ResetHold
  <1>14. CASE RttyBit
    BY <1>14 DEF RttyBit
  <1>15. CASE RttyEnd
    BY <1>15 DEF RttyEnd, EndMessage, ResetHold
  <1>16. CASE SerialDone
    BY <1>16 DEF SerialDone
  <1>17. CASE Measurement
    BY <1>17 DEF Measurement, Measure, DelayTick, ToneTick, Background, RttyService
  <1>18. CASE SerialCommand
    <2>1. CASE PowerDownCommand
      BY <2>1 DEF Command, PowerDownCommand
    <2>2. CASE PowerUpCommand
      BY <2>2 DEF Command, PowerUpCommand
    <2>3. CASE CalibrationCommand
      BY <2>3 DEF Command, CalibrationCommand
    <2>4. CASE FrequencyCommand
      BY <2>4 DEF Command, FrequencyCommand
    <2>5. ASSUME NEW level \in {-1, 0, 1}, LevelCommand(level) PROVE SwitchesOK'
      BY <2>5 DEF Command, LevelCommand
    <2>6. ASSUME NEW on \in BOOLEAN, ExtPACommand(on) PROVE SwitchesOK'
      BY <2>6 DEF Command, ExtPACommand
    <2>7. ASSUME NEW on \in BOOLEAN, DigiCommand(on) PROVE SwitchesOK'
      BY <2>7 DEF Command, DigiCommand
    <2>8. ASSUME NEW mode \in Modes, ModeCommand(mode) PROVE SwitchesOK'
      BY <2>8 DEF Command, ModeCommand
    <2>9. ASSUME NEW t \in EndTimes, EndTimeCommand(t) PROVE SwitchesOK'
      BY <2>9 DEF Command, EndTimeCommand
    <2>10. ASSUME NEW df \in DFs, OffsetCommand(df) PROVE SwitchesOK'
      BY <2>10 DEF Command, OffsetCommand
    <2>11. ASSUME NEW msg \in Messages, MessageCommand(msg) PROVE SwitchesOK'
      BY <2>11 DEF Command, MessageCommand
    <2> QED
      BY <1>18, <2>1, <2>2, <2>3, <2>4, <2>5, <2>6, <2>7, <2>8, <2>9, <2>10,
          <2>11 DEF SerialCommand
  <1>19. CASE MoveKey
    BY <1>19 DEF MoveKey
  <1>20. CASE UNCHANGED vars
    BY <1>20 DEF vars
  <1> QED
    BY <1>1, <1>2, <1>3, <1>4, <1>5, <1>6, <1>7, <1>8, <1>9, <1>10, <1>11,
        <1>12, <1>13, <1>14, <1>15, <1>16, <1>17, <1>18, <1>19, <1>20 DEF Next,
        Firmware

(* Every step keeps the Tune and change marks and the observers Boolean.   *)
LEMMA MarksTyped ==
  ASSUME MarksOK, [Next]_vars
  PROVE  MarksOK'
  <1> USE DEF MarksOK, pins, amplifier, keying, switch, request, change, locals,
          observers
  <1>1. CASE SwitchToTx
    BY <1>1 DEF SwitchToTx
  <1>2. CASE AlreadyTx
    BY <1>2 DEF AlreadyTx
  <1>3. CASE DelayOver
    BY <1>3 DEF DelayOver
  <1>4. CASE KeyDown
    BY <1>4 DEF KeyDown, ResetHold
  <1>5. CASE KeyDownRtty
    BY <1>5 DEF KeyDownRtty
  <1>6. CASE KeyDownDigital
    BY <1>6 DEF KeyDownDigital
  <1>7. CASE KeyUp
    BY <1>7 DEF KeyUp, StartHold
  <1>8. CASE SwitchToRx
    BY <1>8 DEF SwitchToRx, ResetHold
  <1>9. CASE StartTone
    BY <1>9 DEF StartTone
  <1>10. CASE NoMoreTones
    BY <1>10 DEF NoMoreTones, EndMessage, ResetHold
  <1>11. CASE ToneOver
    BY <1>11 DEF ToneOver, NextTone
  <1>12. CASE TimeUp
    BY <1>12 DEF TimeUp, EndMessage, ResetHold
  <1>13. CASE Restart
    BY <1>13 DEF Restart, EndMessage, NextTone, ResetHold
  <1>14. CASE RttyBit
    BY <1>14 DEF RttyBit
  <1>15. CASE RttyEnd
    BY <1>15 DEF RttyEnd, EndMessage, ResetHold
  <1>16. CASE SerialDone
    BY <1>16 DEF SerialDone
  <1>17. CASE Measurement
    BY <1>17 DEF Measurement, Measure, DelayTick, ToneTick, Background, RttyService
  <1>18. CASE SerialCommand
    <2>1. CASE PowerDownCommand
      BY <2>1 DEF Command, PowerDownCommand
    <2>2. CASE PowerUpCommand
      BY <2>2 DEF Command, PowerUpCommand
    <2>3. CASE CalibrationCommand
      BY <2>3 DEF Command, CalibrationCommand
    <2>4. CASE FrequencyCommand
      BY <2>4 DEF Command, FrequencyCommand
    <2>5. ASSUME NEW level \in {-1, 0, 1}, LevelCommand(level) PROVE MarksOK'
      BY <2>5 DEF Command, LevelCommand
    <2>6. ASSUME NEW on \in BOOLEAN, ExtPACommand(on) PROVE MarksOK'
      BY <2>6 DEF Command, ExtPACommand
    <2>7. ASSUME NEW on \in BOOLEAN, DigiCommand(on) PROVE MarksOK'
      BY <2>7 DEF Command, DigiCommand
    <2>8. ASSUME NEW mode \in Modes, ModeCommand(mode) PROVE MarksOK'
      BY <2>8 DEF Command, ModeCommand
    <2>9. ASSUME NEW t \in EndTimes, EndTimeCommand(t) PROVE MarksOK'
      BY <2>9 DEF Command, EndTimeCommand
    <2>10. ASSUME NEW df \in DFs, OffsetCommand(df) PROVE MarksOK'
      BY <2>10 DEF Command, OffsetCommand
    <2>11. ASSUME NEW msg \in Messages, MessageCommand(msg) PROVE MarksOK'
      <3>1. Tune' \in BOOLEAN
        BY <2>11 DEF MessageCommand
      <3>2. FTxTxMsgChanged' \in BOOLEAN
        BY <2>11 DEF MessageCommand
      <3>3. locked' \in BOOLEAN
        BY <2>11 DEF Command, MessageCommand
      <3> QED
        BY <3>1, <3>2, <3>3
    <2> QED
      BY <1>18, <2>1, <2>2, <2>3, <2>4, <2>5, <2>6, <2>7, <2>8, <2>9, <2>10,
          <2>11 DEF SerialCommand
  <1>19. CASE MoveKey
    BY <1>19 DEF MoveKey
  <1>20. CASE UNCHANGED vars
    BY <1>20 DEF vars
  <1> QED
    BY <1>1, <1>2, <1>3, <1>4, <1>5, <1>6, <1>7, <1>8, <1>9, <1>10, <1>11,
        <1>12, <1>13, <1>14, <1>15, <1>16, <1>17, <1>18, <1>19, <1>20 DEF Next,
        Firmware

(* The loop counter, the tone count and the clock after a tone.            *)
LEMMA NextToneTyped ==
  ASSUME CountersOK, NEW k \in Int, k >= -1, NEW c \in Int, NEW t \in Int,
         NextTone(k, c, t)
  PROVE  i' \in Nat /\ n' \in Int /\ elapsed' \in Int
  <1>1. BufferSize \in Nat /\ MaxElapsed \in Nat /\ tone_duration \in Nat
    BY TransmitterAssumption DEF CountersOK
  <1>2. i' \in Nat
    BY <1>1 DEF NextTone, MinOf
  <1>3. n' \in Int /\ elapsed' \in Int
    BY <1>1 DEF NextTone, MinOf
  <1> QED
    BY <1>2, <1>3

(* Every step keeps the loop counter natural and the timers in range, the  *)
(* length of tones given by {M} and the start given by AdjustStart.        *)
LEMMA CountersTyped ==
  ASSUME CountersOK, NamesOK, [Next]_vars
  PROVE  CountersOK'
  <1> USE DEF CountersOK, pins, amplifier, keying, switch, request, change,
          locals, observers
  <1>a. TXholdTime \in Nat /\ LastKeyUp \in Int
    BY TransmitterAssumption DEF NotHolding
  <1>b. TxMode \in Digital => AdjustStart(TxMode, tone_duration, FTxMillisToEnd) \in Nat
    BY AdjustStartRange, TransmitterAssumption DEF NamesOK, Modes
  <1>c. TxDelay[TxMode] \in Nat
    BY TransmitterAssumption DEF NamesOK
  <1>1. CASE SwitchToTx
    <2>1. delayLeft' \in Nat
      BY <1>1, <1>c DEF SwitchToTx
    <2>2. UNCHANGED <<TXlevel, LastKeyUp, FTxMillisToEnd, tone_duration, i, n, elapsed>>
      BY <1>1 DEF SwitchToTx
    <2> QED
      BY <2>1, <2>2
  <1>2. CASE AlreadyTx
    BY <1>2 DEF AlreadyTx
  <1>3. CASE DelayOver
    BY <1>3 DEF DelayOver
  <1>4. CASE KeyDown
    BY <1>4, <1>a DEF KeyDown, ResetHold, NotHolding
  <1>5. CASE KeyDownRtty
    BY <1>5 DEF KeyDownRtty
  <1>6. CASE KeyDownDigital
    BY <1>6, <1>b DEF KeyDownDigital, NamesOK, Modes
  <1>7. CASE KeyUp
    BY <1>7, <1>a DEF KeyUp, StartHold, NotHolding
  <1>8. CASE SwitchToRx
    BY <1>8, <1>a DEF SwitchToRx, ResetHold, NotHolding
  <1>9. CASE StartTone
    BY <1>9 DEF StartTone
  <1>10. CASE NoMoreTones
    BY <1>10, <1>a DEF NoMoreTones, EndMessage, ResetHold, NotHolding
  <1>11. CASE ToneOver
    <2>1. NextTone(i, n, elapsed) /\ i \in Int /\ i >= -1 /\ n \in Int /\ elapsed \in Int
      BY <1>11 DEF ToneOver
    <2>2. i' \in Nat /\ n' \in Int /\ elapsed' \in Int
      <3> HIDE DEF CountersOK
      <3> QED
        BY <2>1, NextToneTyped
    <2> QED
      BY <1>11, <2>2 DEF ToneOver, NextTone
  <1>12. CASE TimeUp
    BY <1>12, <1>a DEF TimeUp, EndMessage, ResetHold, NotHolding
  <1>13. CASE Restart
    <2> DEFINE left  == FTxMillisToEnd - elapsed
               start == AdjustStart(TxMode, tone_duration, left)
    <2>1. left \in Int /\ start \in Int /\ start >= -1
      BY AdjustStartRange DEF NamesOK
    <2> HIDE DEF left, start
    <2>2. CASE EndMessage
      BY <1>13, <2>1, <2>2, <1>a DEF Restart, EndMessage, ResetHold, NotHolding, left
    <2>3. CASE NextTone(start, -1, 0)
      <3>1. i' \in Nat /\ n' \in Int /\ elapsed' \in Int
        <4> HIDE DEF CountersOK
        <4> QED
          BY <2>1, <2>3, NextToneTyped
      <3> QED
        BY <1>13, <2>1, <2>3, <3>1 DEF Restart, NextTone, left
    <2> QED
      BY <1>13, <2>2, <2>3 DEF Restart, left, start
  <1>14. CASE RttyBit
    BY <1>14 DEF RttyBit
  <1>15. CASE RttyEnd
    BY <1>15, <1>a DEF RttyEnd, EndMessage, ResetHold, NotHolding
  <1>16. CASE SerialDone
    BY <1>16 DEF SerialDone
  <1>17. CASE Measurement
    <2>1. /\ UNCHANGED <<TXlevel, tone_duration, i, n>>
          /\ LastKeyUp' \in NotHolding .. TXholdTime + 1
          /\ delayLeft' \in Nat /\ elapsed' \in Int
      BY <1>17, <1>a
      DEF Measurement, Measure, DelayTick, ToneTick, Background, RttyService, MinOf,
          NotHolding
    <2>2. FTxMillisToEnd' \in Int
      BY <1>17
      DEF Measurement, Measure, DelayTick, ToneTick, Background, RttyService
    <2> QED
      BY <2>1, <2>2
  <1>18. CASE SerialCommand
    <2>1. CASE PowerDownCommand
      BY <2>1 DEF Command, PowerDownCommand
    <2>2. CASE PowerUpCommand
      BY <2>2 DEF Command, PowerUpCommand
    <2>3. CASE CalibrationCommand
      BY <2>3 DEF Command, CalibrationCommand
    <2>4. CASE FrequencyCommand
      BY <2>4 DEF Command, FrequencyCommand
    <2>5. ASSUME NEW level \in {-1, 0, 1}, LevelCommand(level) PROVE CountersOK'
      BY <2>5 DEF Command, LevelCommand
    <2>6. ASSUME NEW on \in BOOLEAN, ExtPACommand(on) PROVE CountersOK'
      BY <2>6 DEF Command, ExtPACommand
    <2>7. ASSUME NEW on \in BOOLEAN, DigiCommand(on) PROVE CountersOK'
      BY <2>7 DEF Command, DigiCommand
    <2>8. ASSUME NEW mode \in Modes, ModeCommand(mode) PROVE CountersOK'
      BY <2>8, TransmitterAssumption DEF Command, ModeCommand, Modes, Digital
    <2>9. ASSUME NEW t \in EndTimes, EndTimeCommand(t) PROVE CountersOK'
      BY <2>9, TransmitterAssumption DEF Command, EndTimeCommand
    <2>10. ASSUME NEW df \in DFs, OffsetCommand(df) PROVE CountersOK'
      BY <2>10 DEF Command, OffsetCommand
    <2>11. ASSUME NEW msg \in Messages, MessageCommand(msg) PROVE CountersOK'
      BY <2>11 DEF Command, MessageCommand
    <2> QED
      BY <1>18, <2>1, <2>2, <2>3, <2>4, <2>5, <2>6, <2>7, <2>8, <2>9, <2>10,
          <2>11 DEF SerialCommand
  <1>19. CASE MoveKey
    BY <1>19 DEF MoveKey
  <1>20. CASE UNCHANGED vars
    BY <1>20 DEF vars
  <1> QED
    BY <1>1, <1>2, <1>3, <1>4, <1>5, <1>6, <1>7, <1>8, <1>9, <1>10, <1>11,
        <1>12, <1>13, <1>14, <1>15, <1>16, <1>17, <1>18, <1>19, <1>20 DEF Next,
        Firmware

(* Every step leads to a place in the program, and {M}, {Y} and {Z} set a  *)
(* mode, an offset and a message that exist.                               *)
LEMMA NamesTyped ==
  ASSUME NamesOK, [Next]_vars
  PROVE  NamesOK'
  <1> USE DEF NamesOK, InLoop, InDelay, InMessage, InRtty, pins, amplifier,
          keying, switch, request, change, locals, observers
  <1>a. Run \in Runs /\ Idle \in Runs
    BY RunTyped
  <1>1. CASE SwitchToTx
    BY <1>1 DEF SwitchToTx
  <1>2. CASE AlreadyTx
    BY <1>2 DEF AlreadyTx
  <1>3. CASE DelayOver
    BY <1>3 DEF DelayOver
  <1>4. CASE KeyDown
    BY <1>4 DEF KeyDown, ResetHold
  <1>5. CASE KeyDownRtty
    BY <1>5 DEF KeyDownRtty
  <1>6. CASE KeyDownDigital
    BY <1>6, <1>a DEF KeyDownDigital
  <1>7. CASE KeyUp
    BY <1>7 DEF KeyUp, StartHold
  <1>8. CASE SwitchToRx
    BY <1>8 DEF SwitchToRx, ResetHold
  <1>9. CASE StartTone
    BY <1>9 DEF StartTone
  <1>10. CASE NoMoreTones
    BY <1>10, <1>a DEF NoMoreTones, EndMessage, ResetHold
  <1>11. CASE ToneOver
    BY <1>11 DEF ToneOver, NextTone
  <1>12. CASE TimeUp
    BY <1>12, <1>a DEF TimeUp, EndMessage, ResetHold
  <1>13. CASE Restart
    BY <1>13, <1>a DEF Restart, EndMessage, NextTone, ResetHold
  <1>14. CASE RttyBit
    BY <1>14 DEF RttyBit
  <1>15. CASE RttyEnd
    BY <1>15, <1>a DEF RttyEnd, EndMessage, ResetHold
  <1>16. CASE SerialDone
    BY <1>16 DEF SerialDone
  <1>17. CASE Measurement
    BY <1>17 DEF Measurement, Measure, DelayTick, ToneTick, Background, RttyService
  <1>18. CASE SerialCommand
    <2>1. CASE PowerDownCommand
      BY <2>1 DEF Command, PowerDownCommand
    <2>2. CASE PowerUpCommand
      BY <2>2 DEF Command, PowerUpCommand
    <2>3. CASE CalibrationCommand
      BY <2>3 DEF Command, CalibrationCommand
    <2>4. CASE FrequencyCommand
      BY <2>4 DEF Command, FrequencyCommand
    <2>5. ASSUME NEW level \in {-1, 0, 1}, LevelCommand(level) PROVE NamesOK'
      BY <2>5 DEF Command, LevelCommand
    <2>6. ASSUME NEW on \in BOOLEAN, ExtPACommand(on) PROVE NamesOK'
      BY <2>6 DEF Command, ExtPACommand
    <2>7. ASSUME NEW on \in BOOLEAN, DigiCommand(on) PROVE NamesOK'
      BY <2>7 DEF Command, DigiCommand
    <2>8. ASSUME NEW mode \in Modes, ModeCommand(mode) PROVE NamesOK'
      BY <2>8 DEF Command, ModeCommand, Runs
    <2>9. ASSUME NEW t \in EndTimes, EndTimeCommand(t) PROVE NamesOK'
      BY <2>9 DEF Command, EndTimeCommand
    <2>10. ASSUME NEW df \in DFs, OffsetCommand(df) PROVE NamesOK'
      BY <2>10 DEF Command, OffsetCommand
    <2>11. ASSUME NEW msg \in Messages, MessageCommand(msg) PROVE NamesOK'
      BY <2>11, TransmitterAssumption DEF Command, MessageCommand, Messages
    <2> QED
      BY <1>18, <2>1, <2>2, <2>3, <2>4, <2>5, <2>6, <2>7, <2>8, <2>9, <2>10,
          <2>11 DEF SerialCommand
  <1>19. CASE MoveKey
    BY <1>19 DEF MoveKey
  <1>20. CASE UNCHANGED vars
    BY <1>20 DEF vars
  <1> QED
    BY <1>1, <1>2, <1>3, <1>4, <1>5, <1>6, <1>7, <1>8, <1>9, <1>10, <1>11,
        <1>12, <1>13, <1>14, <1>15, <1>16, <1>17, <1>18, <1>19, <1>20 DEF Next,
        Firmware

(* Every variable keeps its type.                                          *)
THEOREM TypeCorrect == Spec => []TypeOK
  <1>1. TypeOK /\ [Next]_vars => TypeOK'
    BY PinsTyped, SwitchesTyped, MarksTyped, CountersTyped, NamesTyped DEF TypeOK
  <1> QED
    BY <1>1, TypeInit, PTL DEF Spec

-----------------------------------------------------------------------------
(* The order of key, relays and RF.                                        *)

(* PttSequence is inductive along with this: whoever has left loop()'s own *)
(* places has the relays over.                                             *)
PttInv == PttSequence /\ (pc \notin InLoop => KeyDownActive)

(* Every step keeps the order of relays and RF: loop() closes the relays   *)
(* before it keys the RF, and EndMessage clears the key-up timer.          *)
LEMMA PttStep ==
  ASSUME PttInv, [Next]_vars
  PROVE  PttInv'
  <1> USE DEF PttInv, PttSequence, InLoop, pins, amplifier, keying, switch,
          request, change, locals, observers
  <1>1. CASE SwitchToTx
    BY <1>1 DEF SwitchToTx
  <1>2. CASE AlreadyTx
    BY <1>2 DEF AlreadyTx
  <1>3. CASE DelayOver
    BY <1>3 DEF DelayOver
  <1>4. CASE KeyDown
    BY <1>4 DEF KeyDown, ResetHold
  <1>5. CASE KeyDownRtty
    BY <1>5 DEF KeyDownRtty
  <1>6. CASE KeyDownDigital
    BY <1>6 DEF KeyDownDigital
  <1>7. CASE KeyUp
    BY <1>7 DEF KeyUp, StartHold
  <1>8. CASE SwitchToRx
    BY <1>8 DEF SwitchToRx, ResetHold
  <1>9. CASE StartTone
    BY <1>9 DEF StartTone
  <1>10. CASE NoMoreTones
    BY <1>10 DEF NoMoreTones, EndMessage, ResetHold
  <1>11. CASE ToneOver
    BY <1>11 DEF ToneOver, NextTone
  <1>12. CASE TimeUp
    BY <1>12 DEF TimeUp, EndMessage, ResetHold
  <1>13. CASE Restart
    BY <1>13 DEF Restart, EndMessage, NextTone, ResetHold
  <1>14. CASE RttyBit
    BY <1>14 DEF RttyBit
  <1>15. CASE RttyEnd
    BY <1>15 DEF RttyEnd, EndMessage, ResetHold
  <1>16. CASE SerialDone
    BY <1>16 DEF SerialDone
  <1>17. CASE Measurement
    BY <1>17 DEF Measurement, Measure, DelayTick, ToneTick, Background, RttyService
  <1>18. CASE SerialCommand
    BY <1>18 DEF SerialCommand, Command, PowerDownCommand, PowerUpCommand,
        CalibrationCommand, FrequencyCommand, LevelCommand, ExtPACommand,
        DigiCommand, ModeCommand, EndTimeCommand, OffsetCommand, MessageCommand
  <1>19. CASE MoveKey
    BY <1>19 DEF MoveKey
  <1>20. CASE UNCHANGED vars
    BY <1>20 DEF vars
  <1> QED
    BY <1>1, <1>2, <1>3, <1>4, <1>5, <1>6, <1>7, <1>8, <1>9, <1>10, <1>11,
        <1>12, <1>13, <1>14, <1>15, <1>16, <1>17, <1>18, <1>19, <1>20 DEF Next,
        Firmware

(* RF passes only behind relays that are over, and the hold time runs only *)
(* with the RF off.                                                        *)
THEOREM PttSequenceHolds == Spec => []PttSequence
  <1>1. Init => PttInv
    BY DEF Init, PttInv, PttSequence, InLoop
  <1>2. PttInv /\ [Next]_vars => PttInv'
    BY PttStep
  <1>3. PttInv => PttSequence
    BY DEF PttInv
  <1> QED
    BY <1>1, <1>2, <1>3, PTL DEF Spec

(* A step that moves a relay finds the RF off: SwitchToTx because the      *)
(* relays were open, SwitchToRx because only a hold time gets there.       *)
LEMMA RelaysMoveCold ==
  ASSUME PttInv, [Next]_vars, txOut' # txOut \/ extPAout' # extPAout
  PROVE  ~ keyOut
  <1> USE DEF pins
  <1>1. SwitchToTx \/ SwitchToRx
    <2>1. ASSUME SerialCommand PROVE FALSE
      BY <2>1
      DEF SerialCommand, Command, PowerDownCommand, PowerUpCommand, CalibrationCommand,
          FrequencyCommand, LevelCommand, ExtPACommand, DigiCommand, ModeCommand,
          EndTimeCommand, OffsetCommand, MessageCommand
    <2>2. ASSUME Measurement PROVE FALSE
      BY <2>2 DEF Measurement, Measure, DelayTick, ToneTick, Background, RttyService
    <2>3. ASSUME MoveKey \/ UNCHANGED vars PROVE FALSE
      BY <2>3 DEF MoveKey, vars
    <2>4. ASSUME \/ AlreadyTx \/ DelayOver \/ KeyDown \/ KeyDownRtty \/ KeyDownDigital
                 \/ KeyUp \/ StartTone \/ NoMoreTones \/ ToneOver \/ TimeUp \/ Restart
                 \/ RttyBit \/ RttyEnd \/ SerialDone
          PROVE  FALSE
      BY <2>4
      DEF AlreadyTx, DelayOver, KeyDown, KeyDownRtty, KeyDownDigital, KeyUp, StartTone,
          NoMoreTones, ToneOver, TimeUp, Restart, RttyBit, RttyEnd, SerialDone
    <2> QED
      BY <2>1, <2>2, <2>3, <2>4 DEF Next, Firmware
  <1>2. CASE SwitchToTx
    BY <1>2 DEF SwitchToTx, PttInv, PttSequence
  <1>3. CASE SwitchToRx
    <2>1. pc = "loop" /\ LastKeyUp >= TXholdTime
      BY <1>3 DEF SwitchToRx
    <2>2. LastKeyUp # NotHolding
      BY <2>1, TransmitterAssumption DEF NotHolding
    <2> QED
      BY <2>1, <2>2 DEF PttInv, PttSequence, InLoop
  <1> QED
    BY <1>1, <1>2, <1>3

(* No relay moves while the level shaper passes RF.                        *)
THEOREM NoHotSwitchingHolds == Spec => NoHotSwitching
  <1>1. Init => PttInv
    BY DEF Init, PttInv, PttSequence, InLoop
  <1>2. PttInv /\ [Next]_vars => PttInv'
    BY PttStep
  <1>3. PttInv /\ [Next]_vars => [txOut' # txOut \/ extPAout' # extPAout => ~ keyOut]_vars
    BY RelaysMoveCold
  <1> QED
    BY <1>1, <1>2, <1>3, PTL DEF Spec, NoHotSwitching

-----------------------------------------------------------------------------
(* Messages fit the time {W} gave.                                         *)

(* In the digital modes the tone duration is the mode's.                   *)
ToneOK == TxMode \in Digital => tone_duration = ToneTicks[TxMode]

(* Every step keeps tone_duration that of the mode: {M} sets both.         *)
LEMMA ToneStep ==
  ASSUME ToneOK, NamesOK, [Next]_vars
  PROVE  ToneOK'
  <1> USE DEF ToneOK, request
  <1>1. CASE SerialCommand
    <2>1. ASSUME NEW mode \in Modes, ModeCommand(mode) PROVE ToneOK'
      BY <2>1 DEF ModeCommand, Digital, Modes, NamesOK
    <2>2. CASE ~ \E mode \in Modes : ModeCommand(mode)
      BY <1>1, <2>2
      DEF SerialCommand, PowerDownCommand, PowerUpCommand, CalibrationCommand,
          FrequencyCommand, LevelCommand, ExtPACommand, DigiCommand,
          EndTimeCommand, OffsetCommand, MessageCommand
    <2> QED
      BY <2>1, <2>2
  <1>2. CASE Measurement
    BY <1>2 DEF Measurement, Measure, DelayTick, ToneTick, Background, RttyService
  <1>3. CASE \/ SwitchToTx \/ AlreadyTx \/ DelayOver \/ KeyDown \/ KeyDownRtty
             \/ KeyDownDigital \/ KeyUp \/ SwitchToRx \/ StartTone \/ NoMoreTones
             \/ ToneOver \/ TimeUp \/ Restart \/ RttyBit \/ RttyEnd \/ SerialDone
    BY <1>3
    DEF SwitchToTx, AlreadyTx, DelayOver, KeyDown, KeyDownRtty, KeyDownDigital, KeyUp,
        SwitchToRx, StartTone, NoMoreTones, ToneOver, TimeUp, Restart, RttyBit, RttyEnd,
        SerialDone
  <1>4. CASE MoveKey \/ UNCHANGED vars
    BY <1>4 DEF MoveKey, vars
  <1> QED
    BY <1>1, <1>2, <1>3, <1>4 DEF Next, Firmware

(* What a step from loop() or from the serial port to a tone leaves of the *)
(* message fits the time that is left.                                     *)
LEMMA FitsStep ==
  ASSUME CountersOK, ToneOK, [Next]_vars,
         pc \in {"key", "toneSerial"}, pc' = "tone",
         TxMode \in Digital, ~ Tune, i' < SymbolCount[TxMode]
  PROVE  (SymbolCount[TxMode] - i') * tone_duration + SyncTicks[TxMode] <= FTxMillisToEnd'
  <1> DEFINE count == SymbolCount[TxMode]
             tone  == ToneTicks[TxMode]
             sync  == SyncTicks[TxMode]
  <1>1. /\ count \in Nat /\ tone \in Nat \ {0} /\ sync \in Nat /\ TxMode \in Modes
        /\ count <= BufferSize /\ BufferSize \in Nat
        /\ tone_duration = tone /\ FTxMillisToEnd \in Int /\ elapsed \in Int
    BY TransmitterAssumption DEF ToneOK, CountersOK, Modes
  <1>2. KeyDownDigital \/ Restart
    <2>1. ASSUME SerialCommand PROVE FALSE
      BY <2>1
      DEF SerialCommand, Command, PowerDownCommand, PowerUpCommand, CalibrationCommand,
          FrequencyCommand, LevelCommand, ExtPACommand, DigiCommand, ModeCommand,
          EndTimeCommand, OffsetCommand, MessageCommand
    <2>2. ASSUME Measurement PROVE FALSE
      BY <2>2 DEF Measurement, DelayTick, ToneTick, Background, RttyService
    <2>3. ASSUME MoveKey \/ UNCHANGED vars PROVE FALSE
      BY <2>3 DEF MoveKey, vars
    <2>4. ASSUME \/ SwitchToTx \/ AlreadyTx \/ DelayOver \/ KeyDown \/ KeyDownRtty
                 \/ KeyUp \/ SwitchToRx \/ StartTone \/ NoMoreTones \/ ToneOver
                 \/ TimeUp \/ RttyBit \/ RttyEnd \/ SerialDone
          PROVE  FALSE
      BY <2>4
      DEF SwitchToTx, AlreadyTx, DelayOver, KeyDown, KeyDownRtty, KeyUp, SwitchToRx,
          StartTone, NoMoreTones, ToneOver, TimeUp, RttyBit, RttyEnd, SerialDone
    <2> QED
      BY <2>1, <2>2, <2>3, <2>4 DEF Next, Firmware
  <1>3. CASE KeyDownDigital
    <2>1. /\ i' = AdjustStart(TxMode, tone, FTxMillisToEnd)
          /\ FTxMillisToEnd' = FTxMillisToEnd
      BY <1>1, <1>3 DEF KeyDownDigital, switch
    <2> QED
      BY <1>1, <2>1, AdjustStartFits
  <1>4. CASE Restart
    <2> DEFINE left  == FTxMillisToEnd - elapsed
               start == AdjustStart(TxMode, tone, left)
    <2>1. FTxMillisToEnd' = left /\ NextTone(start, -1, 0)
      BY <1>1, <1>4 DEF Restart, EndMessage
    <2>2. left \in Int /\ start \in Int
      BY <1>1, AdjustStartRange
    <2>3. start < count => (count - start) * tone + sync <= left
      BY <2>2, AdjustStartFits
    <2> HIDE DEF left, start
    <2>4. i' = start + 1
      BY <1>1, <2>1, <2>2 DEF NextTone, MinOf
    <2> HIDE DEF count, tone, sync
    <2>5. (count - i') * tone <= (count - start) * tone
      <3>1. /\ count - i' \in Int /\ count - start \in Int /\ tone \in Nat
            /\ count - i' <= count - start
        BY <1>1, <2>2, <2>4
      <3> QED
        BY <3>1, ProductOrder
    <2>6. /\ start < count /\ (count - i') * tone \in Int
          /\ (count - start) * tone \in Int
      BY <1>1, <2>2, <2>4 DEF count
    <2>7. (count - i') * tone + sync <= left
      BY <1>1, <2>2, <2>3, <2>5, <2>6
    <2> QED
      BY <1>1, <2>1, <2>7 DEF count, sync
  <1> QED
    BY <1>2, <1>3, <1>4

(* What is sent of a message, first or again, fits the time {W} gave.      *)
THEOREM MessageFitsHolds == Spec => MessageFits
  <1> DEFINE Inv == TypeOK /\ ToneOK
  <1>1. Init => Inv
    BY TypeInit DEF Init, ToneOK
  <1>2. Inv /\ [Next]_vars => Inv'
    BY ToneStep, PinsTyped, SwitchesTyped, MarksTyped, CountersTyped, NamesTyped
    DEF TypeOK
  <1>3. Inv /\ [Next]_vars =>
          [/\ pc \in {"key", "toneSerial"}
           /\ pc' = "tone"
           /\ TxMode \in Digital
           /\ ~ Tune
           /\ i' < SymbolCount[TxMode]
           => (SymbolCount[TxMode] - i') * tone_duration + SyncTicks[TxMode]
                <= FTxMillisToEnd']_vars
    BY FitsStep DEF TypeOK
  <1> HIDE DEF Inv
  <1> QED
    BY <1>1, <1>2, <1>3, PTL DEF Spec, MessageFits

-----------------------------------------------------------------------------
(* The message on the air.                                                 *)

(* A tone is begun only when nothing has changed since the run began; and  *)
(* until something does, the list is the one the run began with.           *)
Settled == pc \in {"tone", "wait"} => ~ Changed

OfRun ==
  pc \in InMessage /\ run.fits =>
    /\ run.df = FTxTxLastDF
    /\ ~ FTxTxMsgChanged =>
         tx_buffer = run.msg /\ FTxTxMsg = run.msg /\ Fits(run.msg, TxMode)

Unmixed == Settled /\ OfRun

(* What a step of the firmware that neither begins a run nor comes back    *)
(* from the serial port leaves alone.                                      *)
LEMMA UnmixedKept ==
  ASSUME Unmixed, UNCHANGED <<request, change, run>>,
         pc' \in {"tone", "wait"} => pc \in {"tone", "wait"},
         pc' \in InMessage => pc \in InMessage
  PROVE  Unmixed'
  BY DEF Unmixed, Settled, OfRun, Changed, Fits, request, change, InMessage

(* A run begins with the message and the offset there are.                 *)
LEMMA UnmixedRun ==
  ASSUME run' = Run, UNCHANGED request, FTxTxLastDF' = FTxTxDF, FTxTxMsgChanged' = FALSE
  PROVE  Unmixed'
  <1>1. /\ run'.df = FTxTxDF /\ run'.msg = tx_buffer
        /\ run'.fits => tx_buffer = FTxTxMsg /\ Fits(tx_buffer, TxMode)
    BY DEF Run
  <1> QED
    BY <1>1 DEF Unmixed, Settled, OfRun, Changed, Fits, request

(* Between messages there is no run.                                       *)
LEMMA UnmixedEnd ==
  ASSUME pc' = "background" PROVE Unmixed'
  BY DEF Unmixed, Settled, OfRun, InMessage

(* A command during a tone leaves the run to be begun again, or the list   *)
(* and the offset as they are.                                             *)
LEMMA UnmixedCommand ==
  ASSUME Unmixed, NamesOK, SerialCommand
  PROVE  Unmixed'
  <1> USE DEF Command, switch, request, change, locals
  <1>1. pc' = pc /\ pc' \notin {"tone", "wait"}
    BY DEF SerialCommand, PowerDownCommand, PowerUpCommand, CalibrationCommand,
           FrequencyCommand, LevelCommand, ExtPACommand, DigiCommand, ModeCommand,
           EndTimeCommand, OffsetCommand, MessageCommand, AtSerialPort
  <1>2. Settled'
    BY <1>1 DEF Settled
  <1>3. CASE UNCHANGED <<request, change, run>>
    BY <1>1, <1>3, UnmixedKept DEF InMessage
  <1>4. ASSUME NEW mode \in Modes, ModeCommand(mode) PROVE OfRun'
    <2>1. /\ run' = [run EXCEPT !.fits = @ /\ mode = TxMode] /\ TxMode' = mode
          /\ FTxTxLastDF' = FTxTxLastDF /\ FTxTxMsgChanged' = FTxTxMsgChanged
          /\ tx_buffer' = tx_buffer /\ FTxTxMsg' = FTxTxMsg
      BY <1>4 DEF ModeCommand
    <2>2. run \in Runs
      BY DEF NamesOK
    <2>3. /\ run'.msg = run.msg /\ run'.df = run.df
          /\ run'.fits = (run.fits /\ mode = TxMode)
      BY <2>1, <2>2 DEF Runs
    <2> QED
      BY <1>1, <2>1, <2>3 DEF Unmixed, OfRun
  <1>5. ASSUME NEW df \in DFs, OffsetCommand(df) PROVE OfRun'
    BY <1>1, <1>5 DEF OffsetCommand, Unmixed, OfRun, Fits
  <1>6. ASSUME NEW msg \in Messages, MessageCommand(msg) PROVE OfRun'
    BY <1>1, <1>6 DEF MessageCommand, Unmixed, OfRun, Fits
  <1>7. \/ UNCHANGED <<request, change, run>>
        \/ \E mode \in Modes : ModeCommand(mode)
        \/ \E df \in DFs : OffsetCommand(df)
        \/ \E msg \in Messages : MessageCommand(msg)
    BY DEF SerialCommand, PowerDownCommand, PowerUpCommand, CalibrationCommand,
           FrequencyCommand, LevelCommand, ExtPACommand, DigiCommand, EndTimeCommand
  <1> QED
    BY <1>2, <1>3, <1>4, <1>5, <1>6, <1>7 DEF Unmixed

(* Every step keeps the run's list and offset those of the tones.          *)
LEMMA UnmixedStep ==
  ASSUME Unmixed, NamesOK, [Next]_vars
  PROVE  Unmixed'
  <1> USE DEF InMessage, switch, locals, observers
  <1>1. CASE \/ SwitchToTx \/ AlreadyTx \/ DelayOver \/ KeyDown \/ KeyDownRtty
             \/ KeyUp \/ SwitchToRx \/ StartTone \/ RttyBit
    BY <1>1, UnmixedKept
    DEF SwitchToTx, AlreadyTx, DelayOver, KeyDown, KeyDownRtty, KeyUp, SwitchToRx,
        StartTone, RttyBit
  <1>2. CASE KeyDownDigital
    BY <1>2, UnmixedRun DEF KeyDownDigital
  <1>3. CASE NoMoreTones \/ TimeUp \/ RttyEnd
    BY <1>3, UnmixedEnd DEF NoMoreTones, TimeUp, RttyEnd, EndMessage
  <1>4. CASE ToneOver
    BY <1>4, UnmixedKept DEF ToneOver, NextTone
  <1>5. CASE Restart
    BY <1>5, UnmixedRun, UnmixedEnd DEF Restart, EndMessage
  <1>6. CASE SerialDone
    <2>1. UNCHANGED <<request, change, run>>
      BY <1>6 DEF SerialDone
    <2>2. \/ pc' \notin InMessage
          \/ pc = "toneSerial" /\ pc' = "wait" /\ ~ Changed
      BY <1>6 DEF SerialDone
    <2> QED
      BY <2>1, <2>2 DEF Unmixed, Settled, OfRun, Changed, Fits, request, change
  <1>7. CASE Measurement
    BY <1>7, UnmixedKept
    DEF Measurement, Measure, DelayTick, Background, ToneTick, RttyService
  <1>8. CASE MoveKey \/ UNCHANGED vars
    BY <1>8, UnmixedKept DEF MoveKey, vars
  <1> QED
    BY <1>1, <1>2, <1>3, <1>4, <1>5, <1>6, <1>7, <1>8, UnmixedCommand DEF Next, Firmware

(* No tone goes out of another message, or at another offset, than the one *)
(* the run began with: a change begins a new run before the next tone.     *)
THEOREM NoMixedMessageHolds == Spec => []NoMixedMessage
  <1> DEFINE Inv == TypeOK /\ Unmixed
  <1>1. Init => Inv
    BY TypeInit DEF Init, Unmixed, Settled, OfRun, InMessage
  <1>2. Inv /\ [Next]_vars => Inv'
    BY UnmixedStep, PinsTyped, SwitchesTyped, MarksTyped, CountersTyped, NamesTyped
    DEF TypeOK
  <1>3. Inv => NoMixedMessage
    <2> SUFFICES ASSUME Unmixed, pc = "wait", run.fits
                 PROVE  tx_buffer = run.msg /\ FTxTxDF = run.df
      BY DEF NoMixedMessage
    <2> QED
      BY DEF Unmixed, Settled, OfRun, Changed, InMessage
  <1> HIDE DEF Inv
  <1> QED
    BY <1>1, <1>2, <1>3, PTL DEF Spec

-----------------------------------------------------------------------------
(* The lockout.                                                            *)

(* The tones sent are counted from zero.                                   *)
CountsUp == n \in Nat

(* After a lockout and until the next command, TX and digital messages are *)
(* off, and a message is on its way out: in the tone it is in, or past it, *)
(* with no time left and nothing new.                                      *)
Locked ==
  /\ ~ DigiTxOn /\ ~ TXPowerOn
  /\ pc # "tone"
  /\ pc \in InMessage => FTxMillisToEnd = 0 /\ elapsed \in Nat /\ ~ Changed

LockInv == locked => Locked

(* Every step keeps n a number: the run begun again sets it back to 0.     *)
LEMMA CountStep ==
  ASSUME CountsUp, [Next]_vars
  PROVE  CountsUp'
  <1> USE DEF CountsUp, locals
  <1>1. ASSUME NEW k, NextTone(k, n, elapsed) PROVE n' \in Nat
    BY <1>1, TransmitterAssumption DEF NextTone, MinOf
  <1>2. ASSUME NEW k, NextTone(k, -1, 0) PROVE n' \in Nat
    BY <1>2, TransmitterAssumption DEF NextTone, MinOf
  <1>3. CASE ToneOver
    BY <1>1, <1>3 DEF ToneOver
  <1>4. CASE Restart
    BY <1>2, <1>4 DEF Restart, EndMessage
  <1>5. CASE n' = n \/ n' = 0
    BY <1>5
  <1>6. CASE SerialCommand
    <2>1. n' = n
      BY <1>6
      DEF SerialCommand, Command, PowerDownCommand, PowerUpCommand, CalibrationCommand,
          FrequencyCommand, LevelCommand, ExtPACommand, DigiCommand, ModeCommand,
          EndTimeCommand, OffsetCommand, MessageCommand
    <2> QED
      BY <2>1
  <1>7. CASE Measurement
    <2>1. n' = n
      BY <1>7 DEF Measurement, DelayTick, Background, ToneTick, RttyService
    <2> QED
      BY <2>1
  <1>8. CASE \/ SwitchToTx \/ AlreadyTx \/ DelayOver \/ KeyDown \/ KeyDownRtty
             \/ KeyDownDigital \/ KeyUp \/ SwitchToRx \/ StartTone \/ NoMoreTones
             \/ TimeUp \/ RttyBit \/ RttyEnd \/ SerialDone
    <2>1. n' = n \/ n' = 0
      BY <1>8
      DEF SwitchToTx, AlreadyTx, DelayOver, KeyDown, KeyDownRtty, KeyDownDigital, KeyUp,
          SwitchToRx, StartTone, NoMoreTones, TimeUp, RttyBit, RttyEnd, SerialDone,
          EndMessage
    <2> QED
      BY <2>1
  <1>9. CASE MoveKey \/ UNCHANGED vars
    BY <1>9 DEF MoveKey, vars
  <1> QED
    BY <1>3, <1>4, <1>6, <1>7, <1>8, <1>9 DEF Next, Firmware

(* A tick within a tone is some time after its message began.              *)
LEMMA TickLater ==
  ASSUME CountersOK, CountsUp, InTone >= 0
  PROVE  elapsed + 1 \in Nat
  <1>1. n \in Nat /\ tone_duration \in Nat /\ elapsed \in Int
    BY DEF CountersOK, CountsUp
  <1>2. 0 * tone_duration <= n * tone_duration
    BY <1>1, ProductOrder
  <1>3. n * tone_duration \in Nat
    BY <1>1, <1>2
  <1> QED
    BY <1>1, <1>3 DEF InTone

(* A message that is locked out ends when its tone does.                   *)
LEMMA LockedEnds ==
  ASSUME Locked, pc = "wait"
  PROVE  ~ StillWaiting /\ SwitchedOff(elapsed, FTxMillisToEnd)
  <1>1. FTxMillisToEnd = 0 /\ elapsed \in Nat
    BY DEF Locked, InMessage
  <1>2. ~ StillWaiting /\ Beyond(elapsed, FTxMillisToEnd)
    BY <1>1 DEF StillWaiting, Beyond
  <1> QED
    BY <1>2 DEF SwitchedOff, Locked

(* A measurement may lock out, and leaves a lockout as it is.              *)
LEMMA LockMeasure ==
  ASSUME LockInv, Settled, CountersOK, CountsUp, Measurement
  PROVE  LockInv'
  <1>1. PICK trip \in BOOLEAN :
          DelayTick(trip) \/ Background(trip) \/ ToneTick(trip) \/ RttyService(trip)
    BY DEF Measurement
  <1>2. SUFFICES ASSUME locked' PROVE Locked'
    BY DEF LockInv
  <1>3. Measure(trip)
    BY <1>1 DEF DelayTick, Background, ToneTick, RttyService
  <1>4. trip \/ locked
    BY <1>2, <1>3 DEF Measure
  <1>5. ~ DigiTxOn' /\ ~ TXPowerOn' /\ pc' # "tone"
    <2>1. pc' # "tone"
      BY <1>1 DEF DelayTick, Background, ToneTick, RttyService
    <2> QED
      BY <1>3, <1>4, <2>1 DEF Measure, LockInv, Locked
  <1>6. ASSUME pc' \in InMessage
        PROVE  FTxMillisToEnd' = 0 /\ elapsed' \in Nat /\ ~ Changed'
    <2>1. /\ pc = "wait" /\ InTone >= 0 /\ elapsed' = elapsed + 1
      BY <1>1, <1>6
      DEF DelayTick, Background, ToneTick, RttyService, InMessage, StillWaiting
    <2>2. elapsed' \in Nat
      BY <2>1, TickLater
    <2>3. ~ Changed'
      BY <1>3, <2>1 DEF Settled, Changed, Measure, request, change
    <2>4. FTxMillisToEnd' = 0
      <3>1. locked => FTxMillisToEnd = 0
        BY <2>1 DEF LockInv, Locked, InMessage
      <3> QED
        BY <1>3, <1>4, <3>1 DEF Measure
    <2> QED
      BY <2>2, <2>3, <2>4
  <1> QED
    BY <1>5, <1>6 DEF Locked

(* Every step keeps it: what could power up the DDS or begin another tone  *)
(* is behind a switch, or a change, that a lockout does not leave.         *)
LEMMA LockStep ==
  ASSUME LockInv, Settled, CountersOK, CountsUp, [Next]_vars
  PROVE  LockInv'
  <1> USE DEF LockInv, pins, amplifier, keying, switch, request, change, locals, observers
  <1>1. CASE SerialCommand
    BY <1>1
    DEF SerialCommand, Command, PowerDownCommand, PowerUpCommand, CalibrationCommand,
        FrequencyCommand, LevelCommand, ExtPACommand, DigiCommand, ModeCommand,
        EndTimeCommand, OffsetCommand, MessageCommand
  <1>2. CASE Measurement
    BY <1>2, LockMeasure
  <1>3. CASE \/ SwitchToTx \/ AlreadyTx \/ DelayOver \/ KeyDown \/ KeyDownRtty
             \/ KeyUp \/ SwitchToRx \/ RttyBit
    BY <1>3
    DEF SwitchToTx, AlreadyTx, DelayOver, KeyDown, KeyDownRtty, KeyUp, SwitchToRx,
        RttyBit, Locked, InMessage
  <1>4. CASE KeyDownDigital \/ StartTone
    BY <1>4 DEF KeyDownDigital, StartTone, Locked
  <1>5. CASE NoMoreTones \/ TimeUp \/ RttyEnd
    BY <1>5 DEF NoMoreTones, TimeUp, RttyEnd, EndMessage, Locked, InMessage
  <1>6. CASE ToneOver
    BY <1>6, LockedEnds DEF ToneOver
  <1>7. CASE Restart
    BY <1>7 DEF Restart, Locked, InMessage
  <1>8. CASE SerialDone
    BY <1>8 DEF SerialDone, Locked, InMessage, Changed
  <1>9. CASE MoveKey \/ UNCHANGED vars
    BY <1>9 DEF MoveKey, vars, Locked, InMessage, Changed
  <1> QED
    BY <1>1, <1>2, <1>3, <1>4, <1>5, <1>6, <1>7, <1>8, <1>9 DEF Next, Firmware

(* A step after a lockout powers the DDS up in RTTY only.                  *)
LEMMA LockedStaysOff ==
  ASSUME LockInv, [Next]_vars, locked, pc \notin InRtty
  PROVE  dds' => dds
  <1>1. Locked
    BY DEF LockInv
  <1>2. CASE SerialCommand
    <2>1. dds' \in {dds, FALSE, TXPowerOn}
      BY <1>2
      DEF SerialCommand, PowerDownCommand, PowerUpCommand, CalibrationCommand,
          FrequencyCommand, LevelCommand, ExtPACommand, DigiCommand, ModeCommand,
          EndTimeCommand, OffsetCommand, MessageCommand
    <2> QED
      BY <1>1, <2>1 DEF Locked
  <1>3. CASE Measurement
    BY <1>3 DEF Measurement, Measure, DelayTick, Background, ToneTick, RttyService
  <1>4. CASE SwitchToTx \/ StartTone \/ RttyBit
    BY <1>1, <1>4 DEF SwitchToTx, WantsTx, StartTone, RttyBit, Locked, InRtty
  <1>5. CASE \/ AlreadyTx \/ DelayOver \/ KeyDown \/ KeyDownRtty \/ KeyDownDigital
             \/ KeyUp \/ SwitchToRx \/ NoMoreTones \/ ToneOver \/ TimeUp \/ Restart
             \/ RttyEnd \/ SerialDone
    BY <1>5
    DEF AlreadyTx, DelayOver, KeyDown, KeyDownRtty, KeyDownDigital, KeyUp, SwitchToRx,
        NoMoreTones, ToneOver, TimeUp, Restart, RttyEnd, SerialDone, EndMessage, NextTone
  <1>6. CASE MoveKey \/ UNCHANGED vars
    BY <1>6 DEF MoveKey, vars
  <1> QED
    BY <1>2, <1>3, <1>4, <1>5, <1>6 DEF Next, Firmware

(* After a lockout the DDS is not powered up again before a command comes: *)
(* whatever was on the air, but RTTY, ends with the tone it is in.         *)
THEOREM LockoutIsKept == Spec => LockoutHolds
  <1> DEFINE Inv == TypeOK /\ Unmixed /\ CountsUp /\ LockInv
  <1>1. Init => Inv
    BY TypeInit DEF Init, Unmixed, Settled, OfRun, InMessage, CountsUp, LockInv
  <1>2. Inv /\ [Next]_vars => Inv'
    BY UnmixedStep, CountStep, LockStep, PinsTyped, SwitchesTyped, MarksTyped,
       CountersTyped, NamesTyped
    DEF TypeOK, Unmixed
  <1>3. Inv /\ [Next]_vars => [locked /\ pc \notin InRtty => (dds' => dds)]_vars
    BY LockedStaysOff
  <1> HIDE DEF Inv
  <1> QED
    BY <1>1, <1>2, <1>3, PTL DEF Spec, LockoutHolds
=============================================================================
