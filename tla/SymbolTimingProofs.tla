------------------------- MODULE SymbolTimingProofs -------------------------
(***************************************************************************)
(* Proofs about SymbolTiming: a message, for every moment WSJT-X may       *)
(* report it at, every setting, latency and sequence of passes of the      *)
(* waiting loop, and every command heard in it.                            *)
(***************************************************************************)
EXTENDS SymbolTiming, TLAPS

Sending == {"tone", "begun", "waiting"}

(* The end of the period for the form, on the transmitter's late clock.    *)
End(m) == Period(m) - 1 - Margin(m) + TxDelay(m) + MaxLatency

(* Since the tone should have begun.                                       *)
Elapsed == now - tStart - n * ToneDuration(mode)

Numbers ==
  /\ now \in Nat /\ FTxMillisToEnd \in Int
  /\ tStart \in Nat /\ i \in Nat /\ n \in Nat

(* The time left, and the tones left, fit in the period.                   *)
TimeFits ==
  /\ pc = "delay" => /\ now + FTxMillisToEnd <= Period(mode) - 1 - Margin(mode)
                     /\ 0 <= FTxMillisToEnd + Margin(mode)
  /\ pc \in Sending => /\ tStart <= now
                       /\ tStart + FTxMillisToEnd <= End(mode)

TonesFit ==
  pc \in Sending /\ i < SymbolCount(mode) =>
    /\ n <= i
    /\ tStart + (SymbolCount(mode) - i + n) * ToneDuration(mode) + SyncTime(mode)
         <= End(mode)

(* A tone begins in its time: a pass may end late, and the transition      *)
(* makes up for what the wait was too short.                               *)
InStep ==
  /\ pc = "tone" /\ i < SymbolCount(mode) =>
       /\ Elapsed <= LongestPass(mode) - Allowance(mode) - 1
       /\ i = 0 => n = 0 /\ Elapsed = 0
       /\ FTxMillisToEnd > 0 => Elapsed >= - Allowance(mode)
  /\ pc = "begun" =>
       /\ i < SymbolCount(mode)
       /\ Elapsed <= ToneDuration(mode) - Allowance(mode) - 1
       /\ FTxMillisToEnd > 0 => Elapsed >= 0
  /\ pc = "waiting" =>
       /\ i < SymbolCount(mode)
       /\ Elapsed <= waitFor - 1 + LongestPass(mode)
       /\ Elapsed >= 0

InModes == mode \in Modes

MessageInv == Numbers /\ InModes /\ tune = FALSE /\ TimeFits /\ TonesFit /\ InStep

-----------------------------------------------------------------------------
(* AdjustStart (ino:363) finds a place from which the rest of the list     *)
(* takes no more than the time it is given, less FT4's sync.               *)
LEMMA StartFits ==
  ASSUME NEW m \in Modes, NEW left \in Int, -30000 <= left, left <= 30000
  PROVE  /\ AdjustStart(m, left) \in 0 .. SymbolCount(m)
         /\ AdjustStart(m, left) < SymbolCount(m) =>
              (SymbolCount(m) - AdjustStart(m, left)) * ToneDuration(m)
                 + SyncTime(m) <= left
<1>1. CASE m = "FT8"
  <2>1. SymbolCount(m) = 79 /\ ToneDuration(m) = 160 /\ SyncTime(m) = 0
        /\ KillTime(m) = 5500 /\ TruncTime(m) = 12650
    BY <1>1 DEF SymbolCount, ToneDuration, SyncTime, KillTime, TruncTime
  <2>3. Int16(left - SyncTime(m)) = left
    BY <2>1 DEF Int16
  <2>2. left >= 5500 => /\ left \div 160 \in Nat
                        /\ (left \div 160) * 160 <= left
                        /\ left < ((left \div 160) + 1) * 160
    OBVIOUS
  <2> QED BY <2>1, <2>2, <2>3 DEF AdjustStart
<1>2. CASE m = "FT4"
  <2>1. SymbolCount(m) = 105 /\ ToneDuration(m) = 48 /\ SyncTime(m) = 1460
        /\ KillTime(m) = 2020 /\ TruncTime(m) = 5040
    BY <1>2 DEF SymbolCount, ToneDuration, SyncTime, KillTime, TruncTime
  <2>3. Int16(left - SyncTime(m)) = left - 1460
    BY <2>1 DEF Int16
  <2> DEFINE rest == left - 1460
  <2>2. rest >= 2020 => /\ rest \div 48 \in Nat
                        /\ (rest \div 48) * 48 <= rest
                        /\ rest < ((rest \div 48) + 1) * 48
    OBVIOUS
  <2> QED BY <2>1, <2>2, <2>3 DEF AdjustStart
<1> QED BY <1>1, <1>2 DEF Modes

(* The time left in a period (Form.cpp:1769), as the form reports it.      *)
LEMMA TimeLeftInPeriod ==
  ASSUME NEW m \in Modes, NEW t \in Nat, t < Period(m)
  PROVE  TXtimeToEnd(m, FALSE, t) = Period(m) - 1 - Margin(m) - t
<1>1. CASE m = "FT8"
  <2>1. Period(m) = 15000
    BY <1>1 DEF Period
  <2>2. (59999 - t) % 15000 = 14999 - t
    BY <2>1
  <2> QED BY <2>1, <2>2 DEF TXtimeToEnd, millisToEnd, Margin
<1>2. CASE m = "FT4"
  <2>1. Period(m) = 7500
    BY <1>2 DEF Period
  <2>2. (59999 - t) % 7500 = 7499 - t
    BY <2>1
  <2> QED BY <2>1, <2>2 DEF TXtimeToEnd, millisToEnd, Margin
<1> QED BY <1>1, <1>2 DEF Modes

(* A report heard up to MaxLatency late says that much too much.           *)
LEMMA ReportedBound ==
  ASSUME mode \in Modes, NEW t \in Nat, NEW left \in Reported(FALSE, t)
  PROVE  /\ left \in Int /\ 0 <= left + Margin(mode)
         /\ left + t <= Period(mode) - 1 - Margin(mode) + MaxLatency
<1>1. PICK k \in Latencies : /\ t - k \in 0 .. Period(mode) - 1
                             /\ left = TXtimeToEnd(mode, FALSE, t - k)
  BY DEF Reported
<1>2. k \in Nat /\ MaxLatency \in Nat /\ k <= MaxLatency
  BY TimingAssumption
<1>3. Period(mode) \in Int /\ Margin(mode) \in Int
  BY DEF Period, Margin
<1>4. t - k \in Nat /\ t - k < Period(mode)
  BY <1>1, <1>2, <1>3
<1>5. left = Period(mode) - 1 - Margin(mode) - (t - k)
  BY <1>1, <1>4, TimeLeftInPeriod
<1> QED BY <1>2, <1>3, <1>4, <1>5

-----------------------------------------------------------------------------
(* The figures of the two modes.                                           *)
FT8Figures ==
  /\ SymbolCount(mode) = 79 /\ ToneDuration(mode) = 160
  /\ Period(mode) = 15000 /\ Margin(mode) = 170 /\ SyncTime(mode) = 0
  /\ Transitions(mode) = {16, 17} /\ Allowance(mode) = 8 /\ LongestPass(mode) = 143

FT4Figures ==
  /\ SymbolCount(mode) = 105 /\ ToneDuration(mode) = 48
  /\ Period(mode) = 7500 /\ Margin(mode) = 50 /\ SyncTime(mode) = 1460
  /\ Transitions(mode) = {6, 7} /\ Allowance(mode) = 3 /\ LongestPass(mode) = 41

(* A mode of Modes has one or the other.                                  *)
LEMMA Figures == ASSUME mode \in Modes PROVE FT8Figures \/ FT4Figures
BY DEF Modes, FT8Figures, FT4Figures, SymbolCount, ToneDuration, Period, Margin, SyncTime,
       Transitions, Allowance, LongestPass

(* The setting of the TX delay, and what comes on top of it.               *)
LEMMA Delays ==
  /\ \A m \in Modes : TxDelay(m) \in Nat /\ TxDelay(m) <= 2999
  /\ MaxLatency \in Nat /\ MaxLatency <= 999
  /\ \A l \in Latencies : l \in Nat /\ l <= MaxLatency
<1>0. FT8txDelay \in 0 .. 2999
  BY SMTT(60), TimingAssumption
<1>1. FT8txDelay \in Nat /\ FT8txDelay <= 2999
  BY <1>0
<1>2. MaxLatency \in Nat /\ MaxLatency <= 999 /\ Latencies \subseteq 0 .. MaxLatency
  BY TimingAssumption
<1>3. \A m \in Modes : TxDelay(m) \in Nat /\ TxDelay(m) <= 2999
  BY <1>1 DEF TxDelay
<1>4. \A l \in Latencies : l \in Nat /\ l <= MaxLatency
  BY <1>2
<1> QED
  BY <1>2, <1>3, <1>4

(* What a pass takes.                                                      *)
LEMMA PassBound ==
  ASSUME mode \in Modes, NEW p \in Passes[mode]
  PROVE  p \in 1 .. LongestPass(mode)
BY TimingAssumption

(* n * tone_duration (ino:325) does not wrap in a message.                 *)
LEMMA ToneStartExact ==
  ASSUME MessageInv, pc \in {"begun", "waiting"}
  PROVE  ToneStart = n * ToneDuration(mode)
<1>1. n \in Nat /\ i \in Nat /\ n <= i /\ i < SymbolCount(mode) /\ mode \in Modes
  BY DEF MessageInv, Numbers, InModes, TonesFit, InStep, Sending
<1>2. CASE FT8Figures
  BY <1>1, <1>2 DEF ToneStart, FT8Figures
<1>3. CASE FT4Figures
  BY <1>1, <1>3 DEF ToneStart, FT4Figures
<1> QED
  BY <1>1, <1>2, <1>3, Figures

(* The waiting loop ends for the time of the tone, or that of the message. *)
LEMMA InToneExact ==
  ASSUME MessageInv, pc \in {"begun", "waiting"}
  PROVE  InTone <=> Elapsed \in 0 .. waitFor - 1 /\ FTxMillisToEnd > 0
BY ToneStartExact DEF InTone, Elapsed

(* The report says what is left of the period.                            *)
LEMMA ReportStep == ASSUME MessageInv, Report PROVE MessageInv'
<1>1. PICK s \in Starts : /\ s < Period(mode)
                          /\ now' = s
                          /\ FTxMillisToEnd' = TXtimeToEnd(mode, FALSE, s)
  BY DEF Report, MessageInv
<1>2. s \in Nat /\ mode \in Modes
  BY TimingAssumption DEF MessageInv, InModes
<1>3. /\ now' = s /\ s < Period(mode)
      /\ FTxMillisToEnd' = Period(mode) - 1 - Margin(mode) - s
  BY <1>1, <1>2, TimeLeftInPeriod
<1>4. pc' = "delay" /\ mode' = mode /\ tStart' = tStart /\ i' = i /\ n' = n
  BY DEF Report, request, locals
<1>5. Period(mode) \in Int /\ Margin(mode) \in Int
  BY DEF Period, Margin
<1>6. tune' = FALSE /\ InModes'
  BY <1>2, <1>4 DEF Report, request, MessageInv, InModes
<1>7. Numbers'
  <2>1. Numbers
    BY DEF MessageInv
  <2> QED
    BY <1>2, <1>3, <1>4, <1>5, <2>1 DEF Numbers
<1>8. TimeFits' /\ TonesFit' /\ InStep'
  BY <1>2, <1>3, <1>4, <1>5 DEF TimeFits, TonesFit, InStep, Sending
<1> QED
  BY <1>6, <1>7, <1>8 DEF MessageInv

(* A message begins, late by the TX delay and the latency, where it fits in*)
(* what the report said.                                                  *)
LEMMA BeginStep == ASSUME MessageInv, Begin PROVE MessageInv'
<1>1. PICK l \in Latencies : now' = now + l + TxDelay(mode)
  BY DEF Begin
<1>2. l \in Nat /\ l <= MaxLatency /\ MaxLatency \in Nat
  BY Delays
<1>3. mode \in Modes /\ TxDelay(mode) \in Nat
  BY Delays DEF MessageInv, InModes
<1>4. FTxMillisToEnd \in Int /\ now \in Nat
  BY DEF MessageInv, Numbers
<1>5. now + FTxMillisToEnd <= Period(mode) - 1 - Margin(mode)
      /\ 0 <= FTxMillisToEnd + Margin(mode)
  BY DEF Begin, MessageInv, TimeFits
<1>6. /\ pc' = "tone" /\ tStart' = now' /\ n' = 0
      /\ i' = AdjustStart(mode, FTxMillisToEnd)
      /\ mode' = mode /\ FTxMillisToEnd' = FTxMillisToEnd
  BY DEF Begin, request, switch
<1>7. /\ i' \in 0 .. SymbolCount(mode)
      /\ i' < SymbolCount(mode) =>
           (SymbolCount(mode) - i') * ToneDuration(mode) + SyncTime(mode)
             <= FTxMillisToEnd
  <2>1. -30000 <= FTxMillisToEnd /\ FTxMillisToEnd <= 30000
    <3>1. Period(mode) \in Nat /\ Period(mode) <= 15000
          /\ Margin(mode) \in Nat /\ Margin(mode) <= 170
      BY DEF Period, Margin
    <3> QED
      BY <1>4, <1>5, <3>1
  <2> QED
    BY <1>3, <1>4, <1>6, <2>1, StartFits
<1>8. tune' = FALSE /\ InModes'
  BY <1>3, <1>6 DEF Begin, request, MessageInv, InModes
<1>9. Numbers' /\ TimeFits' /\ TonesFit' /\ InStep'
  <2>1. CASE FT8Figures
    BY <1>1, <1>2, <1>3, <1>4, <1>5, <1>6, <1>7, <2>1
       DEF FT8Figures, Numbers, TimeFits, TonesFit, InStep, Sending, Elapsed, End
  <2>2. CASE FT4Figures
    BY <1>1, <1>2, <1>3, <1>4, <1>5, <1>6, <1>7, <2>2
       DEF FT4Figures, Numbers, TimeFits, TonesFit, InStep, Sending, Elapsed, End
  <2> QED
    BY <1>3, <2>1, <2>2, Figures
<1> QED
  BY <1>8, <1>9 DEF MessageInv

(* In the transition to a tone at most LongestPass, less the allowance,    *)
(* has gone by of it: it begins in its time.                               *)
LEMMA NextToneStep == ASSUME MessageInv, NextTone PROVE MessageInv'
<1>1. /\ pc = "tone" /\ pc' = "begun" /\ i < SymbolCount(mode)
      /\ mode' = mode /\ FTxMillisToEnd' = FTxMillisToEnd
      /\ tStart' = tStart /\ i' = i /\ n' = n
  BY DEF NextTone, request, switch, locals
<1>2. \/ i = 0 /\ now' = now
      \/ i # 0 /\ \E t \in Transitions(mode) : now' = now + t
  BY DEF NextTone
<1>3. mode \in Modes /\ TxDelay(mode) \in Nat /\ MaxLatency \in Nat
  BY Delays DEF MessageInv, InModes
<1>4. Numbers /\ TimeFits /\ TonesFit /\ InStep
  BY DEF MessageInv
<1>5. tune' = FALSE /\ InModes'
  BY <1>1, <1>3 DEF NextTone, request, MessageInv, InModes
<1>6. Numbers' /\ TimeFits' /\ TonesFit' /\ InStep'
  <2>1. CASE FT8Figures
    BY <1>1, <1>2, <1>3, <1>4, <2>1
       DEF FT8Figures, Numbers, TimeFits, TonesFit, InStep, Sending, Elapsed, End
  <2>2. CASE FT4Figures
    BY <1>1, <1>2, <1>3, <1>4, <2>2
       DEF FT4Figures, Numbers, TimeFits, TonesFit, InStep, Sending, Elapsed, End
  <2> QED
    BY <1>3, <2>1, <2>2, Figures
<1> QED
  BY <1>5, <1>6 DEF MessageInv

(* What a pass of the waiting loop leaves of the invariant, whatever it    *)
(* heard of the time left.                                                 *)
LEMMA PassStep ==
  ASSUME Numbers, mode \in Modes, TonesFit, InStep, TimeFits,
         ProcessSerialIn, Elapsed <= waitFor - 1, Elapsed >= 0,
         pc' = "waiting", mode' = mode, tStart' = tStart, i' = i, n' = n,
         FTxMillisToEnd' \in Int, tStart + FTxMillisToEnd' <= End(mode)
  PROVE  Numbers' /\ TimeFits' /\ TonesFit' /\ InStep'
<1>1. pc \in {"begun", "waiting"}
  BY DEF ProcessSerialIn
<1>2. PICK p \in Passes[mode] : now' = now + p
  BY DEF ProcessSerialIn
<1>3. p \in 1 .. LongestPass(mode)
  BY PassBound
<1>4. CASE FT8Figures
  BY <1>1, <1>2, <1>3, <1>4
     DEF FT8Figures, Numbers, TimeFits, TonesFit, InStep, Sending, Elapsed, waitFor
<1>5. CASE FT4Figures
  BY <1>1, <1>2, <1>3, <1>5
     DEF FT4Figures, Numbers, TimeFits, TonesFit, InStep, Sending, Elapsed, waitFor
<1> QED
  BY <1>4, <1>5, Figures

(* A pass is made in the time of a tone, and of a message.                 *)
LEMMA PassFacts ==
  ASSUME MessageInv, ProcessSerialIn
  PROVE  /\ Elapsed <= waitFor - 1 /\ Elapsed >= 0 /\ FTxMillisToEnd > 0
         /\ tStart <= now /\ tStart + FTxMillisToEnd <= End(mode)
         /\ now' \in Nat /\ now <= now' /\ now' <= 29000
<1>1. pc \in {"begun", "waiting"} /\ InTone
  BY DEF ProcessSerialIn
<1>2. Elapsed \in 0 .. waitFor - 1 /\ FTxMillisToEnd > 0
  BY <1>1, InToneExact
<1>3. PICK p \in Passes[mode] : now' = now + p
  BY DEF ProcessSerialIn
<1>4. p \in Nat
  BY PassBound DEF MessageInv, InModes
<1>5. now \in Nat
  BY DEF MessageInv, Numbers
<1>6. tStart <= now /\ tStart + FTxMillisToEnd <= End(mode)
  BY <1>1 DEF MessageInv, TimeFits, Sending
<1>7. Elapsed <= waitFor - 1 /\ Elapsed >= 0
  BY <1>2
<1>8. now' <= 29000
  <2>1. mode \in Modes /\ Numbers /\ TonesFit /\ InStep
    BY DEF MessageInv, InModes
  <2>2. TxDelay(mode) \in Nat /\ TxDelay(mode) <= 2999
        /\ MaxLatency \in Nat /\ MaxLatency <= 999
    BY <2>1, Delays
  <2>3. p \in 1 .. LongestPass(mode)
    BY <2>1, PassBound
  <2>4. CASE FT8Figures
    BY <1>1, <1>3, <1>7, <2>1, <2>2, <2>3, <2>4
       DEF FT8Figures, Numbers, TonesFit, InStep, Sending, Elapsed, End, waitFor
  <2>5. CASE FT4Figures
    BY <1>1, <1>3, <1>7, <2>1, <2>2, <2>3, <2>5
       DEF FT4Figures, Numbers, TonesFit, InStep, Sending, Elapsed, End, waitFor
  <2> QED
    BY <2>1, <2>4, <2>5, Figures
<1> QED
  BY <1>2, <1>3, <1>4, <1>5, <1>6, <1>7, <1>8

(* What a report says is no later than the transmitter's end of the        *)
(* period, counted from a start before it was heard.                       *)
LEMMA ReportedFits ==
  ASSUME MessageInv, NEW t \in Nat, tStart <= t, NEW left \in Reported(FALSE, t)
  PROVE  left \in Int /\ 0 <= left + Margin(mode) /\ tStart + left <= End(mode)
<1>1. mode \in Modes /\ TxDelay(mode) \in Nat /\ MaxLatency \in Nat
  BY Delays DEF MessageInv, InModes
<1>2. left \in Int /\ 0 <= left + Margin(mode)
      /\ left + t <= Period(mode) - 1 - Margin(mode) + MaxLatency
  BY <1>1, ReportedBound
<1>3. tStart \in Nat /\ Period(mode) \in Int /\ Margin(mode) \in Int
  BY DEF MessageInv, Numbers, Period, Margin
<1> QED
  BY <1>1, <1>2, <1>3 DEF End

(* A pass that does not change the message keeps the time that is left in *)
(* the period: {W0} makes it none, and another {W} says what is left.     *)
LEMMA HearStep ==
  ASSUME MessageInv, HearNothing \/ HearEnd \/ HearReport PROVE MessageInv'
<1>1. /\ ProcessSerialIn /\ pc' = "waiting" /\ mode' = mode
      /\ tStart' = tStart /\ i' = i /\ n' = n
  BY DEF HearNothing, HearEnd, HearReport, Hear, request, locals
<1>2. tune' = FALSE
  BY DEF HearNothing, HearEnd, HearReport, request, MessageInv
<1>3. /\ Numbers /\ mode \in Modes /\ TonesFit /\ InStep /\ TimeFits
      /\ FTxMillisToEnd \in Int /\ tStart \in Nat /\ now \in Nat
  BY DEF MessageInv, InModes, Numbers
<1>4. /\ Elapsed <= waitFor - 1 /\ Elapsed >= 0 /\ FTxMillisToEnd > 0
      /\ tStart <= now /\ tStart + FTxMillisToEnd <= End(mode)
      /\ now' \in Nat /\ now <= now'
  BY <1>1, PassFacts
<1>5. End(mode) \in Int
  BY <1>3, Delays DEF End, Period, Margin
<1>6. FTxMillisToEnd' \in Int /\ tStart + FTxMillisToEnd' <= End(mode)
  <2>1. CASE HearNothing
    <3>1. FTxMillisToEnd' = FTxMillisToEnd
      BY <2>1 DEF HearNothing, switch
    <3> QED
      BY <1>3, <1>4, <3>1
  <2>2. CASE HearEnd
    <3>1. FTxMillisToEnd' \in {FTxMillisToEnd, 0}
      BY <2>2 DEF HearEnd
    <3> QED
      BY <1>3, <1>4, <1>5, <3>1
  <2>3. CASE HearReport
    <3>1. FTxMillisToEnd' \in Reported(FALSE, now')
      BY <2>3 DEF HearReport, MessageInv
    <3>2. tStart <= now'
      BY <1>3, <1>4
    <3> QED
      BY <1>4, <3>1, <3>2, ReportedFits
  <2> QED
    BY <2>1, <2>2, <2>3
<1>7. Numbers' /\ TimeFits' /\ TonesFit' /\ InStep'
  BY <1>1, <1>3, <1>4, <1>6, PassStep
<1> QED
  BY <1>1, <1>2, <1>3, <1>7 DEF MessageInv, InModes

(* A message begun again, from the place first of its list, in what is     *)
(* left of its time.                                                       *)
Restarted(first) ==
  /\ pc' = "tone" /\ mode' = mode /\ tStart' = now' /\ n' = 0 /\ i' = first + 1
  /\ now' \in Nat /\ tStart' \in Nat /\ FTxMillisToEnd' \in Int
  /\ now' + FTxMillisToEnd' <= End(mode)
  /\ first \in 0 .. SymbolCount(mode)
  /\ first < SymbolCount(mode) =>
       (SymbolCount(mode) - first) * ToneDuration(mode) + SyncTime(mode)
         <= FTxMillisToEnd'

(* Wherever it is begun again, it fits.                                   *)
LEMMA RestartStep ==
  ASSUME InModes, NEW first, Restarted(first)
  PROVE  Numbers' /\ TimeFits' /\ TonesFit' /\ InStep'
<1>1. now' \in Nat /\ tStart' \in Nat /\ FTxMillisToEnd' \in Int
  BY DEF Restarted
<1>2. tStart' = now' /\ n' = 0 /\ pc' = "tone" /\ mode' = mode
  BY DEF Restarted
<1>3. first \in 0 .. SymbolCount(mode) /\ i' = first + 1
  BY DEF Restarted
<1>4. /\ now' + FTxMillisToEnd' <= End(mode)
      /\ first < SymbolCount(mode) =>
           (SymbolCount(mode) - first) * ToneDuration(mode) + SyncTime(mode)
             <= FTxMillisToEnd'
  BY DEF Restarted
<1>5. mode \in Modes /\ TxDelay(mode) \in Nat /\ MaxLatency \in Nat
  BY Delays DEF InModes
<1>6. Elapsed' = 0
  <2>1. ToneDuration(mode') \in Int
    BY DEF ToneDuration
  <2> QED
    BY <1>1, <1>2, <2>1 DEF Elapsed
<1>7. first \in Nat /\ i' \in Nat /\ i' # 0
  <2>1. SymbolCount(mode) \in Int
    BY DEF SymbolCount
  <2> QED
    BY <1>3, <2>1
<1>8. Numbers' /\ TimeFits'
  BY <1>1, <1>2, <1>4, <1>7 DEF Numbers, TimeFits, Sending
<1>9. InStep'
  BY <1>2, <1>6, <1>7 DEF InStep, LongestPass, Allowance
<1>10. TonesFit'
  <2>1. CASE FT8Figures
    BY <1>1, <1>2, <1>3, <1>4, <1>5, <1>7, <2>1 DEF FT8Figures, TonesFit, Sending, End
  <2>2. CASE FT4Figures
    BY <1>1, <1>2, <1>3, <1>4, <1>5, <1>7, <2>2 DEF FT4Figures, TonesFit, Sending, End
  <2> QED
    BY <1>5, <2>1, <2>2, Figures
<1> QED
  BY <1>8, <1>9, <1>10

(* The moments of a transmission that is not over, and times that the int  *)
(* of TimeLeft holds.                                                      *)
Early(t) == t \in Nat /\ t <= 29000
Short(t) == t \in Int /\ -30000 <= t /\ t <= 30000

(* What may be left of a message, counted from the moment start.           *)
Left(m, left, start) ==
  /\ m \in Modes /\ left \in Int /\ start \in Nat
  /\ 0 <= left + Margin(m) /\ start + left <= End(m)

(* What is left of a transmission that is changed, whatever moment it is   *)
(* counted from: it fits the int of TimeLeft, and ends no later.           *)
LEMMA LeftFits ==
  ASSUME NEW m, NEW left, NEW start, Left(m, left, start),
         NEW later, Early(later), NEW rest, rest = left - (later - start)
  PROVE  Short(rest) /\ later + rest <= End(m)
<1>0. m \in Modes
  BY DEF Left
<1>1. TxDelay(m) \in Nat /\ TxDelay(m) <= 2999
      /\ MaxLatency \in Nat /\ MaxLatency <= 999
  BY <1>0, Delays
<1>2. Period(m) \in Nat /\ Period(m) <= 15000
      /\ Margin(m) \in Nat /\ Margin(m) <= 170
  BY DEF Period, Margin
<1>3. End(m) \in Int /\ End(m) <= 30000
  BY <1>1, <1>2 DEF End
<1> QED
  BY <1>2, <1>3 DEF Early, Short, Left

(* A message that is changed begins where it fits in what is left.         *)
LEMMA HearChangeStep ==
  ASSUME MessageInv, HearChange, Tunes = {FALSE} PROVE MessageInv'
<1>1. /\ ProcessSerialIn /\ pc' = "tone" /\ mode' = mode
      /\ tStart' = now' /\ n' = 0
  BY DEF HearChange, Hear
<1>2. tune' = FALSE
  BY DEF HearChange
<1>3. i' = AdjustStart(mode, FTxMillisToEnd') + 1
  BY <1>2 DEF HearChange
<1>4. PICK left : /\ left \in {FTxMillisToEnd} \union Reported(FALSE, now')
                   /\ FTxMillisToEnd' = left - (now' - tStart)
  BY <1>2 DEF HearChange
<1>5. FTxMillisToEnd' = left - (now' - tStart)
  BY <1>4
<1>6. /\ mode \in Modes /\ FTxMillisToEnd \in Int /\ tStart \in Nat /\ now \in Nat
      /\ TxDelay(mode) \in Nat /\ MaxLatency \in Nat
  BY Delays DEF MessageInv, InModes, Numbers
<1>7. /\ tStart <= now /\ tStart + FTxMillisToEnd <= End(mode)
      /\ now' \in Nat /\ now <= now' /\ now' <= 29000 /\ FTxMillisToEnd > 0
  BY <1>1, PassFacts
<1>8. left \in Int /\ 0 <= left + Margin(mode) /\ tStart + left <= End(mode)
  <2>1. CASE left = FTxMillisToEnd
    <3>1. Margin(mode) \in Nat
      BY DEF Margin
    <3> QED
      BY <1>6, <1>7, <2>1, <3>1
  <2>2. CASE left \in Reported(FALSE, now')
    <3>1. tStart <= now' /\ now' \in Nat
      BY <1>6, <1>7
    <3> QED
      BY <2>2, <3>1, ReportedFits
  <2> QED
    BY <1>4, <2>1, <2>2
<1>9. PICK later : later = now'
  OBVIOUS
<1>10. PICK rest : rest = left - (later - tStart)
  OBVIOUS
<1>11. rest = FTxMillisToEnd'
  BY <1>5, <1>9, <1>10
<1>12. Early(later)
  BY <1>7, <1>9 DEF Early
<1>13. Left(mode, left, tStart)
  BY <1>6, <1>8 DEF Left
<1>14. Short(rest) /\ later + rest <= End(mode)
  BY <1>10, <1>12, <1>13, LeftFits, Zenon
<1>15. /\ AdjustStart(mode, rest) \in 0 .. SymbolCount(mode)
       /\ AdjustStart(mode, rest) < SymbolCount(mode) =>
            (SymbolCount(mode) - AdjustStart(mode, rest)) * ToneDuration(mode)
               + SyncTime(mode) <= rest
  BY <1>6, <1>14, StartFits DEF Short
<1>16. Numbers' /\ TimeFits' /\ TonesFit' /\ InStep'
  <2>1. Restarted(AdjustStart(mode, rest))
    <3>1. now' \in Nat /\ tStart' \in Nat
      BY <1>1, <1>9, <1>12 DEF Early
    <3>2. FTxMillisToEnd' \in Int
      BY <1>11, <1>14 DEF Short
    <3>3. now' + FTxMillisToEnd' <= End(mode)
      <4>1. now' + FTxMillisToEnd' = later + rest
        BY <1>9, <1>11, Zenon
      <4> QED
        BY <1>14, <4>1, Zenon
    <3>4. i' = AdjustStart(mode, rest) + 1
      BY <1>3, <1>11, Zenon
    <3>5. AdjustStart(mode, rest) < SymbolCount(mode) =>
            (SymbolCount(mode) - AdjustStart(mode, rest)) * ToneDuration(mode)
               + SyncTime(mode) <= FTxMillisToEnd'
      BY <1>11, <1>15, Zenon
    <3> QED
      BY <1>1, <1>15, <3>1, <3>2, <3>3, <3>4, <3>5, Zenon DEF Restarted
  <2> QED
    BY <1>6, <2>1, RestartStep DEF InModes
<1> QED
  BY <1>1, <1>2, <1>6, <1>16 DEF MessageInv, InModes

(* The next tone begins when this one is over: at most the allowance early,*)
(* and at most a pass late.                                               *)
LEMMA ToneOverStep == ASSUME MessageInv, ToneOver PROVE MessageInv'
<1>1. /\ pc \in {"begun", "waiting"} /\ ~ InTone
      /\ now' = now /\ mode' = mode /\ FTxMillisToEnd' = FTxMillisToEnd /\ tStart' = tStart
  BY DEF ToneOver, request, switch
<1>2. tune' = FALSE /\ mode \in Modes
  BY DEF ToneOver, request, MessageInv, InModes
<1>3. \/ pc' = "done" /\ i' = i /\ n' = n
      \/ pc' = "tone" /\ n' = n + 1 /\ i' = i + 1
  BY DEF ToneOver, MessageInv
<1>4. Numbers /\ TimeFits /\ TonesFit /\ InStep
  BY DEF MessageInv
<1>5. ~ (Elapsed \in 0 .. waitFor - 1 /\ FTxMillisToEnd > 0)
  BY <1>1, InToneExact
<1>6. Elapsed \in Int /\ waitFor \in Int
  <2>1. ToneDuration(mode) \in Int /\ Allowance(mode) \in Int
    BY DEF ToneDuration, Allowance
  <2> QED
    BY <1>4, <2>1 DEF Numbers, Elapsed, waitFor
<1>7. Elapsed < 0 \/ Elapsed >= waitFor \/ FTxMillisToEnd <= 0
  BY <1>4, <1>5, <1>6 DEF Numbers
<1>8. TxDelay(mode) \in Nat /\ MaxLatency \in Nat
  BY <1>2, Delays
<1>9. Numbers' /\ TimeFits' /\ TonesFit' /\ InStep'
  <2>1. CASE FT8Figures
    BY <1>1, <1>3, <1>4, <1>7, <1>8, <2>1
       DEF FT8Figures, Numbers, TimeFits, TonesFit, InStep, Sending, Elapsed, End, waitFor
  <2>2. CASE FT4Figures
    BY <1>1, <1>3, <1>4, <1>7, <1>8, <2>2
       DEF FT4Figures, Numbers, TimeFits, TonesFit, InStep, Sending, Elapsed, End, waitFor
  <2> QED
    BY <1>2, <2>1, <2>2, Figures
<1> QED
  BY <1>1, <1>2, <1>9 DEF MessageInv, InModes

(* MessageInv is inductive.                                               *)
LEMMA MessageStep ==
  ASSUME MessageInv, [Next]_vars, Tunes = {FALSE} PROVE MessageInv'
<1>1. ASSUME ListOver PROVE MessageInv'
  <2>1. /\ pc' = "done" /\ now' = now /\ mode' = mode /\ FTxMillisToEnd' = FTxMillisToEnd
        /\ tStart' = tStart /\ i' = i /\ n' = n
    BY <1>1 DEF ListOver, request, locals
  <2>2. tune' = FALSE /\ InModes'
    BY <1>1, <2>1 DEF ListOver, request, MessageInv, InModes
  <2>3. Numbers' /\ TimeFits' /\ TonesFit' /\ InStep'
    BY <2>1 DEF MessageInv, Numbers, TimeFits, TonesFit, InStep, Sending
  <2> QED
    BY <2>2, <2>3 DEF MessageInv
<1>2. ASSUME Rest \/ UNCHANGED vars PROVE MessageInv'
  <2>1. /\ pc' = pc /\ now' = now /\ mode' = mode /\ tune' = tune
        /\ FTxMillisToEnd' = FTxMillisToEnd /\ tStart' = tStart /\ i' = i /\ n' = n
    BY <1>2 DEF Rest, vars, request, switch, locals
  <2> QED
    BY <2>1 DEF MessageInv, InModes, Numbers, TimeFits, TonesFit, InStep, Sending, Elapsed,
                waitFor
<1> QED
  BY <1>1, <1>2, ReportStep, BeginStep, NextToneStep, HearStep, HearChangeStep, ToneOverStep
     DEF Next

(* And holds at the start.                                                *)
LEMMA MessageInit == ASSUME Init, Tunes = {FALSE} PROVE MessageInv
<1>1. pc = "idle" /\ now = 0 /\ FTxMillisToEnd = 14999 /\ tStart = 0 /\ i = 0 /\ n = 0
  BY DEF Init
<1>2. mode \in Modes /\ tune = FALSE
  BY DEF Init
<1>3. Numbers /\ TimeFits /\ TonesFit /\ InStep
  BY <1>1 DEF Numbers, TimeFits, TonesFit, InStep, Sending
<1> QED
  BY <1>2, <1>3 DEF MessageInv, InModes

-----------------------------------------------------------------------------
(* Every tone of a message is begun in its time, so that the transmitter   *)
(* measures and listens in it (ino:325-330), whatever passes of up to      *)
(* LongestPass took before, and whatever was heard.                        *)
THEOREM HeardInToneHolds == ASSUME Tunes = {FALSE} PROVE Spec => []HeardInTone
<1>1. Init => MessageInv
  BY MessageInit
<1>2. MessageInv /\ [Next]_vars => MessageInv'
  BY MessageStep
<1>3. MessageInv => HeardInTone
  <2> SUFFICES ASSUME MessageInv, pc = "begun", FTxMillisToEnd > 0 PROVE InTone
    BY DEF HeardInTone
  <2>1. mode \in Modes /\ Elapsed >= 0
        /\ Elapsed <= ToneDuration(mode) - Allowance(mode) - 1
        /\ now \in Nat /\ tStart \in Nat /\ n \in Nat
    BY DEF MessageInv, InModes, InStep, Numbers
  <2>2. Elapsed \in 0 .. waitFor - 1
    BY <2>1 DEF Elapsed, waitFor, ToneDuration, Allowance
  <2> QED
    BY <2>2, InToneExact
<1> QED
  BY <1>1, <1>2, <1>3, PTL DEF Spec

(* No tone of a message lasts beyond its period by more than the TX delay, *)
(* the latency and a pass, less the form's margin, whenever it is begun,   *)
(* changed or reported again (ino:363, Form.cpp:1769).                     *)
THEOREM EndsInPeriodHolds == ASSUME Tunes = {FALSE} PROVE Spec => []EndsInPeriod
<1>1. Init => MessageInv
  BY MessageInit
<1>2. MessageInv /\ [Next]_vars => MessageInv'
  BY MessageStep
<1>3. MessageInv => EndsInPeriod
  <2> SUFFICES ASSUME MessageInv, pc \in {"begun", "waiting"}
               PROVE  now < Period(mode) - Margin(mode) - SyncTime(mode)
                              + TxDelay(mode) + MaxLatency + LongestPass(mode)
    BY DEF EndsInPeriod
  <2>1. Numbers /\ TonesFit /\ InStep
    BY DEF MessageInv
  <2>2. mode \in Modes /\ TxDelay(mode) \in Nat /\ MaxLatency \in Nat
    BY Delays DEF MessageInv, InModes
  <2>3. CASE FT8Figures
    BY <2>1, <2>2, <2>3
       DEF FT8Figures, Numbers, TonesFit, InStep, Sending, Elapsed, End, waitFor
  <2>4. CASE FT4Figures
    BY <2>1, <2>2, <2>4
       DEF FT4Figures, Numbers, TonesFit, InStep, Sending, Elapsed, End, waitFor
  <2> QED
    BY <2>2, <2>3, <2>4, Figures
<1> QED
  BY <1>1, <1>2, <1>3, PTL DEF Spec

(* The rest of TypeOK, and with it TypeOK.                                 *)
PlacesOK == pc \in {"idle", "delay", "tone", "begun", "waiting", "done"}
CountOK  == commands \in 0 .. MaxCommands
SwitchOK == DigiTxOn \in BOOLEAN

(* They are inductive too.                                                *)
LEMMA RestStep ==
  ASSUME PlacesOK, CountOK, SwitchOK, [Next]_vars
  PROVE  PlacesOK' /\ CountOK' /\ SwitchOK'
<1>1. PlacesOK'
  BY DEF PlacesOK, Next, vars, Report, Begin, NextTone, ListOver, HearNothing, HearEnd,
         HearReport, HearChange, ToneOver, Rest
<1>2. SwitchOK'
  BY DEF SwitchOK, Next, vars, switch, Report, Begin, NextTone, ListOver, HearNothing,
         HearEnd, HearReport, HearChange, ToneOver, Rest
<1>3. commands' = commands \/ (commands < MaxCommands /\ commands' = commands + 1)
  BY DEF Next, vars, Report, Begin, NextTone, ListOver, HearNothing, Hear, HearEnd,
         HearReport, HearChange, ToneOver, Rest
<1>4. MaxCommands \in Nat
  BY TimingAssumption
<1>5. CountOK'
  BY <1>3, <1>4 DEF CountOK
<1> QED
  BY <1>1, <1>2, <1>5

(* Every reachable state of a message has its types.                       *)
THEOREM TypeCorrect == ASSUME Tunes = {FALSE} PROVE Spec => []TypeOK
<1> DEFINE Inv == MessageInv /\ PlacesOK /\ CountOK /\ SwitchOK
<1>1. ASSUME Init PROVE Inv
  <2>1. PlacesOK /\ SwitchOK
    BY ONLY <1>1 DEF Init, PlacesOK, SwitchOK
  <2>2. CountOK
    BY <1>1, TimingAssumption DEF Init, CountOK
  <2> QED
    BY <1>1, <2>1, <2>2, MessageInit
<1>2. Inv /\ [Next]_vars => Inv'
  BY MessageStep, RestStep
<1>3. Inv => TypeOK
  BY DEF MessageInv, Numbers, InModes, PlacesOK, CountOK, SwitchOK, TypeOK
<1> QED
  BY <1>1, <1>2, <1>3, PTL DEF Spec
=============================================================================
