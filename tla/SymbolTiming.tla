---------------------------- MODULE SymbolTiming ----------------------------
(***************************************************************************)
(* One FT8 or FT4 message in milliseconds, from WSJT-X's report in the     *)
(* form to the last tone of the transmitter: when the symbols are sent,    *)
(* and whether the transmitter hears what comes meanwhile.  What is sent,  *)
(* and the keying around it, is module Transmitter.                        *)
(*                                                                         *)
(* Time is counted from the beginning of WSJT-X's period, on one clock:    *)
(* the transmitter only takes differences of its own.                      *)
(***************************************************************************)
EXTENDS Integers

CONSTANTS
  Starts,      \* moments of the period at which WSJT-X reports a transmission
  FT8txDelay,  \* the setting of that name
  MaxLatency,  \* the commands, the relays and the last pass of the TX delay
  Latencies,   \* such times
  Passes,      \* what a pass of the waiting loop may take, by mode
  Tunes,       \* TRUE if a Tune is considered, FALSE if a message is
  CommandTones, \* bound: the tones in which commands are considered,
  MaxCommands, \* bound: and so many within a transmission
  MaxTones     \* bound: so many tones of a Tune

Modes == {"FT8", "FT4"}

SymbolCount(m)  == IF m = "FT4" THEN 105 ELSE 79
ToneDuration(m) == IF m = "FT4" THEN 48 ELSE 160
Period(m)       == IF m = "FT4" THEN 7500 ELSE 15000
Margin(m)       == IF m = "FT4" THEN 50 ELSE 170
KillTime(m)     == IF m = "FT4" THEN 2020 ELSE 5500
TruncTime(m)    == IF m = "FT4" THEN 5040 ELSE 12650
SyncTime(m)     == IF m = "FT4" THEN 1460 ELSE 0
TxDelay(m)      == IF m = "FT4" THEN FT8txDelay \div 2 ELSE FT8txDelay

(* The Gaussian transition: gTranSteps of gTranMicrosPerStep, 16.4 ms or   *)
(* 6.1 ms; and the half of it the wait before it leaves for it.            *)
Transitions(m)  == IF m = "FT4" THEN {6, 7} ELSE {16, 17}
Allowance(m)    == IF m = "FT4" THEN 3 ELSE 8

(* "take care this doesnt take too long!) About 40ms available in FT4".    *)
LongestPass(m)  == IF m = "FT4" THEN 41 ELSE 143

ASSUME TimingAssumption ==
  /\ Starts \subseteq Nat
  /\ FT8txDelay \in 0 .. 2999
  /\ MaxLatency \in 0 .. 999 /\ Latencies \subseteq 0 .. MaxLatency
  /\ \A m \in Modes : Passes[m] \subseteq 1 .. LongestPass(m)
  /\ Tunes \subseteq BOOLEAN
  /\ CommandTones \subseteq Nat
  /\ MaxCommands \in Nat /\ MaxTones \in Nat

VARIABLES
  pc, now,
  mode, tune,             \* TxMode; TuneChk = 0
  DigiTxOn, FTxMillisToEnd,
  tStart, i, n,           \* locals of DigitalTXmsg
  commands                \* heard so far

request == <<mode, tune>>
switch  == <<DigiTxOn, FTxMillisToEnd>>
locals  == <<tStart, i, n>>
vars    == <<pc, now, request, switch, locals, commands>>

Init ==
  /\ pc = "idle" /\ now = 0
  /\ mode \in Modes /\ tune \in Tunes
  /\ DigiTxOn = FALSE /\ FTxMillisToEnd = 14999
  /\ tStart = 0 /\ i = 0 /\ n = 0
  /\ commands = 0

-----------------------------------------------------------------------------
(* The form: time left in the period, or half a minute for a Tune.         *)
millisToEnd(m, t) == ((59999 - t) % Period(m)) - Margin(m)

TXtimeToEnd(m, isTune, t) == IF isTune THEN 30000 ELSE millisToEnd(m, t)

(* {M}{Y}{Z}{W}{X1}: DigitalTXmsg begins when it has been heard, and the   *)
(* TX delay is over.                                                       *)
Report ==
  /\ pc = "idle"
  /\ \E s \in Starts :
       /\ s < Period(mode)
       /\ now' = s
       /\ FTxMillisToEnd' = TXtimeToEnd(mode, tune, s)
  /\ DigiTxOn' = TRUE
  /\ pc' = "delay"
  /\ UNCHANGED <<request, locals, commands>>

-----------------------------------------------------------------------------
(* Where in the list to begin, so that the message ends in time.  TimeLeft *)
(* is an int of the Arduino, FTxMillisToEnd a long.                        *)
Int16(x) == ((x + 32768) % 65536) - 32768

AdjustStartEarlier(m, left) ==
  LET TimeLeft == Int16(left - SyncTime(m)) IN
  IF TimeLeft < KillTime(m) THEN SymbolCount(m)
  ELSE IF TimeLeft <= TruncTime(m) /\ TimeLeft \div ToneDuration(m) < SymbolCount(m)
    THEN SymbolCount(m) - TimeLeft \div ToneDuration(m) - 1
  ELSE 0

AdjustStart(m, left) ==
  LET TimeLeft == Int16(left - SyncTime(m)) IN
  IF TimeLeft < KillTime(m) THEN SymbolCount(m)
  ELSE IF TimeLeft <= TruncTime(m) /\ TimeLeft \div ToneDuration(m) < SymbolCount(m)
    THEN SymbolCount(m) - TimeLeft \div ToneDuration(m)
  ELSE 0

Begin ==
  /\ pc = "delay"
  /\ \E l \in Latencies : now' = now + l + TxDelay(mode)
  /\ tStart' = now'
  /\ i' = AdjustStart(mode, FTxMillisToEnd)
  /\ n' = 0
  /\ pc' = "tone"
  /\ UNCHANGED <<request, switch, commands>>

(* The next tone, after the transition from the one before.                *)
NextTone ==
  /\ pc = "tone"
  /\ i < SymbolCount(mode)
  /\ tune => n < MaxTones
  /\ IF i = 0 THEN now' = now
              ELSE \E t \in Transitions(mode) : now' = now + t
  /\ pc' = "begun"
  /\ UNCHANGED <<request, switch, locals, commands>>

ListOver ==
  /\ pc = "tone"
  /\ i >= SymbolCount(mode)
  /\ pc' = "done"
  /\ DigiTxOn' = FALSE
  /\ UNCHANGED <<now, request, FTxMillisToEnd, locals, commands>>

(* n * tone_duration, both of 16 bits.                                     *)
ToneStartBehind == IF n = 0 THEN 0 ELSE ((n - 1) * ToneDuration(mode)) % 65536

ToneStart == (n * ToneDuration(mode)) % 65536

waitFor == IF i >= SymbolCount(mode) - 1 THEN ToneDuration(mode)
                                         ELSE ToneDuration(mode) - Allowance(mode)

(* The waiting loop goes on.  A difference below zero would be a huge one. *)
InTone == now - tStart - ToneStart \in 0 .. waitFor - 1 /\ FTxMillisToEnd > 0

(* A pass of it measures, and reads the serial port.                       *)
ProcessSerialIn ==
  /\ pc \in {"begun", "waiting"}
  /\ InTone
  /\ \E p \in Passes[mode] : now' = now + p

Hear ==
  /\ ProcessSerialIn
  /\ i \in CommandTones
  /\ commands < MaxCommands
  /\ commands' = commands + 1

HearNothing ==
  /\ ProcessSerialIn
  /\ pc' = "waiting"
  /\ UNCHANGED <<request, switch, locals, commands>>

(* {X0}, or {X0}{W0}.                                                      *)
HearEnd ==
  /\ Hear
  /\ DigiTxOn' = FALSE
  /\ FTxMillisToEnd' \in {FTxMillisToEnd, 0}
  /\ pc' = "waiting"
  /\ UNCHANGED <<request, locals>>

(* WSJT-X reports the same transmission every second: what {W} may say     *)
(* when it is heard.                                                       *)
Reported(isTune, t) ==
  {TXtimeToEnd(mode, isTune, t - l) : l \in {k \in Latencies : t - k \in 0 .. Period(mode) - 1}}

HearReport ==
  /\ Hear
  /\ FTxMillisToEnd' \in Reported(tune, now')
  /\ DigiTxOn' = TRUE
  /\ pc' = "waiting"
  /\ UNCHANGED <<request, locals>>

(* Another message or offset, with or without its {W}: the rest of the     *)
(* time is what the message is adjusted to; break, n++ and i++ follow.     *)
HearChange ==
  /\ Hear
  /\ tune' \in Tunes
  /\ \E left \in {FTxMillisToEnd} \union Reported(tune', now') :
       FTxMillisToEnd' = left - (now' - tStart)
  /\ i' = (IF tune' THEN 1 ELSE AdjustStart(mode, FTxMillisToEnd')) + 1
  /\ tStart' = now'
  /\ n' = 0
  /\ pc' = "tone"
  /\ UNCHANGED <<mode, DigiTxOn>>

(* The tone is over, and the message if it was switched off and its time   *)
(* is up.                                                                  *)
ToneOver ==
  /\ pc \in {"begun", "waiting"}
  /\ ~ InTone
  /\ IF ~ DigiTxOn /\ FTxMillisToEnd >= 0 /\ now - tStart > FTxMillisToEnd
       THEN pc' = "done" /\ UNCHANGED <<i, n>>
       ELSE pc' = "tone" /\ n' = n + 1 /\ i' = (IF tune THEN 1 ELSE i) + 1
  /\ UNCHANGED <<now, request, switch, tStart, commands>>

Rest == (pc = "done" \/ n >= MaxTones) /\ UNCHANGED vars

Next ==
  \/ Report \/ Begin \/ NextTone \/ ListOver
  \/ HearNothing \/ HearEnd \/ HearReport \/ HearChange
  \/ ToneOver \/ Rest

Spec == Init /\ [][Next]_vars

-----------------------------------------------------------------------------
TypeOK ==
  /\ pc \in {"idle", "delay", "tone", "begun", "waiting", "done"}
  /\ now \in Nat
  /\ mode \in Modes /\ tune \in BOOLEAN
  /\ DigiTxOn \in BOOLEAN /\ FTxMillisToEnd \in Int
  /\ tStart \in Nat /\ i \in Nat /\ n \in Nat
  /\ commands \in 0 .. MaxCommands

(* The serial port is read in every tone, "check output tone duration and  *)
(* also for {W0} abort command": no tone is over before it begins, however *)
(* long the passes before it took.                                         *)
HeardInTone == pc = "begun" /\ FTxMillisToEnd > 0 => InTone

(* However late a message starts, is changed or reported again, no tone    *)
(* lasts beyond the period (FT4: the part of it that is in time for the    *)
(* sync) by more than the TX delay, the latency and a pass, less the       *)
(* form's margin: AdjustStart does not know of them.                       *)
EndsInPeriod ==
  pc \in {"begun", "waiting"} /\ ~ tune =>
    now < Period(mode) - Margin(mode) - SyncTime(mode)
            + TxDelay(mode) + MaxLatency + LongestPass(mode)

-----------------------------------------------------------------------------
(* What comments in the code say, and the code does not do.                *)

(* "the message ends before the end of the transmission period".           *)
EndsBeforePeriod == pc \in {"begun", "waiting"} /\ ~ tune => now <= Period(mode)

=============================================================================
