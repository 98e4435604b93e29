------------------------------- MODULE Alarm --------------------------------
(***************************************************************************)
(* The clock of the board support package and an alarm: alt_tick.c,        *)
(* alt_alarm_start.c.  The ticks are counted in a word and start again,    *)
(* about every 50 days; a flag keeps an alarm due after that from going    *)
(* off before.  The driver of the JTAG UART starts the one alarm of the    *)
(* program and never stops it.                                             *)
(***************************************************************************)
EXTENDS Integers

CONSTANTS
  Word,    \* values of an alt_u32: 2^32
  Second   \* alt_ticks_per_second(): 1000

ASSUME AlarmAssumption ==
  Word \in Nat /\ Second \in Nat \ {0} /\ Second + 1 < Word

VARIABLES
  alt_nticks,      \* ticks since reset
  time, rollover,  \* the alarm
  due              \* history: ticks that are left until it shall go off

alarmVars == <<alt_nticks, time, rollover, due>>

(* Where the clock is when the program starts the alarm is left open.      *)
(* Variant: the flag is forgotten.                                         *)
RollsOver_Never(t, now) == FALSE
RollsOver(t, now) == t < now

AlarmStart ==
  /\ alt_nticks \in 0..(Word - 1)
  /\ time = (Second + alt_nticks + 1) % Word
  /\ rollover = RollsOver(time, alt_nticks)
  /\ due = Second + 1

(* Whether the tick that takes the clock to now sets the alarm off.        *)
StillOver(now) == rollover /\ now # 0
GoesOff(now)   == time <= now /\ ~StillOver(now)

alt_tick ==
  LET now  == (alt_nticks + 1) % Word
      next == (time + Second) % Word
  IN
  /\ alt_nticks' = now
  /\ IF GoesOff(now)
     THEN time' = next /\ rollover' = RollsOver(next, now)
     ELSE time' = time /\ rollover' = StillOver(now)
  /\ due' = IF due = 1 THEN Second ELSE due - 1

AlarmTypeOK ==
  /\ alt_nticks \in 0..(Word - 1) /\ time \in 0..(Word - 1)
  /\ rollover \in BOOLEAN
  /\ due \in 1..(Second + 1)

(* The alarm goes off a second after it did before, on the tick, also when *)
(* the count of the ticks or the time of the alarm has started again in    *)
(* between (the rollover flag of alt_alarm_start and alt_tick).            *)
AlarmOnTime == GoesOff((alt_nticks + 1) % Word) <=> due = 1
=============================================================================
