-------------------------------- MODULE Clock --------------------------------
(***************************************************************************)
(* The time command: rtc_get_time of drivers/rtc.cpp reads the CMOS clock  *)
(* register by register while the clock runs, and cmd_time of              *)
(* command/command.cpp moves the result eight hours ahead.                 *)
(*                                                                         *)
(* The clock chip is external.                                             *)
(***************************************************************************)
EXTENDS Integers, Sequences

CONSTANTS
  Chips,     \* clock chips, each with its time when the command is entered
  MaxTicks   \* bound: seconds that pass while the registers are read

VARIABLES
  chip,      \* binary: it counts in binary, not in BCD (register B, bit 2);
             \* hours24: from 0 to 23, not twice 1 to 12 (register B, bit 1)
  now,       \* the chip's time
  ticks,     \* seconds passed
  past,      \* the times the chip has shown since the command was entered
  raw,       \* register values read so far
  shown      \* <<>> or <<the time printed>>

vars == <<chip, now, ticks, past, raw, shown>>

-----------------------------------------------------------------------------
\* The calendar, for the chip and for the reader.
LeapYear(y) == y % 4 = 0 /\ (y % 100 # 0 \/ y % 400 = 0)

MonthLength(y, m) ==
  CASE m \in {4, 6, 9, 11} -> 30
    [] m = 2               -> IF LeapYear(y) THEN 29 ELSE 28
    [] OTHER               -> 31

DayAfter(t) ==
  IF t.day < MonthLength(t.year, t.month) THEN [t EXCEPT !.day = @ + 1]
  ELSE IF t.month < 12 THEN [t EXCEPT !.day = 1, !.month = @ + 1]
  ELSE [t EXCEPT !.day = 1, !.month = 1, !.year = @ + 1]

SecondAfter(t) ==
  IF t.second < 59 THEN [t EXCEPT !.second = @ + 1]
  ELSE IF t.minute < 59 THEN [t EXCEPT !.second = 0, !.minute = @ + 1]
  ELSE IF t.hour < 23 THEN [t EXCEPT !.second = 0, !.minute = 0, !.hour = @ + 1]
  ELSE DayAfter([t EXCEPT !.second = 0, !.minute = 0, !.hour = 0])

\* Universal time, in Beijing.
Beijing(t) ==
  IF t.hour + 8 < 24 THEN [t EXCEPT !.hour = @ + 8]
  ELSE DayAfter([t EXCEPT !.hour = @ - 16])

-----------------------------------------------------------------------------
Encoded(n) == IF chip.binary THEN n ELSE (n \div 10) * 16 + (n % 10)

HourRegister(h) ==
  IF chip.hours24 THEN Encoded(h)
  ELSE Encoded(IF h % 12 = 0 THEN 12 ELSE h % 12) + (IF h >= 12 THEN 128 ELSE 0)

Register(t, name) ==
  CASE name = "hour"    -> HourRegister(t.hour)
    [] name = "year"    -> Encoded(t.year % 100)
    [] name = "century" -> Encoded(t.year \div 100)
    [] OTHER            -> Encoded(t[name])

\* The order of rtc_get_time's reads; the year is read a second time once
\* the encoding is known.
Reads ==
  <<"second", "minute", "hour", "day", "month", "year", "century", "year">>
  \o (IF chip.binary THEN <<>> ELSE <<"century">>)

bcd_to_bin(b) == (b % 16) + (b \div 16) * 10
Decoded(b) == IF chip.binary THEN b ELSE bcd_to_bin(b)

Year(r) == IF chip.binary THEN r[8] + 2000 ELSE bcd_to_bin(r[8]) + bcd_to_bin(r[9]) * 100

Hour(h) == IF ~chip.hours24 /\ h >= 128 THEN ((h - 128) + 12) % 24 ELSE h

rtc_get_time(r) ==
  [second |-> Decoded(r[1]), minute |-> Decoded(r[2]), hour |-> Hour(Decoded(r[3])),
   day |-> Decoded(r[4]), month |-> Decoded(r[5]), year |-> Year(r)]

\* cmd_time: days in the month, and the carries of the eight hours added.
days_in_month(t) ==
  IF t.month \in {4, 6, 9, 11} THEN 30
  ELSE IF t.month = 2 THEN IF t.year % 4 = 0 THEN 29 ELSE 28
  ELSE 31

\* Mutant: the year is not carried.
CarryNoYear(t) ==
  LET day == [t EXCEPT !.hour = @ + 8 - 24, !.day = @ + 1]
      month == [day EXCEPT !.day = 1, !.month = @ + 1]
  IN  IF t.hour + 8 < 24 THEN [t EXCEPT !.hour = @ + 8]
      ELSE IF day.day <= days_in_month(t) THEN day
      ELSE month

Carry(t) ==
  LET day == [t EXCEPT !.hour = @ + 8 - 24, !.day = @ + 1]
      month == [day EXCEPT !.day = 1, !.month = @ + 1]
  IN  IF t.hour + 8 < 24 THEN [t EXCEPT !.hour = @ + 8]
      ELSE IF day.day <= days_in_month(t) THEN day
      ELSE IF month.month <= 12 THEN month
      ELSE [month EXCEPT !.month = 1, !.year = @ + 1]

-----------------------------------------------------------------------------
Init ==
  /\ \E c \in Chips : chip = [binary |-> c.binary, hours24 |-> c.hours24] /\ now = c.start
  /\ past = {now}
  /\ ticks = 0 /\ raw = <<>> /\ shown = <<>>

Tick ==
  /\ ticks < MaxTicks /\ shown = <<>>
  /\ now' = SecondAfter(now) /\ past' = past \cup {now'} /\ ticks' = ticks + 1
  /\ UNCHANGED <<chip, raw, shown>>

\* read_cmos: select a register, then read it.
ReadCmos ==
  /\ Len(raw) < Len(Reads)
  /\ raw' = Append(raw, Register(now, Reads[Len(raw) + 1]))
  /\ UNCHANGED <<chip, now, ticks, past, shown>>

Show ==
  /\ Len(raw) = Len(Reads) /\ shown = <<>>
  /\ shown' = <<Carry(rtc_get_time(raw))>>
  /\ UNCHANGED <<chip, now, ticks, past, raw>>

Next == Tick \/ ReadCmos \/ Show

Spec == Init /\ [][Next]_vars /\ WF_vars(Next)

-----------------------------------------------------------------------------
\* The time command shows the system's time, eight hours ahead of universal
\* time, as it was at some moment while the command ran, provided no minute
\* ended meanwhile: decoding and the carries of cmd_time agree with the
\* calendar, and the century with the year (rtc_get_time).  Without the
\* proviso it does not hold: nothing keeps the reads within one instant.
ShownWasNow ==
  shown # <<>> /\ (\A t \in past : t.minute = now.minute) =>
    \E t \in past : shown[1] = Beijing(t)
=============================================================================
