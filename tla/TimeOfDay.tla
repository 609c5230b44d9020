------------------------------ MODULE TimeOfDay ------------------------------
(***************************************************************************)
(* What becomes of the time of day between the clock's registers and the   *)
(* screen: rtc_read (src/kernel/hardware/common/rtc.c) decodes the         *)
(* registers, and src/lib/time.c packs a time into 64 bits, unpacks it and *)
(* writes it out; and the milliseconds and seconds pit_calculate (pit.c)   *)
(* counts.  How rtc_read gets at the registers is Boot.tla's.              *)
(*                                                                         *)
(* The packed time is its eight bytes, highest first.                      *)
(***************************************************************************)
EXTENDS Numbers

CONSTANTS
  Moments,    \* the times of day the clock is asked at
  PER_MILLI,  \* pit_freq / 1000
  MILLIS,     \* 1000
  TICKS       \* bound: the ticks of the timer followed

ASSUME TimeAssumption ==
  /\ Moments \subseteq [second : 0 .. 59, minute : 0 .. 59, hour : 0 .. 23,
                        day : 1 .. 31, month : 1 .. 12, year : 2000 .. 2099]
  /\ PER_MILLI \in Nat /\ MILLIS \in Nat \ {0} /\ TICKS \in Nat

VARIABLES
  asked,    \* ghost: the time the clock was read at, or NONE_YET
  mode,     \* status register B of the clock: BCD or binary, 12 or 24 hours
  time,     \* rtc_time, or what time_unpack has made of it
  packed,   \* what time_pack returned
  shown,    \* what time_string_timedate returned, and what it was asked for
  ticks,    \* pit_ticks
  timer,    \* pit_timer
  millis,   \* pit_millis
  total,    \* pit_millis_total
  secs      \* pit_secs

clockVars == <<asked, mode, time, packed, shown>>
timerVars == <<ticks, timer, millis, total, secs>>
timeVars == <<clockVars, timerVars>>

NONE_YET == <<>>
ZERO_TIME == [second |-> 0, minute |-> 0, hour |-> 0, day |-> 0, month |-> 0, year |-> 0]
Modes == [bcd : BOOLEAN, twelve : BOOLEAN]

TimeInit ==
  /\ asked = NONE_YET /\ mode \in Modes /\ time = ZERO_TIME
  /\ packed = NONE_YET /\ shown = NONE_YET
  /\ ticks = 0 /\ timer = 0 /\ millis = 0 /\ total = 0 /\ secs = 0

-----------------------------------------------------------------------------
(* The clock.                                                              *)

\* The registers: the hour of a 12-hour clock goes from 1 to 12, with bit 7 for the afternoon.
Bcd(m, n) == IF m.bcd THEN (n \div 10) * 16 + (n % 10) ELSE n

HourRegister(m, hour) ==
  IF ~m.twelve THEN Bcd(m, hour)
  ELSE Bcd(m, IF hour % 12 = 0 THEN 12 ELSE hour % 12) + (IF hour >= 12 THEN 128 ELSE 0)

Byte(n) == n % 256
Decimal(n) == Byte((n % 16) + (n \div 16) * 10)

\* Bit 7 of the hour is decoded with the digits, and then set again.
DecodedHour(n) == LET hour == Decimal(n)
                  IN  IF n >= 128 /\ hour < 128 THEN hour + 128 ELSE hour

\* Only a BCD year gets its century.
Century(year) == year + 2000

RtcRead(t) ==
  LET raw == [second |-> Bcd(mode, t.second), minute |-> Bcd(mode, t.minute),
              hour |-> HourRegister(mode, t.hour), day |-> Bcd(mode, t.day),
              month |-> Bcd(mode, t.month), year |-> Bcd(mode, t.year % 100)]
  IN  /\ time' = IF mode.bcd
                   THEN [second |-> Decimal(raw.second), minute |-> Decimal(raw.minute),
                         hour |-> DecodedHour(raw.hour), day |-> Decimal(raw.day),
                         month |-> Decimal(raw.month), year |-> Century(Decimal(raw.year))]
                   ELSE raw
      /\ asked' = t
      /\ packed' = NONE_YET /\ shown' = NONE_YET
      /\ UNCHANGED <<mode, timerVars>>

\* The lower half is put together as an int: a day from 128 on makes it negative, and the
\* upper half all ones.
Packed(t) ==
  IF t.day >= 128 THEN <<255, 255, 255, 255, t.day, t.month, t.year \div 256, t.year % 256>>
  ELSE <<0, t.second, t.minute, t.hour, t.day, t.month, t.year \div 256, t.year % 256>>

TimePack ==
  /\ asked # NONE_YET
  /\ packed' = Packed(time)
  /\ UNCHANGED <<asked, mode, time, shown, timerVars>>

Unpacked(b) == [second |-> b[2], minute |-> b[3], hour |-> b[4], day |-> b[5], month |-> b[6],
                year |-> b[7] * 256 + b[8]]

TimeUnpack ==
  /\ packed # NONE_YET
  /\ time' = Unpacked(packed)
  /\ UNCHANGED <<asked, mode, packed, shown, timerVars>>

\* The buffers are new and the strings are appended to them (Strings.tla).
Padded(n) == IF n < 10 THEN <<Zero>> \o ultoa(n, 10) ELSE ultoa(n, 10)

COLON == 58
SPACE == 32
COMMA == 44

\* Twelve hours: the zero in front goes by the hour of 24.  Seconds never get one.
TimeString(t, military, seconds) ==
  (IF military THEN Padded(t.hour)
   ELSE (IF t.hour < 10 THEN <<Zero>> ELSE <<>>)
        \o ultoa(IF t.hour > 12 THEN t.hour - 12 ELSE t.hour, 10))
  \o <<COLON>> \o Padded(t.minute)
  \o (IF seconds THEN <<COLON>> \o ultoa(t.second, 10) ELSE <<>>)
  \o (IF military THEN <<>> ELSE <<SPACE, IF t.hour >= 12 THEN 80 ELSE 65, 77>>)

\* A month's name is one element here, its number behind all characters; 0 is "Error".
MonthName(month, short) == (IF short THEN 1000 ELSE 2000) + (IF month \in 1 .. 12 THEN month ELSE 0)

DateString(t, short) ==
  <<MonthName(t.month, short), SPACE>> \o ultoa(t.day, 10) \o <<COMMA, SPACE>> \o ultoa(t.year, 10)

TimeStringTimedate(military, seconds, short) ==
  /\ asked # NONE_YET
  /\ shown' = [chars |-> TimeString(time, military, seconds) \o <<SPACE>> \o DateString(time, short),
               military |-> military, seconds |-> seconds]
  /\ UNCHANGED <<asked, mode, time, packed, timerVars>>

ClockNext ==
  \/ \E t \in Moments : RtcRead(t)
  \/ TimePack
  \/ TimeUnpack
  \/ \E military, seconds, short \in BOOLEAN : TimeStringTimedate(military, seconds, short)

-----------------------------------------------------------------------------
(* The timer.  A frequency below 1000 makes every tick a millisecond.      *)

SecondEarly(m) == m > MILLIS - 1
SecondFull(m) == m > MILLIS          \* 1001 milliseconds make a second

PitCalculate ==
  /\ ticks < TICKS
  /\ ticks' = ticks + 1
  /\ LET milli == timer + 1 >= PER_MILLI
         m == IF milli THEN millis + 1 ELSE millis
     IN  /\ total' = IF milli THEN total + 1 ELSE total
         /\ secs' = IF SecondFull(m) THEN secs + 1 ELSE secs
         /\ millis' = IF SecondFull(m) THEN 0 ELSE m
         /\ timer' = IF milli \/ SecondFull(m) THEN 0 ELSE timer + 1
  /\ UNCHANGED clockVars

-----------------------------------------------------------------------------
\* What a reader takes a time to be: the hour in front of the first colon, in the afternoon
\* twelve more, the minute behind it.
Number(s) == Value(s, 10)
Until(s, stop) == SubSeq(s, 1, (CHOOSE k \in 1 .. Len(s) : s[k] = stop
                                   /\ \A i \in 1 .. k - 1 : s[i] # stop) - 1)
Behind(s, stop) == SubSeq(s, Len(Until(s, stop)) + 2, Len(s))

ReadBack(s) ==
  LET hour   == Number(Until(s.chars, COLON))
      rest   == Behind(s.chars, COLON)
      clock  == Until(rest, SPACE)
      pm     == ~s.military /\ Behind(rest, SPACE)[1] = 80
      date   == Behind(IF s.military THEN rest ELSE Behind(rest, SPACE), SPACE)
  IN  [hour   |-> IF pm /\ hour < 12 THEN hour + 12 ELSE hour,
       minute |-> Number(IF s.seconds THEN Until(clock, COLON) ELSE clock),
       second |-> IF s.seconds THEN Number(Behind(clock, COLON)) ELSE asked.second,
       month  |-> date[1] % 1000,
       day    |-> Number(Until(Tail(Tail(date)), COMMA)),
       year   |-> Number(Tail(Behind(Tail(Tail(date)), COMMA)))]

\* The hours a 12-hour clock's registers are misread at: midnight and the afternoon.
Misread == mode.twelve /\ asked.hour \notin 1 .. 11

\* The time that is stored, packed, unpacked and shown is the one the clock had, in all its
\* fields, but for an hour of a 12-hour clock from noon to one in the morning, and the
\* century, which a clock that does not count in BCD leaves out.
ClockTold ==
  asked # NONE_YET =>
    LET promised == [asked EXCEPT !.hour = IF Misread THEN time.hour ELSE @,
                                  !.year = IF mode.bcd THEN @ ELSE @ % 100]
    IN  /\ time = promised
        /\ shown # NONE_YET =>
             \A field \in {"second", "minute", "day", "month", "year"} \cup (IF Misread THEN {} ELSE {"hour"}) :
               ReadBack(shown)[field] = promised[field]

\* Counted in ticks, milliseconds and seconds, the time since the start is the same: every
\* millisecond has its ticks, every second its 1001 milliseconds.
TimerAgrees ==
  /\ total = (MILLIS + 1) * secs + millis
  /\ ticks = (IF PER_MILLI = 0 THEN 1 ELSE PER_MILLI) * total + timer

\* A moment comes from the clock's registers to the screen, and the timer's ticks to seconds,
\* as it was (rtc_read, time_pack, time_unpack, time_string_timedate, pit_calculate).
TimeKept == ClockTold /\ TimerAgrees
=============================================================================
