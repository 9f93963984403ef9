------------------------------ MODULE TimeCodec ------------------------------
(***************************************************************************)
(* The pure parts of i106_decode_time.c and i106_time.c: time packets of   *)
(* format 1 and 2, the time stamps of secondary and intra-packet headers,  *)
(* and the conversions between clock time and the 10 MHz counter.          *)
(***************************************************************************)
EXTENDS Integers, Sequences

CONSTANTS
  TICKS,    \* ticks of the counter in a second, 100 ns each (10000000)
  FRAC32,   \* the arithmetic of ulFrac, a uint32_t, is modulo this (2^32)
  TIME48,   \* six bytes of a counter hold it modulo this (2^48)
  NTP_ONE   \* a second in NTP's unit for parts of it (2^32)

ASSUME CodecAssumption ==
  /\ TICKS \in Nat \ {0} /\ TICKS % 100 = 0
  /\ FRAC32 \in Nat /\ FRAC32 > TICKS
  /\ TIME48 \in Nat \ {0} /\ NTP_ONE \in Nat \ {0}

\* SuIrig106Time; the seconds count from 1970.
Time(secs, frac, fmt) == [secs |-> secs, frac |-> frac, fmt |-> fmt]

-----------------------------------------------------------------------------
(* The calendar.                                                            *)

\* Days of the year before each month.
ydays == <<0, 31, 59, 90, 120, 151, 181, 212, 243, 273, 304, 334, 365>>

leap(y) == (y % 4 = 0 /\ y % 100 # 0) \/ y % 400 = 0

\* Leap years from 1970 to y, without y.
nleap(y) == (y - 1969) \div 4 - (y - 1901) \div 100 + (y - 1601) \div 400

DaysBefore(m, isLeap) == ydays[m + 1] + (IF m > 1 /\ isLeap THEN 1 ELSE 0)

Jan1(y) == 365 * (y - 1970) + nleap(y)

SecondOfDay(tm) == 3600 * tm.hour + 60 * tm.min + tm.sec

\* (uint32_t)-1
NoTime == -1

\* mkgmtime.  Its carries and loops over months normalise the fields, which leaves their
\* sum as it is, except that months past a year make years.
mkgmtime(tm) ==
  LET year == tm.year + tm.mon \div 12
      mon  == tm.mon % 12
      days == Jan1(year) + DaysBefore(mon, leap(year)) + tm.mday - 1
      secs == 86400 * days + SecondOfDay(tm)
  IN IF secs < 0 THEN NoTime ELSE secs

\* gmtime() of the C library, by what a calendar is.
gmtime(secs) ==
  LET day  == secs \div 86400
      year == CHOOSE y \in 1970..2038 : Jan1(y) <= day /\ day < Jan1(y + 1)
      yday == day - Jan1(year)
      mon  == CHOOSE m \in 0..11 : /\ DaysBefore(m, leap(year)) <= yday
                                   /\ yday < DaysBefore(m + 1, leap(year))
  IN [year |-> year, mon |-> mon, mday |-> yday - DaysBefore(mon, leap(year)) + 1,
      yday |-> yday, hour |-> (secs \div 3600) % 24, min |-> (secs \div 60) % 60,
      sec |-> secs % 60]

\* The tables suDoy2DmNormal and suDoy2DmLeap; some recorders have a day 0.
Doy2Dm(d, isLeap) ==
  LET mon == CHOOSE m \in 0..11 : DaysBefore(m, isLeap) < d /\ d <= DaysBefore(m + 1, isLeap)
  IN IF d = 0 THEN [mon |-> 0, mday |-> 0]
     ELSE [mon |-> mon, mday |-> d - DaysBefore(mon, isLeap)]

-----------------------------------------------------------------------------
(* Time packets.                                                            *)

\* k decimal digits, units first, and the number they are of.
Digits(n, k) == [i \in 1..k |-> (n \div 10^(i - 1)) % 10]

Number(ds) ==
  LET N[i \in 0..Len(ds)] == IF i = 0 THEN 0 ELSE N[i - 1] + ds[i] * 10^(i - 1)
  IN N[Len(ds)]

\* enI106_Encode_TimeF1: the channel specific word and the digits of the message.
EncodeTimeF1(src, fmt, t) ==
  LET tm == gmtime(t.secs)
      clock == [cs |-> Digits(t.frac \div (TICKS \div 100), 2), s |-> Digits(tm.sec, 2),
                m |-> Digits(tm.min, 2), h |-> Digits(tm.hour, 2)]
  IN [kind |-> "F1", src |-> src, fmt |-> fmt, leap |-> (tm.year - 1900) % 4 = 0,
      clock |-> clock,
      date |-> IF fmt = "DAY" THEN <<Digits(tm.yday + 1, 3)>>
               ELSE <<Digits(tm.mday, 2), Digits(tm.mon + 1, 2), Digits(tm.year, 4)>>]

\* enI106_Decode_TimeF1_Buff.  The day format has no year; 1972 and 1971 stand for those
\* with and without a leap day.
Date(p) ==
  IF p.fmt = "DAY"
    THEN LET dm == Doy2Dm(Number(p.date[1]), p.leap) IN
         [year |-> IF p.leap THEN 1972 ELSE 1971, mon |-> dm.mon, mday |-> dm.mday]
    ELSE [year |-> Number(p.date[3]), mon |-> Number(p.date[2]) - 1,
          mday |-> Number(p.date[1])]

DecodeTimeF1(p) ==
  LET tm == [year |-> Date(p).year, mon |-> Date(p).mon, mday |-> Date(p).mday,
             hour |-> Number(p.clock.h), min |-> Number(p.clock.m), sec |-> Number(p.clock.s)]
  IN Time(mkgmtime(tm), Number(p.clock.cs) * (TICKS \div 100), p.fmt)

\* A network time packet: a number of seconds and parts of it, in the unit of its format.
EncodeTimeF2(fmt, t) ==
  [kind |-> "F2", fmt |-> fmt, secs |-> t.secs,
   sub |-> CASE fmt = "NTP" -> (t.frac * NTP_ONE) \div TICKS
             [] fmt = "1588" -> t.frac * 100
             [] OTHER -> 0]

\* Slip: the parts are taken for ticks, whatever the format.
SubTicks_raw(p) == p.sub

SubTicks(p) == IF p.fmt = "NTP" THEN (p.sub * TICKS) \div NTP_ONE ELSE p.sub \div 100

\* enI106_Decode_TimeF2_Buff.
DecodeTimeF2(p) ==
  IF p.fmt \in {"NTP", "1588"} THEN Time(p.secs, SubTicks(p), "DMY") ELSE Time(0, 0, "DMY")

Decode(p) == IF p.kind = "F1" THEN DecodeTimeF1(p) ELSE DecodeTimeF2(p)

-----------------------------------------------------------------------------
(* Clock time and the counter.                                              *)

\* The remainder of a C division; its quotient goes toward zero.
CDiv(a, b) == IF a >= 0 THEN a \div b ELSE -((-a) \div b)
CMod(a, b) == a - b * CDiv(a, b)

\* Slip: a negative fraction of a second stays.
Carry_not(secs, frac, fmt) == Time(secs, frac, fmt)

\* The loops that bring the fraction into its range.
Carry(secs, frac, fmt) == Time(secs + frac \div TICKS, frac % TICKS, fmt)

\* enI106_RelInt2IrigTime and its copies.
RelInt2Irig(ref, rel) ==
  LET diff == rel - ref.rel IN
  Carry(ref.time.secs + CDiv(diff, TICKS), ref.time.frac + CMod(diff, TICKS), ref.time.fmt)

\* enI106_Irig2RelTime: the fractions are uint32_t, and so is their difference, before it
\* is widened.
Irig2Rel(ref, t) ==
  (ref.rel + (t.secs - ref.time.secs) * TICKS + ((t.frac - ref.time.frac) % FRAC32)) % TIME48

-----------------------------------------------------------------------------
(* Time stamps of headers.                                                  *)

\* Seconds from the start of the year.
YearSecs(secs) == secs - 86400 * Jan1(gmtime(secs).year)

\* A clock time as a recorder stamps it: hundredths of a second of the year in two words
\* and the rest in microseconds (Ch 4), or seconds and nanoseconds (IEEE 1588).
Ch4Stamp(t) ==
  LET cs == YearSecs(t.secs) * 100 + t.frac \div (TICKS \div 100) IN
  [fmt |-> "CH4", high |-> cs \div 65536, low |-> cs % 65536,
   us |-> (t.frac % (TICKS \div 100)) \div 10]

Stamp1588(t) == [fmt |-> "1588", secs |-> t.secs, ns |-> t.frac * 100]

StampIn(fmt, t) ==
  CASE fmt = "CH4" -> Ch4Stamp(t)
    [] fmt = "1588" -> Stamp1588(t)
    [] OTHER -> [fmt |-> fmt]

\* Slip: the high word counts hundredths of a second too.
Ch4Seconds_low(s) == (s.high + s.low) \div 100

Ch4Seconds(s) == (s.high * 65536 + s.low) \div 100

\* enI106_Ch4Binary2IrigTime and enI106_IEEE15882IrigTime, which leave the format alone.
\* The hundredths of a second in the low word do not get into the fraction.
StampTime(s, fmt) ==
  IF s.fmt = "CH4" THEN Time(Ch4Seconds(s), s.us * 10, fmt) ELSE Time(s.secs, s.ns \div 100, fmt)

\* vFillInTimeStruct: what the structure ref becomes, from the packet header's counter,
\* the secondary header's stamp and the message's, as sequences of at most one; that of a
\* message is a counter or a clock time.  A stamp in a reserved format is passed over.
FillInTimeStruct(ref, rel, sec, msg) ==
  LET clocks == SelectSeq(sec \o msg, LAMBDA s : s.fmt \in {"CH4", "1588"})
      ctrs   == SelectSeq(msg, LAMBDA s : s.fmt = "RTC")
  IN [rel  |-> IF ctrs = <<>> THEN rel ELSE ctrs[1].rel,
      time |-> IF clocks = <<>> THEN ref.time
               ELSE StampTime(clocks[Len(clocks)], ref.time.fmt),
      relValid |-> TRUE, absValid |-> clocks # <<>>]

=============================================================================
