------------------------------- MODULE MCTime -------------------------------
(* Small recordings for TimeReference, over the end of February or of a year. *)
EXTENDS TimeReference, MCReader

\* A packet: how much of the file it takes, the counter in its header, its time packet's
\* source (or none) and the format of its message's and secondary header's stamps.
Packet(kind, rel, src, fmt) == [kind |-> kind, rel |-> rel, src |-> src, fmt |-> fmt]

RecorderClock(e, rel) ==
  LET c == ClockAt(e, rel) IN Time(c.secs, c.frac, e.time.fmt)

StampOf(e, fmt, rel) ==
  IF fmt = "RTC" THEN [fmt |-> fmt, rel |-> rel] ELSE StampIn(fmt, RecorderClock(e, rel))

StampsOf(e, p) ==
  [rel |-> p.rel, when |-> p.rel + 13000001,
   packet |-> IF p.src \in {0, 1}
                THEN <<EncodeTimeF1(p.src, e.time.fmt, RecorderClock(e, p.rel))>> ELSE <<>>,
   sec |-> IF p.kind.h.sec THEN <<StampOf(e, p.fmt, p.rel)>> ELSE <<>>,
   msg |-> IF p.src = -1 THEN <<StampOf(e, p.fmt, p.rel + 13000001)>> ELSE <<>>]

TimedFile(id, ps) == FileOf([i \in DOMAIN ps |-> ps[i].kind]) @@ [id |-> id]

\* 2020-02-28 23:59:50, 2021-12-31 23:59:55 and 2020-12-31 23:59:55.
EndOfFebruary == [rel |-> 50000000, time |-> Time(1582934390, 2345678, "DMY")]
EndOfYear     == [rel |-> 70000000, time |-> Time(1640995195, 9999999, "DAY")]
LeapYearEnd   == [rel |-> 70000000, time |-> Time(1609459195, 400000, "DAY")]

Setup(rel) == Packet(Tmats, rel, -1, "RTC")

Recorded(fmt) ==
  <<Setup(40000000), Packet(Plain, 63000007, 0, "RTC"), Packet(WithSec, 90000000, -1, fmt),
    Packet(Plain, 131234567, 1, "RTC"), Packet(WithSec, 206000003, -1, "RESERVED")>>

\* The last time packet is cut short.
CutShort == <<Setup(40000000), Packet(Plain, 60000000, -1, "1588"), Packet(Cut, 90000000, 0, "RTC")>>

Recordings == <<Recorded("CH4"), Recorded("1588"), CutShort>>
Epochs     == <<EndOfFebruary, LeapYearEnd, EndOfYear>>

AllStamps ==
  [id \in DOMAIN Recordings |->
     LET k == [i \in DOMAIN Recordings[id] |-> Recordings[id][i].kind] IN
     [q \in {Start(k, i) : i \in DOMAIN k} |->
        StampsOf(Epochs[id], Recordings[id][CHOOSE i \in DOMAIN k : Start(k, i) = q])]]

MCStamps(f, q) == AllStamps[f.id][q]
MCEpoch(f) == Epochs[f.id]

MCTimeFiles == {TimedFile(id, Recordings[id]) : id \in DOMAIN Recordings}

\* 2020-02-28 23:59:59 and 2000-01-01.
MCSetTimes == {Time(1582934399, 9999999, "DMY"), Time(946684800, 5550001, "DAY")}

=============================================================================
