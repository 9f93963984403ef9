---------------------------- MODULE TimeReference ----------------------------
(***************************************************************************)
(* The time reference of a handle (m_asuTimeRef, i106_time.c): the pair of *)
(* a value of the packets' 10 MHz counter and a clock time, by which the   *)
(* counter of any other packet becomes a clock time and back.  SyncTime    *)
(* looks for it in the recording; a program can set it, and can keep one   *)
(* of its own.  The handle's reference outlives the file it came from.     *)
(***************************************************************************)
EXTENDS HeaderWalk, TimeCodec

CONSTANTS
  Stamps(_, _),  \* what the packet of file f at offset q says of its time
  Epoch(_),      \* the recorder's clock in file f: a counter and the clock time then
  SetTimes,      \* clock times a program sets a reference to
  Rels,          \* counters it sets them to
  Limits         \* the limits, in seconds, that SyncTime is called with; 0 is none

VARIABLES
  tref,    \* m_asuTimeRef[handle]
  synced,  \* a ghost: the reference is the clock of the file opened last
  own      \* an SuTimeRef of the program's

timevars == <<tref, synced, own>>
allvars == <<file, mode, rd, ret, timevars>>

\* A packet's stamps: its counter, its time packet data if it is one, the stamp in its
\* secondary header if it has one, and that of its message; `when' is a ghost, the counter
\* at the message.
IsStamps(s) ==
  /\ s.rel \in Nat /\ s.when \in Nat
  /\ Len(s.packet) <= 1 /\ Len(s.sec) <= 1 /\ Len(s.msg) <= 1

ASSUME TimeAssumption ==
  /\ \A f \in Files : \A q \in DOMAIN f.cand : IsStamps(Stamps(f, q))
  /\ Rels \subseteq Nat /\ Limits \subseteq Nat

NoClock == Time(0, 0, "DAY")

NoTimeRef == [rel |-> 0, time |-> NoClock, relValid |-> FALSE, absValid |-> FALSE]

TimeInit ==
  /\ Init
  /\ tref = NoTimeRef /\ own = NoTimeRef
  /\ synced = FALSE

\* The reference r after it was set.
SetTo(r, t, rel) == [r EXCEPT !.time = t, !.rel = rel]

-----------------------------------------------------------------------------
(* enI106_SyncTime.                                                         *)

\* Slip: time from the recorder's internal clock will do.
Qualifies_any(require, p) == TRUE

\* Whether a time packet has the time source the caller asked for.
Qualifies(require, p) == ~require \/ p.src = 1

\* The packet at q is beyond the limit, which counts from the first one at q1.
Beyond(f, limit, q1, q) ==
  limit > 0 /\ Stamps(f, q1).rel + limit * TICKS < Stamps(f, q).rel

IsTimePacket(f, q) == Stamps(f, q).packet # <<>>

\* Slip: the file stays where the time packet was found.
Restored_not(r, from) == r

Restored(r, from) == Seek(r, from.pos)

\* The end of a search that reached the packet at q.
SyncEnds(f, require, limit, q1, q) ==
  \/ Beyond(f, limit, q1, q)
  \/ /\ IsTimePacket(f, q)
     /\ \/ DataOutcome(f, FoundAt(f, q).rd).status # "OK"
        \/ Qualifies(require, Stamps(f, q).packet[1])

\* The outcome of the search that ended at q, after the outcome o of reading that header.
Found(f, limit, q1, q, o) ==
  CASE q = NoHeader ->
         [o EXCEPT !.status = IF @ = "EOF" THEN "TIME_NOT_FOUND" ELSE @]
    [] q # NoHeader /\ Beyond(f, limit, q1, q) -> [o EXCEPT !.status = "TIME_NOT_FOUND"]
    [] OTHER -> LET d == DataOutcome(f, o.rd) IN
                [d EXCEPT !.status = IF @ = "OK" THEN @ ELSE "TIME_NOT_FOUND", !.at = q]

\* What the search over the headers from r finds, as a set of one outcome.  The data of a
\* time packet are read whether or not it qualifies.
Search(f, r, require, limit) ==
  LET q1 == NextOutcome(f, r).at
      next(q) == Following(f, q, IsTimePacket(f, q))
      w == Headers(f, r, next)
      stop(q) == q = NoHeader \/ SyncEnds(f, require, limit, q1, q)
  IN {Found(f, limit, q1, w[n], OutcomeOf(f, r, next, w, n)) : n \in FirstStop(w, stop)}

\* A failure to read the first header leaves the file where that read left it.
SyncTime(require, limit) ==
  /\ mode # "CLOSED"
  /\ UNCHANGED <<file, mode, own>>
  /\ \/ /\ mode = "READ_IN_ORDER"
        /\ ret' = Returned("SyncTime", "WRONG_FILE_MODE", NoHeader)
        /\ UNCHANGED <<rd, tref, synced>>
     \/ /\ mode = "READ"
        /\ \E o \in Search(file, rd, require, limit) :
             /\ rd' = IF NextOutcome(file, rd).status = "OK" THEN Restored(o.rd, rd) ELSE o.rd
             /\ ret' = Returned("SyncTime", o.status, o.at)
             /\ synced' = (synced \/ o.status = "OK")
             /\ tref' = IF o.status = "OK"
                          THEN SetTo(tref, DecodeTimeF1(Stamps(file, o.at).packet[1]),
                                     Stamps(file, o.at).rel)
                          ELSE tref

-----------------------------------------------------------------------------
(* The other calls.                                                         *)

SetRelTime(t, rel) ==
  /\ tref' = SetTo(tref, t, rel) /\ synced' = FALSE
  /\ ret' = Returned("SetRelTime", "OK", NoHeader)
  /\ UNCHANGED <<file, mode, rd, own>>

\* The same with the program's reference.
SetRelTime2(t, rel) ==
  /\ own' = SetTo(own, t, rel)
  /\ ret' = Returned("SetRelTime2", "OK", NoHeader)
  /\ UNCHANGED <<file, mode, rd, tref, synced>>

\* With the header read last and its message, or without one.
FillIn(msg) ==
  /\ ret.op \in {"ReadNextHeader", "FillIn", "FillInMsg"} /\ ret.status = "OK"
  /\ msg => Stamps(file, ret.at).msg # <<>>
  /\ LET s == Stamps(file, ret.at) IN
     own' = FillInTimeStruct(own, s.rel, s.sec, IF msg THEN s.msg ELSE <<>>)
  /\ ret' = [ret EXCEPT !.op = IF msg THEN "FillInMsg" ELSE "FillIn"]
  /\ UNCHANGED <<file, mode, rd, tref, synced>>

\* The handle's reference is kept through close and open; the program takes a structure
\* for each file.
OpenTimed(f, m) ==
  /\ Open(f, m)
  /\ synced' = (synced /\ f = file)
  /\ own' = NoTimeRef
  /\ UNCHANGED tref

ReadOn ==
  /\ \/ Close \/ ReadNextHeader
     \/ \E n \in BuffSizes : ReadData(n)
  /\ UNCHANGED timevars

TimeNext ==
  /\ ret.status # "ABORT"
  /\ \/ mode = "CLOSED" /\ \E f \in Files, m \in Modes : OpenTimed(f, m)
     \/ ReadOn
     \/ \E require \in BOOLEAN, limit \in Limits : SyncTime(require, limit)
     \/ \E t \in SetTimes, rel \in Rels : SetRelTime(t, rel) \/ SetRelTime2(t, rel)
     \/ \E msg \in BOOLEAN : FillIn(msg)

TimeSpec == TimeInit /\ [][TimeNext]_allvars

-----------------------------------------------------------------------------
(* Properties.                                                              *)

\* The clock at a value of the counter, when the two run together from an epoch.
ClockAt(e, rel) ==
  LET ticks == e.time.frac + rel - e.rel IN
  [secs |-> e.time.secs + ticks \div TICKS, frac |-> ticks % TICKS]

\* A time in the day format stands for the same day in any year.
SameSecond(secs, c, fmt) ==
  IF fmt = "DMY" THEN secs = c.secs
  ELSE LET InYear(s) == [gmtime(s) EXCEPT !.year = 0, !.yday = 0] IN InYear(secs) = InYear(c.secs)

\* t is clock time c cut to hundredths of a second, or less.
SameTime(t, c) ==
  \E d \in 0..1 : /\ SameSecond(t.secs + d, c, t.fmt)
                  /\ d * TICKS + c.frac - t.frac \in 0..(TICKS \div 100 - 1)

\* After a search for the time that succeeded, and until the reference is set to something
\* else, the counter of every packet of the recording, before and after the time packet
\* found, becomes the recorder's clock time to the hundredth of a second, also over the end
\* of a day, of February or of a year; and a clock time whose fraction of a second is not less
\* than that of the reference turns back into the counter.
SyncedClock ==
  synced => \A q \in file.pkts :
              LET rel == Stamps(file, q).rel
                  t == RelInt2Irig(tref, rel)
              IN /\ SameTime(t, ClockAt(Epoch(file), rel))
                 /\ t.frac >= tref.time.frac => Irig2Rel(tref, t) = rel

\* A search for the time in a sound recording does not make the program miss or repeat a
\* packet: the next header is the one it was before, also when a header was read and its
\* data not, and whether the search succeeded or not.
SyncKeepsPlace ==
  [][ (ret'.op = "SyncTime" /\ mode = "READ" /\ Recording(file) /\ Clean(file))
      => NextOutcome(file, rd').at = NextOutcome(file, rd).at ]_allvars

\* The packets of a recording a search reaches: from the next one on, up to the first one
\* that is beyond the limit.
Reach(f, from, limit) ==
  {q \in f.pkts :
     /\ from # NoHeader /\ from <= q
     /\ \A s \in f.pkts : (from <= s /\ s <= q) => ~Beyond(f, limit, from, s)}

\* The search takes the first time packet within the limit that has the source asked for,
\* and fails only if there is none.
SyncFindsTime ==
  [][ \A require \in BOOLEAN, limit \in Limits :
        (ret'.op = "SyncTime" /\ mode = "READ" /\ Recording(file) /\ Clean(file)
         /\ SyncTime(require, limit))
        => LET from == NextOutcome(file, rd).at
               good == {q \in Reach(file, from, limit) :
                          /\ IsTimePacket(file, q)
                          /\ require => Stamps(file, q).packet[1].src = 1}
           IN IF good = {} THEN ret'.status = "TIME_NOT_FOUND" /\ tref' = tref
              ELSE \E q \in good : /\ \A s \in good : q <= s
                                   /\ ret'.status = "OK" /\ tref'.rel = Stamps(file, q).rel ]_allvars

PacketsOf(t) ==
  {EncodeTimeF1(1, fmt, t) : fmt \in {"DAY", "DMY"}}
  \cup {EncodeTimeF2(fmt, t) : fmt \in {"NTP", "1588"}}

\* A clock time, set by the program or decoded from a packet, that is written as a time
\* packet and decoded again is that time: to the hundredth of a second in format 1, in the
\* day format but for the year, and to the unit of the format in format 2.
TimeReadBack ==
  (ret.op \in {"SetRelTime", "SyncTime"} /\ mode # "CLOSED") =>
    \A p \in PacketsOf(tref.time) :
      /\ SameTime(Decode(p), tref.time)
      /\ p.kind = "F2" =>
           tref.time.frac - Decode(p).frac
             \in 0..(IF p.fmt = "NTP" THEN TICKS \div NTP_ONE + 1 ELSE 0)

\* The time filled in for a header or its message is the best there is: the counter of the
\* message, or else of the packet, and the clock time to the second of the message or else
\* of the secondary header, in whichever format they are, and to the tick in IEEE 1588's.
BestTime ==
  (ret.op \in {"FillIn", "FillInMsg"}) =>
    LET s == Stamps(file, ret.at)
        stamped == IF ret.op = "FillInMsg" /\ s.msg[1].fmt # "RTC" THEN s.msg ELSE s.sec
        c == ClockAt(Epoch(file), IF stamped = s.msg THEN s.when ELSE s.rel)
    IN /\ own.rel = IF ret.op = "FillInMsg" /\ s.msg[1].fmt = "RTC" THEN s.msg[1].rel ELSE s.rel
       /\ (stamped # <<>> /\ stamped[1].fmt = "CH4")
            => own.absValid /\ own.time.secs = YearSecs(c.secs)
       /\ (stamped # <<>> /\ stamped[1].fmt = "1588")
            => own.absValid /\ own.time.secs = c.secs /\ own.time.frac = c.frac

=============================================================================
