----------------------------- MODULE Ch10Reader -----------------------------
(***************************************************************************)
(* One file handle opened for reading (irig106ch10.c): the byte position   *)
(* of the operating system's file, the enFileState synchronisation state   *)
(* and the four length fields of SuI106Ch10Handle from which the next and  *)
(* the previous packet are computed.                                       *)
(*                                                                         *)
(* A file is abstracted to what the reader can tell apart: its size, the   *)
(* offsets at which the sync pattern appears with a whole header behind    *)
(* it, and for each of those the outcome of the checksums, the secondary   *)
(* header flag, the packet length and whether it is a TMATS packet.  Sync  *)
(* patterns inside a payload are ordinary members of `cand'.               *)
(***************************************************************************)
EXTENDS Integers

CONSTANTS
  HEADER_SIZE,      \* bytes of a packet header (24)
  SEC_HEADER_SIZE,  \* bytes of a secondary header (12)
  BACKUP_SIZE,      \* bytes scanned at a time by ReadPrevHeader (256)
  UINT32,           \* uint32_t arithmetic is modulo this (2^32)
  Files,            \* the files that may be opened
  Offsets,          \* the offsets callers pass to SetPos
  BuffSizes,        \* the buffer sizes callers pass to ReadData
  Modes             \* the modes callers open with

Header == [ok    : BOOLEAN,   \* uChecksum is right
           sec   : BOOLEAN,   \* I106CH10_PFLAGS_SEC_HEADER is set
           secOk : BOOLEAN,   \* uSecChecksum is right
           len   : 0..(UINT32 - 1),  \* ulPacketLen, a uint32_t
           tmats : BOOLEAN]   \* ubyDataType is COMPUTER_1

\* `pkts' is a ghost: where the recorder put its packets.  `sig' is what the
\* first two bytes of the file say, which a file too short for a header has too.
IsFile(f) ==
  /\ f.size \in Nat
  /\ DOMAIN f.cand \subseteq 0..(f.size - HEADER_SIZE)
  /\ \A q \in DOMAIN f.cand : f.cand[q] \in Header
  /\ f.pkts \subseteq Nat
  /\ f.sig \in BOOLEAN
  /\ f.size >= HEADER_SIZE => (f.sig <=> 0 \in DOMAIN f.cand)

ASSUME ReaderAssumption ==
  /\ HEADER_SIZE \in Nat \ {0} /\ SEC_HEADER_SIZE \in Nat \ {0}
  /\ BACKUP_SIZE \in Nat \ {0} /\ UINT32 \in Nat \ {0}
  /\ \A f \in Files : IsFile(f)
  /\ Offsets \subseteq Nat /\ BuffSizes \subseteq Nat
  /\ Modes \subseteq {"READ", "READ_IN_ORDER"}

VARIABLES
  file,  \* the file behind iFile (the last one opened)
  mode,  \* enFileMode
  rd,    \* enFileState, the file position and the ulCurr... fields
  ret    \* the last call: operation, status returned, offset of the header returned

vars == <<file, mode, rd, ret>>

NoHeader == -1

\* Status values, and ABORT for a failed assert() in SetPos.
Status == {"OK", "OPEN_ERROR", "OPEN_WARNING", "EOF", "BOF", "READ_ERROR", "SEEK_ERROR",
           "HEADER_CHKSUM_BAD", "BUFFER_TOO_SMALL", "WRONG_FILE_MODE", "ABORT"}

Ops == {"None", "Open", "Close", "FirstMsg", "LastMsg", "SetPos",
        "ReadNextHeader", "ReadPrevHeader", "ReadData"}

Returned(op, status, at) == [op |-> op, status |-> status, at |-> at]

Reader == [state : {"Closed", "ReadHeader", "ReadData", "Unsynced"},
           pos : Nat, hlen : Nat, plen : Nat, dlen : Nat, rpos : Nat]

TypeOK ==
  /\ file \in Files
  /\ mode \in {"CLOSED"} \cup Modes
  /\ rd \in Reader
  /\ ret \in [op : Ops, status : Status, at : Nat \cup {NoHeader}]

-----------------------------------------------------------------------------
(* What a header at offset q of file f looks like to the code.             *)

MaxOf(a, b) == IF a >= b THEN a ELSE b

HeaderLen(h) == IF h.sec THEN HEADER_SIZE + SEC_HEADER_SIZE ELSE HEADER_SIZE

\* Slip: the difference kept signed.
DataLen_signed(h) == h.len - HeaderLen(h)

\* uGetDataLen: an int difference returned as uint32_t.
DataLen(h) == (h.len - HeaderLen(h)) % UINT32

SecFits(f, q) == q + HEADER_SIZE + SEC_HEADER_SIZE <= f.size

HeaderOk(f, q) == q \in DOMAIN f.cand /\ f.cand[q].ok

Good(f, q) ==
  /\ HeaderOk(f, q)
  /\ f.cand[q].sec => SecFits(f, q) /\ f.cand[q].secOk

\* Sync pattern there, but the header or the secondary header fails its checksum.
BadChecksum(f, q) ==
  /\ q \in DOMAIN f.cand
  /\ f.cand[q].ok => f.cand[q].sec /\ SecFits(f, q) /\ ~f.cand[q].secOk

SecTruncated(f, q) == HeaderOk(f, q) /\ f.cand[q].sec /\ ~SecFits(f, q)

-----------------------------------------------------------------------------
(* enI106Ch10ReadNextHeaderFile from offset p: a byte-by-byte search, which *)
(* stops at a good header or when a read comes up short.                    *)

StopsAt(f, q) == q + HEADER_SIZE > f.size \/ SecTruncated(f, q) \/ Good(f, q)

\* Slip: the search advances by a header at a time instead of a byte.
SearchStops_stride(f, p) ==
  {q \in p..MaxOf(p, f.size + HEADER_SIZE) :
     /\ (q - p) % HEADER_SIZE = 0 /\ StopsAt(f, q)
     /\ \A r \in p..(q - 1) : (r - p) % HEADER_SIZE = 0 => ~StopsAt(f, r)}

SearchStops(f, p) ==
  {q \in p..MaxOf(p, f.size) : StopsAt(f, q) /\ \A r \in p..(q - 1) : ~StopsAt(f, r)}

Outcome(status, at, r) == [status |-> status, at |-> at, rd |-> r]

FoundAt(f, q) ==
  LET h == f.cand[q] IN
  Outcome("OK", q, [state |-> "ReadData", pos |-> q + HeaderLen(h), hlen |-> HeaderLen(h),
                    plen |-> h.len, dlen |-> DataLen(h), rpos |-> 0])

\* A short read leaves the file at its end, or where it was when already beyond it.
ShortRead(f, r, q) ==
  Outcome("EOF", NoHeader,
          [r EXCEPT !.state = "Unsynced", !.pos = MaxOf(q, f.size),
                    !.hlen = IF SecTruncated(f, q) THEN HEADER_SIZE + SEC_HEADER_SIZE
                                                   ELSE HEADER_SIZE])

\* Only a reader in step reports a bad checksum; it does not move back to the
\* byte after the bad header.
ChecksumBad(f, r, p) ==
  LET n == IF f.cand[p].ok THEN HEADER_SIZE + SEC_HEADER_SIZE ELSE HEADER_SIZE IN
  Outcome("HEADER_CHKSUM_BAD", NoHeader,
          [r EXCEPT !.state = "Unsynced", !.pos = p + n, !.hlen = n])

\* The outcome, as a set of one element.
HeaderSearch(f, r, p) ==
  IF r.state # "Unsynced" /\ BadChecksum(f, p)
    THEN {ChecksumBad(f, r, p)}
    ELSE {IF Good(f, q) THEN FoundAt(f, q) ELSE ShortRead(f, r, q) : q \in SearchStops(f, p)}

-----------------------------------------------------------------------------
(* Open, close and the positioning calls.                                   *)

\* Slip: a seek leaves the synchronisation state alone.
Seek_keepsState(r, p) == [r EXCEPT !.pos = p]

Seek(r, p) == [r EXCEPT !.state = "Unsynced", !.pos = p]

Init ==
  /\ file \in Files
  /\ mode = "CLOSED"
  /\ rd = [state |-> "Closed", pos |-> 0, hlen |-> 0, plen |-> 0, dlen |-> 0, rpos |-> 0]
  /\ ret = Returned("None", "OK", NoHeader)

\* ReadNextHeaderFile refuses READ_IN_ORDER, so that mode always ends in a
\* warning.  A warning keeps the handle and leaves the reader where the probe
\* of the first packet left it.
Probe(f, m) ==
  IF m = "READ" THEN HeaderSearch(f, Seek(rd, 0), 0)
                ELSE {Outcome("WRONG_FILE_MODE", NoHeader, Seek(rd, 0))}

\* Slip: no rewind after the probe.
OpenFile_noRewind(f, m) ==
  \E o \in Probe(f, m) :
    /\ rd' = [o.rd EXCEPT !.state = IF o.status = "OK" THEN "ReadHeader" ELSE @]
    /\ ret' = Returned("Open", IF o.status = "OK" THEN "OK" ELSE "OPEN_WARNING", NoHeader)

OpenFile(f, m) ==
  \E o \in Probe(f, m) :
    IF o.status = "OK" /\ f.cand[o.at].tmats
      THEN /\ rd' = [o.rd EXCEPT !.pos = 0, !.state = "ReadHeader"]
           /\ ret' = Returned("Open", "OK", NoHeader)
      ELSE /\ rd' = o.rd
           /\ ret' = Returned("Open", "OPEN_WARNING", NoHeader)

Open(f, m) ==
  /\ mode = "CLOSED"
  /\ \/ /\ f.sig
        /\ file' = f /\ mode' = m
        /\ OpenFile(f, m)
     \/ /\ ~f.sig
        /\ ret' = Returned("Open", "OPEN_ERROR", NoHeader)
        /\ UNCHANGED <<file, mode, rd>>

\* The length fields keep their values: the next open of the handle finds them.
Close ==
  /\ mode # "CLOSED"
  /\ mode' = "CLOSED"
  /\ rd' = [rd EXCEPT !.state = "Closed"]
  /\ ret' = Returned("Close", "OK", NoHeader)
  /\ UNCHANGED file

SetPos(p) ==
  /\ mode # "CLOSED"
  /\ rd' = Seek(rd, p)
  /\ ret' = Returned("SetPos", "OK", NoHeader)
  /\ UNCHANGED <<file, mode>>

FirstMsg ==
  /\ mode # "CLOSED"
  /\ rd' = Seek(rd, 0)
  /\ ret' = Returned("FirstMsg", "OK", NoHeader)
  /\ UNCHANGED <<file, mode>>

\* Slip: one try too few at the end of the file.
LastMsgTries_short == 0..(file.size - HEADER_SIZE - 2)

\* The offsets LastMsg tries, going down from the end of the file; the first one
\* is one byte before the last place a header fits.
LastMsgTries == 0..(file.size - HEADER_SIZE - 1)

\* Slip: no check for the beginning of the file.
LastMsg_noBof ==
  /\ mode # "CLOSED"
  /\ UNCHANGED <<file, mode>>
  /\ \/ /\ \E q \in LastMsgTries :
             /\ HeaderOk(file, q)
             /\ rd' = Seek(rd, q)
             /\ ret' = Returned("LastMsg", "OK", NoHeader)
     \/ /\ \A s \in LastMsgTries : ~HeaderOk(file, s)
        /\ ret' = Returned("LastMsg", "ABORT", NoHeader)
        /\ UNCHANGED rd

\* READ_IN_ORDER only moves the index pointer, which nothing here reads.
LastMsg ==
  /\ mode # "CLOSED"
  /\ UNCHANGED <<file, mode>>
  /\ \/ /\ mode = "READ_IN_ORDER"
        /\ ret' = Returned("LastMsg", "OK", NoHeader)
        /\ UNCHANGED rd
     \/ /\ mode = "READ"
        /\ \E q \in LastMsgTries :
             /\ HeaderOk(file, q)
             /\ \A s \in LastMsgTries : s > q => ~HeaderOk(file, s)
             /\ rd' = Seek(rd, q)
             /\ ret' = Returned("LastMsg", "OK", NoHeader)
     \/ /\ mode = "READ"
        /\ \A s \in LastMsgTries : ~HeaderOk(file, s)
        /\ IF 0 \in LastMsgTries /\ 0 \in DOMAIN file.cand
             THEN /\ rd' = Seek(rd, 0)
                  /\ ret' = Returned("LastMsg", "SEEK_ERROR", NoHeader)
             ELSE /\ ret' = Returned("LastMsg", "ABORT", NoHeader)
                  /\ UNCHANGED rd

-----------------------------------------------------------------------------
(* Reading forward.                                                         *)

\* Slip: the rest of the packet is not skipped.
NextOffset_noSkip(r) == IF r.state = "ReadData" THEN r.pos - r.hlen ELSE r.pos

\* Where ReadNextHeaderFile starts.  From ReadData it seeks over what is left of
\* the packet, and the seek makes the reader unsynced.
NextOffset(r) ==
  IF r.state = "ReadData" THEN r.pos + r.plen - r.hlen - r.rpos ELSE r.pos

SkipToNext(r) == IF r.state = "ReadData" THEN Seek(r, NextOffset(r)) ELSE r

ReadNextHeader ==
  /\ mode # "CLOSED"
  /\ UNCHANGED <<file, mode>>
  /\ \/ /\ mode = "READ"
        /\ \E o \in HeaderSearch(file, SkipToNext(rd), NextOffset(rd)) :
             /\ rd' = o.rd
             /\ ret' = Returned("ReadNextHeader", o.status, o.at)
     \/ /\ mode = "READ_IN_ORDER"
        /\ ret' = Returned("ReadNextHeader", "WRONG_FILE_MODE", NoHeader)
        /\ UNCHANGED rd

ReadAmount(r) == r.dlen - r.rpos

ReadData(n) ==
  /\ mode # "CLOSED"
  /\ UNCHANGED <<file, mode>>
  /\ \/ /\ rd.state # "ReadData"
        /\ rd' = [rd EXCEPT !.state = "Unsynced"]
        /\ ret' = Returned("ReadData", "READ_ERROR", NoHeader)
     \/ /\ rd.state = "ReadData" /\ n < ReadAmount(rd)
        /\ ret' = Returned("ReadData", "BUFFER_TOO_SMALL", NoHeader)
        /\ UNCHANGED rd
     \/ /\ rd.state = "ReadData" /\ n >= ReadAmount(rd)
        /\ rd.pos + ReadAmount(rd) <= file.size
        /\ rd' = [rd EXCEPT !.state = "ReadHeader", !.pos = @ + ReadAmount(rd),
                            !.rpos = ReadAmount(rd)]
        /\ ret' = Returned("ReadData", "OK", NoHeader)
     \/ /\ rd.state = "ReadData" /\ n >= ReadAmount(rd)
        /\ rd.pos + ReadAmount(rd) > file.size
        /\ rd' = Seek(rd, MaxOf(rd.pos, file.size))
        /\ ret' = Returned("ReadData", "EOF", NoHeader)

-----------------------------------------------------------------------------
(* Reading backward.                                                        *)

\* Slip: the data already read is not counted.
CurrOffset_noData(r) == IF r.state = "Unsynced" THEN r.pos ELSE r.pos - r.hlen

\* The start of the most recently read header, if the reader is in step.
CurrOffset(r) == IF r.state = "Unsynced" THEN r.pos ELSE r.pos - r.hlen - r.rpos

\* Header candidates below offset c.  ReadNextHeaderFile has a crack at each, from
\* the highest down, and may find its good header further on.
Candidates(f, c) == {q \in DOMAIN f.cand : q < c /\ f.cand[q].ok}

Crack(f, r, q) == HeaderSearch(f, Seek(r, q), q)

Hits(f, r, c) == {q \in Candidates(f, c) : \E o \in Crack(f, r, q) : o.status = "OK"}

\* The blocks scanned end at c, c - BACKUP_SIZE, ...: the size of the one at offset 0.
LastBlock(c) == IF c % BACKUP_SIZE = 0 THEN BACKUP_SIZE ELSE c % BACKUP_SIZE

\* Where the file is left after the block at offset 0 had no candidate in it.  A read
\* cut short leaves the end of the scan buffer uninitialised: what looks like a header
\* there makes ReadNextHeaderFile try an offset beyond the end of the file.
AfterScan(f, c) ==
  LET n == LastBlock(c) + HEADER_SIZE IN
  IF n <= f.size THEN {n} ELSE {f.size} \cup (f.size + 1)..(LastBlock(c) - 1)

\* No header.  An attempt at a candidate in the block at offset 0 is the last thing
\* done, and ran to the end of the file.  (Its ulCurrHeaderBuffLen is left out: nobody
\* reads that field before the next header sets it.)
NoHit(f, r, c) ==
  IF \E q \in Candidates(f, c) : q < LastBlock(c)
    THEN {Seek(r, f.size)}
    ELSE {Seek(r, p) : p \in AfterScan(f, c)}

\* A header found at offset 0 is overruled by the check for the beginning of the file.
ReadPrevHeader ==
  LET c == CurrOffset(rd)
      hits == Hits(file, rd, c)
  IN
  /\ mode # "CLOSED"
  /\ UNCHANGED <<file, mode>>
  /\ \/ /\ mode = "READ_IN_ORDER"
        /\ ret' = Returned("ReadPrevHeader", "WRONG_FILE_MODE", NoHeader)
        /\ UNCHANGED rd
     \/ /\ mode = "READ" /\ c <= 0
        /\ rd' = Seek(rd, 0)
        /\ ret' = Returned("ReadPrevHeader", "BOF", NoHeader)
     \/ /\ mode = "READ" /\ c > 0
        /\ \E q \in hits :
             /\ \A s \in hits : s <= q
             /\ \E o \in Crack(file, rd, q) :
                  /\ rd' = o.rd
                  /\ ret' = Returned("ReadPrevHeader",
                                     IF q = 0 THEN "SEEK_ERROR" ELSE "OK", o.at)
     \/ /\ mode = "READ" /\ c > 0 /\ hits = {}
        /\ rd' \in NoHit(file, rd, c)
        /\ ret' = Returned("ReadPrevHeader", "SEEK_ERROR", NoHeader)

-----------------------------------------------------------------------------

\* A failed assert() ends the program.
Next ==
  /\ ret.status # "ABORT"
  /\ \/ \E f \in Files, m \in Modes : Open(f, m)
     \/ Close
     \/ \E p \in Offsets : SetPos(p)
     \/ FirstMsg
     \/ LastMsg
     \/ ReadNextHeader
     \/ ReadPrevHeader
     \/ \E n \in BuffSizes : ReadData(n)

Spec == Init /\ [][Next]_vars

-----------------------------------------------------------------------------
(* Properties.                                                              *)

\* Kinds of file.  A tiling: every packet the recorder wrote runs up to the next one
\* or to the end of the file, whatever the state of its header.  A recording: a
\* tiling with every header intact.  A clean file has no sync pattern in a payload.
Tiled(f) ==
  /\ 0 \in f.pkts
  /\ \A s \in f.pkts : /\ s \in DOMAIN f.cand
                      /\ f.cand[s].len >= HeaderLen(f.cand[s])
                      /\ s + f.cand[s].len \in f.pkts \cup {f.size}
                      /\ \A t \in f.pkts : t <= s \/ s + f.cand[s].len <= t

Recording(f) == Tiled(f) /\ \A s \in f.pkts : Good(f, s)

Clean(f) == DOMAIN f.cand \subseteq f.pkts

\* The position and the length fields agree about which header was read last, across
\* every mix of calls, failed calls, reopens and stale fields: in ReadData they are
\* those of a good header just before the position, in ReadHeader the position is
\* right behind that packet's data, or at the start of the file just opened.
PositionConsistent ==
  /\ rd.state = "ReadData" =>
       \E q \in DOMAIN file.cand : Good(file, q) /\ rd = FoundAt(file, q).rd
  /\ rd.state = "ReadHeader" =>
       \/ rd.pos = 0
       \/ \E q \in DOMAIN file.cand :
            /\ Good(file, q)
            /\ rd.hlen = HeaderLen(file.cand[q]) /\ rd.rpos = DataLen(file.cand[q])
            /\ rd.pos = q + rd.hlen + rd.rpos

\* Reading forward over a file whose headers may be damaged never passes over an intact
\* packet: one at or after the place where the search began is either the one
\* returned or still ahead, also when a bad checksum was reported.
NoIntactPacketSkipped ==
  [][ (ReadNextHeader /\ mode = "READ" /\ Tiled(file) /\ Clean(file))
      => \A s \in file.pkts :
           (Good(file, s) /\ s >= NextOffset(rd)) => (ret'.at = s \/ NextOffset(rd') <= s) ]_vars

\* The packet most recently read begins at t; an unsynced reader stands at t.
LastReadAt(t) ==
  IF rd.state = "Unsynced" THEN t = rd.pos
  ELSE t \in file.pkts /\ t + file.cand[t].len = NextOffset(rd)

\* On a clean recording reading backward undoes reading forward: ReadPrevHeader finds the
\* packet just before the most recently read one, that is the last but one before the one
\* ReadNextHeader would return, whatever calls led there; or the one before an unsynced
\* position.
PrevIsPredecessor ==
  [][ \A t \in {rd.pos} \cup file.pkts :
        (ReadPrevHeader /\ mode = "READ" /\ Recording(file) /\ Clean(file)
         /\ t > 0 /\ LastReadAt(t))
        => /\ ret'.at \in file.pkts /\ ret'.at < t
           /\ \A s \in file.pkts : s < t => s <= ret'.at ]_vars

\* LastMsg positions a clean recording so that the next header read is the last packet's,
\* as long as that packet has any data.
LastMsgFindsLast ==
  [][ (LastMsg /\ mode = "READ" /\ Recording(file) /\ Clean(file))
      => \A s \in file.pkts :
           (s + file.cand[s].len = file.size /\ file.cand[s].len > HEADER_SIZE)
           => ret'.status = "OK" /\ NextOffset(rd') = s ]_vars

\* No call on a file of more than one header's length seeks to a negative offset, which
\* the assert() of SetPos would turn into the end of the program.
NeverAborts == file.size > HEADER_SIZE => ret.status # "ABORT"

\* The calls of a program that reads on until it is told EOF: headers, and data or not.
KeepReading ==
  /\ mode = "READ" /\ ret.status # "EOF"
  /\ \/ ReadNextHeader
     \/ ret.op = "ReadNextHeader" /\ \E n \in BuffSizes : ReadData(n)

\* A program that from some time on only reads, and does not stop before EOF, gets to the
\* end of any file, damaged or not, whose headers do not claim a length of zero, wherever
\* the calls before left the reader.
ReachesEof ==
  (<>[][KeepReading]_vars /\ WF_vars(KeepReading)) =>
    <>[](mode = "READ" /\ (\A q \in DOMAIN file.cand : file.cand[q].len > 0)
         => ret.status = "EOF")

=============================================================================
