------------------------------ MODULE PcmFrames ------------------------------
(***************************************************************************)
(* The decoder of PCM format 1 in throughput mode (i106_decode_pcmf1.c):   *)
(* it searches the bits of the packets of a channel for sync words and     *)
(* puts the words between two of them, a minor frame, in an output buffer. *)
(* A frame may begin in one packet and end in another, so the state of the *)
(* search is kept in the attributes of the channel.                        *)
(***************************************************************************)
EXTENDS Integers, Sequences, FiniteSets
LOCAL INSTANCE SequencesExt

CONSTANTS
  Streams,   \* PCM channels to decode
  BYTE,      \* bits in a byte (8)
  WORD       \* the test word, a uint64_t, is modulo this (2^64)

\* The values of the P group of the channel, those that are absent Absent: P-x\D2, \F1, \F2,
\* \MF1, \MF2, \MF3, \MF4 and \MF5.
Absent == -1
SuPRecord ==
  [bitsPerSec : Nat \ {0}, wordLen : Nat \ {0}, lsbFirst : BOOLEAN, words : Nat \ {0},
   bits : Nat \cup {Absent}, fixedSync : BOOLEAN, patLen : Nat \cup {Absent}, pat : Seq(0..1)]

\* A channel: the bits that were sent, the numbers of bytes its packets cut them into, the
\* mode and alignment the packets say, its P group, and what the program sets itself,
\* lMinSyncs and lNoByteSwap, or -1.
Stream == [bits : Seq(0..1), packets : Seq(Nat), thru : BOOLEAN, align : BOOLEAN,
           prec : SuPRecord, minSyncs : Nat \cup {Absent}, noSwap : {0, 1, Absent}]

ASSUME PcmAssumption ==
  /\ \A s \in Streams : s \in Stream
  /\ BYTE \in Nat \ {0} /\ WORD \in Nat \ {0}

VARIABLES
  str,     \* the channel
  att,     \* SuPcmF1_Attributes, what describes the frames
  run,     \* SuPcmF1_Attributes, what the search keeps; and the caller's SuPcmF1_CurrMsg
  frames   \* ghost: where in the stream the frames returned ended

pcmvars == <<str, att, run, frames>>

-----------------------------------------------------------------------------
(* The attributes.                                                          *)

NoAttributes == [ready |-> FALSE]

\* Set_Attributes_PcmF1.  The length of the pattern and the bits of a frame are computed
\* where the group does not have them; the mask is as long as the pattern.  The number of
\* syncs is 0 whatever the group says.
SetAttributes(r) ==
  LET value[i \in 0..Len(r.pat)] == IF i = 0 THEN 0 ELSE 2 * value[i - 1] + r.pat[i]
      patLen == IF r.patLen = Absent THEN Len(r.pat) ELSE r.patLen
  IN IF r.lsbFirst \/ ~r.fixedSync THEN NoAttributes
     ELSE [ready |-> TRUE, wordLen |-> r.wordLen, words |-> r.words, patLen |-> patLen,
           pat |-> value[Len(r.pat)], mask |-> 2 ^ Len(r.pat), minSyncs |-> 0, noSwap |-> 0,
           delta |-> 10000000 \div r.bitsPerSec,
           bits |-> IF r.bits = Absent THEN r.wordLen * (r.words - 1) + patLen ELSE r.bits]

\* Set_Attributes_Ext_PcmF1, for the values that no group has.
SetAttributesExt(a, minSyncs, noSwap) ==
  [a EXCEPT !.minSyncs = IF minSyncs = Absent THEN @ ELSE minSyncs,
            !.noSwap = IF noSwap = Absent THEN @ ELSE noSwap]

\* Before the first packet; prepare: bPrepareNextDecodingRun; at: the packets decoded.
NoRun ==
  [at |-> 0, from |-> 0, prepare |-> TRUE, ret |-> "OPEN", pos |-> 0, time |-> 0, test |-> 0,
   loaded |-> 0, mfBits |-> 0, mfWords |-> 0, wordBits |-> 0, save |-> 0, sync |-> Absent,
   errors |-> 0, out |-> <<>>, over |-> FALSE, hit |-> FALSE]

PcmInit ==
  /\ str \in Streams
  /\ LET a == SetAttributes(str.prec) IN
     /\ att = IF a.ready THEN SetAttributesExt(a, str.minSyncs, str.noSwap) ELSE a
     /\ run = [NoRun EXCEPT !.ret = IF a.ready THEN @ ELSE "UNSUPPORTED"]
  /\ frames = {}

-----------------------------------------------------------------------------
(* The packets.                                                             *)

\* The bits that packets 1 to n have.
BitsBefore(s, n) ==
  LET B[i \in 0..n] == IF i = 0 THEN 0 ELSE B[i - 1] + BYTE * s.packets[i] IN B[n]

\* Bytes, or words of w bytes, in swapped pairs.
Swapped(bits, w) ==
  [i \in DOMAIN bits |->
     LET unit == w * BYTE
         j == (i - 1) \div unit
     IN bits[i + (IF j % 2 = 0 THEN unit ELSE -unit)]]

SwapBytes(bits) == Swapped(bits, 1)
SwapShortWords(bits) == Swapped(bits, 2)

Unswapped(s, bits) == IF s.align THEN SwapShortWords(SwapBytes(bits)) ELSE SwapBytes(bits)

\* Only packets of whole words can be swapped.  (The code swaps the bytes of aligned data
\* before it refuses to swap their words; nobody reads them then.)
Swappable(s, bytes) == bytes % (IF s.align THEN 4 ELSE 2) = 0

\* What a packet has in the file: a recorder writes words of 16 or 32 bits, which hold the
\* stream's bits from the highest on, in the order of its bytes.
Recorded(s, n) ==
  LET bits == SubSeq(s.bits, BitsBefore(s, n - 1) + 1, BitsBefore(s, n))
      word == BYTE * (IF s.align THEN 4 ELSE 2)
      Flip(i) == LET k == (i - 1) \div word
                     b == ((i - 1) % word) \div BYTE
                 IN k * word + (word \div BYTE - 1 - b) * BYTE + ((i - 1) % BYTE) + 1
  IN IF s.noSwap = 1 \/ ~Swappable(s, s.packets[n]) THEN bits
     ELSE [i \in DOMAIN bits |-> bits[Flip(i)]]

\* pauData when the search begins.
Data(s, a, n) ==
  IF a.noSwap = 1 THEN Recorded(s, n) ELSE Unswapped(s, Recorded(s, n))

-----------------------------------------------------------------------------
(* The search.                                                              *)

\* CreateOutputBuffers_PcmF1 and PrepareNextDecodingRun_PcmF1.  Outside throughput mode
\* only the buffers are made.
Prepared(s, a, r) ==
  LET fresh == [r EXCEPT !.prepare = FALSE, !.out = [i \in 1..a.words |-> 0]] IN
  IF ~r.prepare THEN r
  ELSE IF ~s.thru THEN fresh
  ELSE [fresh EXCEPT !.sync = Absent, !.errors = 0, !.test = 0, !.pos = 0, !.loaded = 0,
                     !.mfBits = 0, !.mfWords = 0, !.wordBits = 0, !.save = 0]

GetNextBit(r, bit) ==
  [r EXCEPT !.test = (2 * @ + bit) % WORD, !.loaded = @ + 1, !.mfBits = @ + 1, !.pos = @ + 1]

\* Slip: a sync word is looked for in bits that were not loaded.
IsSyncWordFound_early(a, r) == r.test % a.mask = a.pat

IsSyncWordFound(a, r) == r.loaded >= a.patLen /\ r.test % a.mask = a.pat

\* At a sync word in the right place, a full frame is released, when there were enough.
Released(a, r) == r.mfBits = a.bits /\ r.sync + 1 >= a.minSyncs /\ r.save > 1

\* Slip: the count of syncs goes on after one in a wrong place.
SyncsAfter_on(a, r) == r.sync + 1

\* RenewSyncCounters_PcmF1: a sync in a wrong place is the first of a new row.
SyncsAfter(a, r) == IF r.mfBits = a.bits THEN r.sync + 1 ELSE 0

\* A sync word throws away what was collected; the words after it are collected anew.  The
\* time is that of the first bit after the sync word that began the frame.
AtSync(a, r, base) ==
  [r EXCEPT !.sync = SyncsAfter(a, r), !.hit = Released(a, r),
            !.errors = @ + IF r.mfBits # a.bits /\ r.sync + 1 > 0 THEN 1 ELSE 0,
            !.time = IF Released(a, r) THEN base + (r.pos - a.bits) * a.delta ELSE @,
            !.mfBits = 0, !.mfWords = 1, !.wordBits = 0, !.save = 1]

\* Slip: saving does not stop after the last word.
Saving_on(a, r, n) == r.save

Saving(a, r, n) == IF n >= a.words THEN 2 ELSE r.save

\* A bit that ends no sync word; a full data word goes to the output buffer, with the bits
\* before it that the test word still holds.  over: past the end of the buffer.
Collect(a, r) ==
  LET full == r.save = 1 /\ r.wordBits + 1 >= a.wordLen
      n == r.mfWords + IF full THEN 1 ELSE 0
  IN [r EXCEPT !.wordBits = CASE full -> 0
                              [] r.save = 1 /\ ~full -> @ + 1
                              [] OTHER -> @,
               !.out = IF full /\ r.mfWords <= a.words THEN [@ EXCEPT ![r.mfWords] = r.test] ELSE @,
               !.over = @ \/ (full /\ r.mfWords > a.words),
               !.mfWords = n, !.save = Saving(a, r, n)]

BitStep(a, r, bit, base) ==
  LET g == GetNextBit(r, bit) IN IF IsSyncWordFound(a, g) THEN AtSync(a, g, base) ELSE Collect(a, g)

\* DecodeMinorFrame_PcmF1, over the bits that are left in a packet's data.
DecodeMinorFrame(a, r, data, base) ==
  LET step(s, bit) == IF s.hit THEN s ELSE BitStep(a, s, bit, base)
      end == FoldLeft(step, [r EXCEPT !.hit = FALSE], SubSeq(data, r.pos + 1, Len(data)))
  IN IF end.hit THEN [end EXCEPT !.ret = "OK"]
     ELSE [end EXCEPT !.ret = "NO_MORE_DATA", !.pos = 0]

-----------------------------------------------------------------------------
(* The calls.                                                               *)

\* The recorder's counter at the first bit of packet n.
BaseTime(s, n) == BitsBefore(s, n - 1) * (10000000 \div s.prec.bitsPerSec)

\* Outside throughput mode: the bytes of the header before each frame, and of a frame in
\* whole words of 16 or 32 bits.
IntraPktHdr(s) == IF s.align THEN 12 ELSE 10
SubPacketLen(s, a) ==
  LET w == IF s.align THEN 4 ELSE 2 IN w * ((a.bits + 8 * w - 1) \div (8 * w))

\* enI106_Decode_FirstPcmF1, for the packet at r.at.
FirstOf(s, a, r) ==
  LET bytes == s.packets[r.at]
      ready == Prepared(s, a, r)
  IN CASE bytes = 0 \/ (~s.thru /\ bytes < IntraPktHdr(s) + SubPacketLen(s, a)) ->
            [r EXCEPT !.ret = "NO_MORE_DATA"]
       [] bytes # 0 /\ ~s.thru /\ bytes >= IntraPktHdr(s) + SubPacketLen(s, a) ->
            [ready EXCEPT !.ret = "UNSUPPORTED"]
       [] bytes # 0 /\ s.thru /\ a.noSwap = 0 /\ ~Swappable(s, bytes) ->
            [ready EXCEPT !.ret = "INVALID_DATA"]
       [] OTHER -> DecodeMinorFrame(a, [ready EXCEPT !.pos = 0], Data(s, a, r.at),
                                    BaseTime(s, r.at))

\* The frames returned, with the one that ended at the stream's bit where the search is.
Note(r) == frames' = IF r.ret = "OK" THEN frames \cup {BitsBefore(str, r.at - 1) + r.pos} ELSE frames

\* The next packet, when the one before has no more frames.
FirstPcmF1 ==
  /\ att.ready /\ run.ret \in {"OPEN", "NO_MORE_DATA"} /\ run.at < Len(str.packets)
  /\ LET moved == [run EXCEPT !.at = @ + 1,
                              !.from = IF run.prepare THEN BitsBefore(str, run.at) ELSE @]
         r == FirstOf(str, att, moved)
     IN run' = r /\ Note(r)
  /\ UNCHANGED <<str, att>>

NextPcmF1 ==
  /\ run.ret = "OK"
  /\ LET r == DecodeMinorFrame(att, run, Data(str, att, run.at), BaseTime(str, run.at))
     IN run' = r /\ Note(r)
  /\ UNCHANGED <<str, att>>

\* FreeOutputBuffers_PcmF1: the caller starts over, as it must after packets that are lost.
StartOver(lost) ==
  /\ run.ret \in {"OK", "NO_MORE_DATA"} /\ run.at + lost <= Len(str.packets)
  /\ run' = [run EXCEPT !.prepare = TRUE, !.out = <<>>, !.at = @ + lost, !.ret = "OPEN"]
  /\ frames' = {}
  /\ UNCHANGED <<str, att>>

PcmNext == FirstPcmF1 \/ NextPcmF1 \/ \E lost \in 0..1 : StartOver(lost)

PcmSpec == PcmInit /\ [][PcmNext]_pcmvars

-----------------------------------------------------------------------------
(* Properties.                                                              *)

\* The search writes words only inside the output buffer.
PcmTypeOK ==
  /\ run.ret \in {"OPEN", "OK", "NO_MORE_DATA", "INVALID_DATA", "UNSUPPORTED"}
  /\ run.at \in 0..Len(str.packets) /\ run.test \in 0..(WORD - 1)
  /\ run.save \in 0..2 /\ run.mfWords \in Nat /\ run.sync \in Nat \cup {Absent}
  /\ run.over = FALSE

\* The bits of the stream before position t, n of them.
BitsTo(s, t, n) == SubSeq(s.bits, t - n + 1, t)

FrameBits(s) ==
  IF s.prec.bits = Absent THEN s.prec.wordLen * (s.prec.words - 1) + Len(s.prec.pat)
  ELSE s.prec.bits

\* Where in the stream sync words end that begin not before `from'.
SyncEnds(s, from, to) ==
  {t \in (from + Len(s.prec.pat))..to : BitsTo(s, t, Len(s.prec.pat)) = s.prec.pat}

\* The word, with what may be above it, that the buffer has from some bits.
IsWord(n, bits) == \A i \in DOMAIN bits : (n \div 2 ^ (Len(bits) - i)) % 2 = bits[i]

\* A frame that is returned was sent: its words, in the output buffer, are all the bits
\* between two sync words in the stream that are just a frame apart, also when it began in
\* an earlier packet.
FramesAreRecorded ==
  run.ret = "OK" =>
    LET t == BitsBefore(str, run.at - 1) + run.pos
        p == str.prec
        start == t - FrameBits(str)
    IN /\ {start, t} \subseteq SyncEnds(str, run.from, t)
       /\ \A w \in 1..(p.words - 1) :
            IsWord(run.out[w], SubSeq(str.bits, start + (w - 1) * p.wordLen + 1,
                                      start + w * p.wordLen))

\* The sync word that ends at t is the next one after another, a frame before it.
InStep(s, ends, t) ==
  /\ t - FrameBits(s) \in ends
  /\ \A u \in ends : u < t => u <= t - FrameBits(s)

\* When a packet has no more frames, exactly those have been returned that end with a sync
\* word in it or in a packet before, next after one that is a frame before it, but for the
\* frames at the start of a row of these that are needed to be in sync; and each sync word
\* that is not in step with the one before it was counted as an error.
FramesAllFound ==
  (run.ret = "NO_MORE_DATA" /\ ~run.prepare) =>
    LET ends == SyncEnds(str, run.from, BitsBefore(str, run.at))
        enough == IF att.minSyncs > 1 THEN att.minSyncs ELSE 1
        stray == {t \in ends : (\E u \in ends : u < t) /\ ~InStep(str, ends, t)}
    IN /\ frames = {t \in ends : \A k \in 0..(enough - 1) :
                                    InStep(str, ends, t - k * FrameBits(str))}
       /\ run.errors = Cardinality(stray)

=============================================================================
