# A TLA+ model of irig106lib

irig106lib reads and writes IRIG 106 Chapter 10 recordings: files of packets, each with
a 24 byte header (sync pattern, length, checksum), an optional 12 byte secondary header,
data, filler and a data checksum; and the same packets streamed over UDP. This directory
holds TLA+ modules of the library's stateful parts, the TLC configurations that check
them on small instances, and TLAPS proofs that hold for every size.

Source paths are those of the repository, `src/` being its C directory. The model
follows a 64 bit Linux build with `IRIG_NETWORKING` defined as in `gcc/Makefile:9` and
without `NDEBUG`: `long` has 64 bits, asserts abort.

## 1. The system

### Components, their state and their operations

| Component | Source | State | Operations |
|---|---|---|---|
| Handle table | `irig106ch10.c` 100-483, 1942-1981; `i106_data_stream.c` 180-518 | `g_suI106Handle[100]` (bInUse, enFileMode, iFile), `m_suNetHandle[100]` (enNetMode, socket) | Open, OpenStreamRead, OpenStreamWrite, Close, GetNextHandle |
| File reader | `irig106ch10.c` 491-1124, 1288-1535 | per handle: file position, enFileState, length fields of the current packet | ReadNextHeader, ReadPrevHeader, ReadData, FirstMsg, LastMsg, SetPos, GetPos |
| Writer, packet formatting | `irig106ch10.c` 1130-1281, 1550-1897 | the file, ulTotalBytesWritten | WriteMsg, WriteMsg2, header init, buffer size, filler, checksums |
| In-order index | `irig106ch10.c` 790-838, 2001-2192; `i106_time.c` 464-525 | sorted array of (offset, time), current entry, index file | make, sort, read, write the index, ReadNextHeaderInOrder, SetPosToIrigTime |
| Recording index | `i106_index.c`, `i106_decode_index.c` | node array of a handle, chain of root packets | read, build, sort the index, FindTimePacket |
| Network stream | `i106_data_stream.c` | receive buffer, segment state, sequence numbers | ReadNetStream, DumpNetStream, MoveReadPointer, WriteNetStream |
| Time reference | `i106_time.c` | one time reference per handle | SyncTime, SetRelTime, Rel2IrigTime, Irig2RelTime |
| Time packets | `i106_decode_time.c` | none | decode and encode BCD time, day of year |
| Message iterators | `i106_decode_{1553f1,16pp194,arinc429,uart,can,discrete,ethernet,video,message,index}.c` | a cursor in a packet's data | First, Next |
| PCM frames | `i106_decode_pcmf1.c` | attributes of a channel; test word, frame and sync counts of a search that goes on over packets | set the attributes, First, Next, start over |
| Analog | `i106_decode_analog.c`, `i106_decode_analogf1.c` | | not built, does not compile |
| TMATS | `i106_decode_tmats*.c` | lines, lists of records connected by names, `m_iTmatsVersion` | decode, find, free, encode, signatures |
| SHA-256, C++ wrapper, Python, build files | `sha-256.c`, `irig106cl.cpp`, `python/` | none of their own | |

### How they interact

* Reader and writer keep their file position in the operating system (`read`, `lseek`);
  the handle holds the lengths from which the next and the previous position follow.
  Every position call (`SetPos`, `FirstMsg`, `LastMsg`) must reset them.
* A stream handle has the same slot in two tables. Reads of the file reader call
  `ReadNetStream`, and its skips `MoveReadPointer`, instead of the file calls.
* The two indexes and the time reference sit on top of the reader: they save a position,
  read packets with the reader's own calls, and restore it.
* Decoders work on the data buffer of one packet and do not touch the handle. The PCM
  search keeps half a frame from one packet of its channel to the next.
* The TMATS decoder works on the data of the first packet. Its version and the structure
  it fills are static variables, which outlive a call.
* There are no threads and no callbacks. The actors beside the calling program are the
  operating system (descriptors are reused), the sender and the network.

### What is hard

The order of calls (any call may follow any other, after any error), damaged files (sync
patterns in payloads, bad checksums, torn packets, zero lengths), boundaries (first and
last packet, unsigned differences), failed opens, datagrams lost, repeated or out of
order in the middle of a packet, and state that is stale after a failed or skipped step.
`PROJECT.json` lists each hazard at its line with the properties that watch it.

### What makes each component correct

* Handle table: a call touches only its own handle's descriptor; none leaks.
* Reader: position and lengths describe one header; reading forward returns every intact
  packet, once, and ends; backward, the predecessor; no call aborts.
* Network stream: a buffer given to the reader is whole packets; data belongs to its
  header; headers keep their order, and without loss none is missing.
* Writer: what is written is read back as it was, and nothing else is in the file.
* In-order index: a sorted permutation of the packets, and a search that finds the first
  at or after a time.
* Recording index: nodes cover the packets of their channel; reading it moves nothing.
* Time: conversions are inverse to each other; the position is restored.
* Iterators: a walk returns the recorded messages, ends and stays inside the data.
* PCM: exactly the frames in step are returned, also those cut by a packet's end.
* TMATS: the tree has what the lines say, whatever their order, and a record points to
  those that carry its name.

## 2. Modules

| Module | Models |
|---|---|
| `Ch10Reader` | one file handle opened for reading, every call on it |
| `PacketCursor` | abstract specification: a cursor over a recording's packets |
| `ReaderCursor` | the refinement mapping from `Ch10Reader` to `PacketCursor` |
| `MCReader` | small files and bounds for the three above |
| `Ch10ReaderProofs` | proofs about `Ch10Reader`: its invariants, what a call may not skip or miss, and lemmas about loops over headers |
| `ReaderCursorProofs` | the proof that `Ch10Reader` implements `PacketCursor` |
| `Ch10Writer` | a file opened for overwriting, the calls that write, writes that fail |
| `WriteReadBack` | `Ch10Writer` and `Ch10Reader` over one file: written, then read to its end |
| `MCWriter` | short messages and bounds for the two above |
| `HandleTable` | both handle tables over the system's descriptors |
| `MCHandles` | the run of `HandleTable` |
| `HandleTableProofs` | proofs about `HandleTable` |
| `NetStream` | sender, network and receive buffer |
| `StreamReader` | header and data reads of a stream handle over `NetStream` |
| `MCStream` | small packets and bounds for the two above |
| `StreamReaderProofs` | proofs about `NetStream` and `StreamReader` |
| `HeaderWalk` | what a loop over ReadNextHeader and ReadData of `Ch10Reader` comes to |
| `InOrderIndex` | the index of a handle by time, over `Ch10Reader` |
| `MCInOrder` | small recordings out of order, and the claim about the search |
| `InOrderIndexProofs` | proofs about `InOrderIndex` |
| `RecordingIndex` | index packets in a recording and the table read from them, over `Ch10Reader` |
| `MCRecIndex` | recordings with sound, cyclic, empty and damaged indexes |
| `RecordingIndexProofs` | proofs about `RecordingIndex` |
| `TimeCodec` | the pure part of time: packets, stamps, calendar, conversions |
| `TimeReference` | a handle's time reference, over `Ch10Reader` and `TimeCodec` |
| `MCTime` | recordings over the ends of days, months and years |
| `TimeReferenceProofs` | proofs about `TimeReference` |
| `MessageWalk` | First and Next of eleven packet formats |
| `MessageWalkProofs` | proofs about `MessageWalk` |
| `PcmFrames` | the search for PCM minor frames over the packets of a channel |
| `MCDecoders` | packets with damage, and PCM streams, for the two above |
| `Tmats` | the TMATS decoder, Find, and what the IRIG signature hashes |
| `MCTmats` | setup records: pairs of lines, repeats, every order of linked records |

Operators named after another with a suffix (`Seek_keepsState`, `FollowSeq_blind`) are
slips: a version of that operator with a plausible bug, used to see that a property
notices it. No action uses them.

A module states its type as an invariant where the type carries something: the reader
(positions stay natural numbers) and the decoders; that of the handle table is proved only.

### Ch10Reader

* `rd` is `enFileState`, the file position and `ulCurrHeaderBuffLen`, `ulCurrPacketLen`,
  `ulCurrDataBuffLen`, `ulCurrDataBuffReadPos`; `ret` is what the last call returned.
* A file is its size and, at each offset where the sync pattern has room for a header
  behind it, what the code finds out there: checksum right or not, secondary header, its
  checksum, packet length, TMATS or not. Patterns in payloads are among them; where the
  recorder put its packets is a ghost (`pkts`).
* One action per call. The loop of `ReadNextHeaderFile` over bytes is `SearchStops`, the
  first offset where it stops; the loop of `ReadPrevHeader` over blocks of 256 bytes is
  `Hits`, `LastBlock` and `AfterScan`; that of `LastMsg` is `LastMsgTries`. A failed
  assert is the status `ABORT`.
* The buffer `ReadPrevHeader` scans is not set when a read comes up short (line 945), so
  its content there is a choice in the model.
* Left out: `read()` failing with a device error, which the code treats like the end of
  file but for the status, and what is inside the data.

### Ch10Writer and WriteReadBack

* `disk` is the file as a sequence of bytes; a byte is (packet, place in the packet), so
  that the model knows whose bytes the reader takes for a header. `wr` is the handle
  (position, `ulTotalBytesWritten`), `log` a ghost: each packet whose write began, where,
  and how much of it was stored.
* `Write` is WriteMsg or WriteMsg2: a call of `write()` for each of `Pieces`, or
  `Pieces2`, in their order, up to the first that stores less than it was given. The code
  neither undoes nor repeats such a write, so the file has any prefix of the packet and the
  next call goes on behind it. A program that dies has the same effect as Close, as the
  library buffers nothing.
* `HeaderLen`, `DataBuffReqSize`, `PacketLen` and `FillSize` are the layout that
  uAddDataFillerChecksum2 computes, with their 32 bit modulus; `Trailer` is the filler and
  the data checksum, summed by `CalcDataChecksum` over one buffer, or over the channel
  specific data and the rest. `BYTE`, the values of a byte, is 8 (256), and `UINT32` its
  fourth power. If the channel specific data are no whole number of words (the standard's
  are 4 bytes) the sum over two buffers is not that over one; `ChecksumReadBack` excepts it.
* `TRUNCATES` tells the Windows flags of `open()` from the GCC ones (lines 269 and 272).
* `FileOnDisk` turns the bytes into what `Ch10Reader` takes for a file. The program then
  calls the open for reading, FirstMsg, and ReadNextHeader until EOF, with or without
  ReadData. A header with bytes of two packets has a bad checksum: the model leaves out
  that the 16 bit sum may agree by chance.
* Left out: iHeaderInit, a trailer buffer that is too small (the filler is cleared before the
  check for that, 1847), an `open()` that fails (it is in `HandleTable`). I106_APPEND is declared (irig106ch10.h:181), but the open refuses it.

### HandleTable

* `slot` and `sock` are the two tables, `fds` who has each descriptor, `touch` whose
  descriptor the last system call named and whose it was. The program around the library
  opens and closes files too, so that a stale number is reused.
* `lapse` is a ghost: a stream open has failed, or a stream handle was given to WriteMsg.
  These are the two places where the code loses track of whose descriptor a slot has, and
  `TouchesOwnFd` and `HoldsOwnFd` say that they are the only ones.

### NetStream and StreamReader

* Lengths are in units of 12 bytes, which divides all header sizes. A unit of data is
  (packet, place), so that a mixed up buffer shows.
* `rcv` is the receive side of `m_suNetHandle`, `wire` the datagrams from sender to socket.
  `Receive` is one turn of the loop of `ReadNetStream`. The peek, the sequence check and
  the receive of one datagram are one step, as nobody else reads the socket;
  `DropBadPacket` on a datagram already received waits for the next, so it is a step of
  its own (`DropNext`).
* A read call that waits is in `call`, and sender and network go on meanwhile.
* The sender is `WriteNetStream` as built for Windows; on other systems the code that
  sends is still a TODO. Its bug at line 1200 (see below) is part of it. `RecorderSends`
  is another sender, which puts several packets in one datagram.
* Left out: PCAP input, addresses and ports, errors of `recvmsg` itself, a sync pattern
  met by chance inside a payload.

### HeaderWalk

The index and time routines call ReadNextHeader, and some of them ReadData, in loops. Such a
loop is one step of the calling routine, so `Headers` gives the offsets it visits, by the
same `HeaderSearch` that `Ch10Reader`'s actions use, and `FirstStop` says where it ends.

### InOrderIndex

* `idx` is `SuInOrderIndex`: all entries of the array, the number used, the current one, the
  number of search steps and whether it is sorted; `stored` the index file beside the
  recording; `got` and `trail` are ghosts: what reading in order has returned, and what the
  index was built from.
* `MakeInOrderIndex`, `WriteInOrderIndex`, `ReadInOrderIndex`, `ReadNextHeaderInOrder`,
  `SetPosToIrigTime`, FirstMsg and LastMsg by index, and the reader's own calls between
  them. An entry that realloc left unset is `Junk`; any offset may be read from one.
* qsort's outcome is any sorted order of what it is given: the entries behind the first two
  (`&asuIndex[2]`, `ulEntries - 2`). With less than two entries the count is negative,
  which ends the program.
* The handle's index outlives Close: the next file is read with it unless it is made again.
* `MAX_ENTRIES` bounds the array, `CHUNK` the number of entries by which it grows (100).

### RecordingIndex

* `tbl` is the node array of a handle with its room and increment, `tref` the time packet
  found for it, `job` the loop over root packets in progress, a message at each `RootStep`;
  `call` is a ghost of what the call began with.
* `Content` says what is in each packet: channel, type, times, and an index packet's messages.
  A time decoded from what is no time packet, or never set, is `Garbage`.
* FindTimePacket starts at the offset half way through the file, which need not be that of a
  packet, so what it finds depends on the header search from there, as in the code.
* A message's offset is not negative, though its field is signed.
* `MAX_NODES` is the length of the table up to which it is read or made again; `TIME_LIMIT` and `INCREMENT` are the
  seconds looked for a time packet and the room added to the table.

### TimeCodec and TimeReference

* `tref` is `m_asuTimeRef[handle]`; `own` the `SuTimeRef` of a program that keeps its own;
  `synced` a ghost: the reference is that of the open file, from a successful search.
* `SyncTime` is the whole loop and its early return before the position is restored; the
  reference outlives Close and Open.
* `Irig2Rel` has the unsigned difference of line 264, scaled: `FRAC32`, the width of the
  fraction, is 2^30 (2^32), and `TIME48`, that of the counter, 2*10^9 (2^48), as TLC's
  integers have 32 bits. `NTP_ONE` is 128 (2^32). All of them are larger than the numbers
  the recordings have, as in the code.
* `gmtime` is what a calendar is; `mkgmtime`, `Doy2Dm` and the table of days are the code's.
* Left out: IrigTime2String, for display; rounding in the floating arithmetic of Ch 4 seconds.

### MessageWalk

* `pkt` is a packet as it was recorded, and what is wrong with it: a wrong count, a part of the
  data missing, or one message with a wrong length. `walk` is the caller's `Su..._CurrMsg`:
  message number, offset and pointers as offsets; `got` a ghost of the messages returned.
* The three families of the code are `CheckedFirst` and `CheckedNext` (1553, 16PP194,
  message), `CountedFirst` and `CountedNext` (ARINC 429, Ethernet, index, CAN), and `Left`,
  where the data end when the packet does (UART, discrete, video).
* Outside the recorded messages a length is what lies there: `junk`, any of a few numbers.
* `MAX_COUNT` is the 1553 limit (100000), `MAX_EXTRA` how often the program asks on after
  the end, `MAX_GOT` the room of the ghost, larger than any packet here.
* `BusWords` is where the pointers of a 1553 message point, by its command; `BusLayout`,
  in `BusWordsFound`, the words that are on the bus. Both commands of an RT-to-RT message
  are one value.

### PcmFrames

* `att` is the attribute structure, from a P group or set by the program, `run` the search: the
  test word, bits and words counted, the output buffer, what is left of the packet.
* A stream is its bits and the bytes of each packet; a recorder swaps bytes, and words in
  32 bit alignment, so the decoder's own swaps are checked against it. `BYTE` and `WORD`
  scale the bits of a byte (2 for 8) and the width of a stored word.
* The search is one fold over the bits of the packet, up to a frame or the end of the data.
* Left out: parity (CheckParity is never called), error flags (never set). Of the arguments
  of Set_Attributes_Ext only the minimum of syncs and the swap are varied; the branch of
  NextPcmF1 for the other modes (301-331) is not modelled, as First refuses them.

### Tmats

* `text` is a sequence of attributes as they stand in the packet, with their `:` and `;` or
  without; `lines` what TmatsBufferToLines makes of them, `nodes` the tree: the C lists
  within lists as one sequence of records in the order of their allocation, each with the
  path of list names and indexes that leads to it. `version` is the static `m_iTmatsVersion`.
* `Rows` is what each line decoder compares a line with, in its order, with the list each index
  leads through. `NextLine` decodes one line: the records on its path are made when missing,
  also for an unknown code; the item goes to the first row that takes the line.
* `ConnectM` to `ConnectD` are the vConnect functions in the order of the code, with their
  asserts: a second match ends the program (`ABORTED`) in a build with asserts, as the
  Makefile's is, and overwrites the first in others; both are in the model.
* Abstracted: the fields of a list that are stored alike have one row. Case folding (`Fold`)
  and atoi (`Number`) are constants on the words used. Codes, names and the names Find is
  asked for are compared as strcasecmp does (`Same`); the letter of a group exactly, as the
  switch does.
* Excluded from the texts, as the code reads unset memory on them: a G line without `\`,
  a COMMENT line without `:`. A SuTmatsInfo must be zeroed before its first decode.
* Left out: encoding, the other signatures, the channel specific data word, M
  subchannels, and the T, S, H, V groups (the code skips them, as this one does).

## 3. Checks

Every passing run checks its properties over all reachable states, and each property has
a mutant in `PROJECT.json`: the same run with one operator replaced by its slip finds it
violated.

| Run | Question | Bounds |
|---|---|---|
| `reader_core` | do position and lengths agree, does anything abort, is an intact packet passed over, whatever the file and the order of calls; does a program that at last only reads reach the end? | files of 1 to 5 packets, sound and with every kind of damage, header 2, secondary header 1, scan block 3 |
| `reader_cursor` | does the reader implement the cursor; does reading back find the predecessor, LastMsg the last packet? | 6 recordings up to 5 packets, with patterns in payloads |
| `write_read_back` | is what was written whole read back, whatever failed and whatever was in the file before; is the data's checksum right? | 5 messages with every width of checksum and filler, 4 packets over 2 openings, 1 failed write; header 4, secondary header 4, sync pattern 2 |
| `handles_own` | whose descriptor does each call touch; does any leak? | 2 handles, 3 descriptors |
| `in_order` | is the index a sorted permutation, and does reading by it return every packet once? | recordings of 4 packets and of 1, times out of order; header 2; array chunk 2, 6 entries |
| `rec_index` | is the table what was recorded; does reading it end, and leave the place alone? | 9 recordings: one and two roots, roots that link to each other, without messages, with too little data or that name no node, no index, no time packet, or one that comes too late |
| `time` | does every counter become the recorder's clock; is the place kept; do times survive every format? | 3 recordings of 3 and 5 packets over 29 February, 31 December of a leap year and of another; limits 0 and 5 s |
| `decoders` | does a walk return the messages, end, and stay inside? does the PCM search return exactly the frames in step? | up to 3 messages of each of 11 formats, each with every single damage; PCM: sync word of 3 bits, 2 words of 2 bits, streams of 4 frames, sync words among the data or damaged, over packets of 0 to 8 bytes of 2 bits |
| `tmats` | does the tree hold the lines; do links follow names; what does the signature skip? | all pairs of 33 kinds of lines, in capitals or not, all triples of 5 lines that repeat, every order of 9 linked texts of up to 5 lines, of an old, a new and no version, with and without an M record between R and P, any text after any other |
| `stream_receive` | what reaches the caller from a bad network? | packets of 2 to 11 units, largest datagram 4, buffer 5 growing, packets sent plus mishaps up to 4 |

Why the bounds are enough. *Reader*: the code looks at the header it is at and the
lengths of the one before; two neighbours with every pair of kinds, a third packet for
what comes behind, and a scan block shorter than a packet reach every branch. Offsets
given to SetPos are all those of the small files. *Writer*: a wrong
layout shows with one packet behind another; a hidden packet needs one failed write and
one packet behind it; an old recording needs a second opening and two packets on each
side, the second one longer. *Handles*: an error needs one handle
with a stale number and one owner of the same number. *Stream*: a wrong buffer needs two
segmented packets and two losses (the end of one, the start of the next); three segments
are the least with a middle one; the 24 bit number begins two datagrams before it
wraps. *In-order index*: the first two entries are not sorted, so four
packets are the least that are sorted at all, and over a chunk of 2 they make the array
grow twice; six entries are an index built or loaded behind a part of another one.
*Recording index*: two roots are the least that link; the walk over messages looks at one
node at a time. *Time*: the errors are at borders (carry of a fraction, end of a
day, February, a year), and each recording crosses one with packets on both sides of it.
*Decoders*: First and Next look at one message and the one before, so three messages have
each pair; every format has an odd and an even length where lengths vary. *PCM*: a frame
is cut by a packet's end at every bit, a sync word in the data of one, a damaged one in
another stream. *TMATS*: a line meets the tree in the state the line before left it, so pairs
find what one kind does to another; connecting depends on the order of two records and
the link, so every order of a whole text is tried.

Two runs end in a violation, of what a comment of the code says:

| Run | What the code does |
|---|---|
| `in_order_seek` | SetPosToIrigTime's binary search (`i106_time.c` 478, "do a binary search for time") looks at the same middle entry in each step (line 509) and returns I106_OK with that entry current, whatever the time |
| `tmats_version` | the version of a text (`i106_decode_tmats.c` 303, "Figure out the TMATS version", by which the names that connect a data source are chosen, 611) is a static (304): a text without `G\106` after one of 106-05 is connected by the names of 106-05, as the first text decoded it would not be |

#### Met while modelling

These are in the model; the properties say where they matter.

Reader, writer, handles (`irig106ch10.c`):
* ReadPrevHeader returns SEEK_ERROR with the header it found at offset 0 (979). After
  HEADER_CHKSUM_BAD an intact header in the bytes just read is never looked for (685),
  which is why `ReadsBack` excepts packets that begin where a torn one should have been.
* LastMsg does not find a last packet without data (1391), and on a file not longer than a
  header reaches the assert of SetPos (1402-1406), hence the precondition of `NeverAborts`.
* An open with READ_IN_ORDER never succeeds, as the probe uses a reader that refuses that
  mode (554); one that gives OPEN_WARNING leaves the reader behind the first packet (232).
* Overwriting a longer recording with the GCC build leaves its end in the file, which is
  read as part of the new one (272).
* Close of the handle a failed stream open leaves closes a descriptor of somebody else
  (453); WriteMsg on a stream handle writes to a stale descriptor (1147).

Network stream (`i106_data_stream.c`):
* A segment with less than 36 bytes of data costs the datagram after it too (984); one of
  less than 13 bytes stays in the socket and fails every read (876); a packet in whose midst
  the sequence number wraps is dropped (900); two packets that fit in one datagram end the
  sender in an assert (1200).

Indexes and time (`i106_index.c`, `i106_time.c`):
* An index with intra-packet times of a recording without a time packet is read through a
  null reference (`i106_index.c` 321, 558).
* Irig2RelTime subtracts fractions as uint32_t (264): where the fraction is below that of the
  reference the counter is 2^32 ticks too large, although the comment at 250 calls it the
  inverse. `SyncedClock` claims the inverse for the other times only.
* A Ch 4 stamp's hundredths of a second do not get into the fraction (281-290), which is why
  `BestTime` claims only its second. A day format time has no year: 1971 or 1972.
* SyncTime's early return leaves the position moved (371), and the handle's reference
  outlives the file; READ_IN_ORDER is refused.

Iterators (`i106_decode_*.c`):
* ARINC 429, Ethernet, CAN First, video First and index Next look at no length; the
  others read a header before they check that it is inside. `InsideData` claims the whole
  message where the code checks it and its beginning where it checks that.
* 1553 First refuses a count over 100000 with its pointers unset; 16PP194 takes 36 bytes
  for every message whatever it says; message data does not pad odd lengths; video First
  never says that there is nothing; Ethernet format 1 trusts uIPHLength in First and the
  structure's size in Next; CAN's pointer to the data is at the id word.
* A broadcast or timed out 1553 message has no status word; its pointer is behind the message.

PCM (`i106_decode_pcmf1.c`): stored words keep the bits above them; the sync count of the P
group is not used; a lost packet of the right length makes a frame of two halves, so the
program must start over; First twice on one buffer swaps it back; a packet of odd length is
refused, as is any mode but throughput; the time is that of the bit behind the sync word,
where the comment at 678 says the sync word's (no property speaks of a frame's time). The word mask is combined with the sync mask
(Set_Attributes_Ext) and odd parity is set to even.

TMATS (`i106_decode_tmats*.c`):
* POC1 is filled by the creating, copying and modifying organizations alike; the second
  and third user defined word replace the first; `SS\N`, `VCO\OLF` are compared as other codes;
  `AEF` codes with a `-` never match, as `-` was made a blank. `MCR` and `MRC` differ between
  decoder and header.
* A text without a version is connected by that of the text decoded before it
  (`tmats_version`); `LinksFollowNames` lets such a text follow either version's names. The
  comment at `i106_decode_tmats.c` 361-365 says R-CDLN is not connected where M is; vConnectR
  does. `LinksFollowNames` allows both, and says whither a link that is made may lead.
* An attribute without `;` takes what follows into its item; an unknown code still makes a
  record; Find returns the first of two lines, the tree holds the last. Find takes `r-1\ID`
  for `R-1\ID`, while the decoder passes over a line whose group is not a capital.
* The IRIG signature of a text that ends with `G\SHA` hashes as many characters as that
  attribute has, not those before it (1451); hence "but at the end" in
  `SignatureSkipsSha`. Where the attribute begins the text and has no end, the end is unset.

### Fairness

* `reader_core`: `ReachesEof` is about a program that, after any calls at all, only reads
  (`KeepReading`: a next header, or the data of the header it has just read) until it gets
  EOF. That it does so, and goes on calling (weak fairness), is the property's hypothesis;
  every call returns, so nothing else is assumed. Its conclusion excludes a header with length zero, on which the
  code really returns the same header for ever.
* `rec_index`: `RootStep` is a turn of a loop inside one call, so once the call has begun
  the processor goes on with it. `ReadIndexesReturns` is claimed for roots that
  end; on a cycle of roots the code really does not return.
* `decoders`: `FairWalk` is a program that calls Next until it is told that there is no more.

Nothing is assumed of the network: `stream_receive` has safety properties only.

Deadlock is not checked where the system may stop: a program ends at EOF
(`write_read_back`) or in an abort or crash (`in_order`, `rec_index`, `time`, `tmats`),
all calls within the bound were made (`decoders`), or a reader waits for datagrams that do
not come once the bound is reached, which is what the call does (`stream_receive`).

## 4. Proofs

The theorems hold for every value of the constants. What they assume is the named ASSUMEs
of the modules (sizes are positive, files are well-formed), which every run evaluates, and
the hypotheses that a theorem states itself, given below with their reasons.

### File reader

On every set of files, sound or damaged, with every header, scan block and buffer size
(`Ch10ReaderProofs`):

* `TypeCorrect`: `Spec => []TypeOK`. The point is that the position stays a natural number
  through the subtractions of ReadPrevHeader and LastMsg.
* `PositionAlwaysConsistent`: in state ReadData the lengths are those of a good header
  that ends where the data begins; otherwise no stale length is used.
* `NeverAbortsOnFiles`: no call reaches the failing assert, on files longer than a header.

The inductive invariant is `IInv == TypeOK /\ PositionConsistent /\ OpenHasSync`. The last
conjunct, that an open reader is on a file that begins with the sync pattern, is what
stops LastMsg's search before offset 0: without it the step of LastMsg cannot be done.
`ReaderInv` is the part of it that says nothing of `ret`; the modules composed with the
reader carry that part.

Of single steps, from the same invariant and `OpenIsNotClosed`:

* `IntactPacketsFound`: the header search passes over no intact packet (`NoIntactPacketSkipped`).
  It rests on the packets being apart: two that overlap cannot both be found.
* `LastPacketFound` (`LastMsgFindsLast`) and `PreviousPacketFound` (`PrevIsPredecessor`).

`ReaderImplementsCursor` (`ReaderCursorProofs`): every step of `Ch10Reader` is one of
`PacketCursor` or a stutter. It assumes `OnRecordings`: the files are recordings that
were not damaged (on others there is no sequence of packets to be a cursor over), opened
with `READ`, and the caller's buffers fall short of 2^32 by a header. Payloads may hold any
sync patterns. The last assumption is needed: a false header in a payload with a packet
length below the header's size gives a data length that wraps to nearly 2^32, which
ReadData refuses with BUFFER_TOO_SMALL only because no buffer is that large.

### Indexes and time reference

`Ch10ReaderProofs` has the lemmas on the loops over headers: a walk has a length and each
of its headers comes after the one before (`WalkInOrder`), a search stops at the first
header that will do (`SearchFindsNext`), a seek back to a saved position leads to the same
next header (`SeekKeepsPlace`).

* `TimePositionConsistent`, `SyncReturnsToPlace` (`SyncKeepsPlace`), `SyncTakesFirst`
  (`SyncFindsTime`), in `TimeReferenceProofs`. The invariant `TimeInv` adds to `ReaderInv` that
  the reference keeps its fields.
* `IndexReturnsToPlace` (`IndexKeepsPlace`) and `MadeIndexComplete` (`MakeIndexFindsAll`), in
  `RecordingIndexProofs`. ReadIndexes is many steps, so its place must be carried through
  them: `JobReturns` says that while the loop goes on, a seek to the saved position still
  leads to the header that was next when the call began. `RecInv` is that, `ReaderInv` and
  the property.
* `IndexRecorded` (`IndexIsRecorded`), in the same module: what is read from an indexed
  recording (`Indexed`, `Timed`) into an empty table is each entry the recorder made, once, in
  the order of time, with the time of the clock. Its invariant is `JobRecords`: while the loop
  goes on it is at root n of the chain with some of its messages done (`AtRoot`), the table holds
  the entries of the roots before and of those messages (`Records`: a bijection with them,
  `ReadSoFar`), and the reference fits the clock (`KeepsTime`). Three facts carry it. FindTimePacket
  finds a time packet that is not too late for it, though it starts at an offset inside some packet
  (`FindsTime`). The chain visits no root twice before the one that names itself (`WalkToEnd`),
  so no entry is read twice and the loop ends with all (`SoFarMore`, `SoFarAll`). qsort rearranges
  and loses nothing (`RecordsReordered`). The table's order while reading does not matter, as only
  the sort at the end gives it.
* `IndexListsPackets` (`IndexIsSortedPermutation`) and `EachReadOnce` (`InOrderOnce`), in
  `InOrderIndexProofs`, with no assumption on the files: the properties speak of the sound
  recordings among them. The invariant `IndexInv` says that the entries list the packets
  (`Lists`: each once, with its time, sorted behind the first two) wherever the ghosts `trail`
  and `stored` claim so, of the array and of the index file. The array's part cannot be carried
  alone, as the file is written from the array by one open and loaded by another.
  `MakeIsInOrderWalk` is the loop of the make: on a sound recording it
  visits each packet and stops at the end of the file, and then `SortedLists` holds for any
  outcome of qsort. An index has no two entries of one packet, so the place that a read looks
  up is the entry's own (`EntryIsFound`). A second make adds to the entries of the first, so it
  has two at least and does not abort (`MakeReadsAnew`).

### Handle table

For every size of the tables (`HandleTableProofs`): `TableTypeCorrect`,
`DescriptorsNeverLeak` (in all states), and `OwnDescriptorOnly` and `OwnDescriptorHeld` (up
to the first lapse). The inductive invariant is
`OwnInv == TypeOK /\ NoFdLeaked /\ HoldsOwnFd /\ TouchesOwnFd`: none of the last three can be
carried through a Close without the other, as Close frees the number its slot names.

### Network stream

For every packet, header, datagram and buffer size, every sender and every network
(`StreamReaderProofs`):

* `BufferAlwaysWhole`: `Spec => []BufferIntact`.
* `DataIsOfItsHeader`: `Spec => []DataOfHeader`.
* `HeadersKeepOrder`: `Spec => OrderKept`, the order of the headers.
* `NoneSkipped`: `Spec => NothingSkipped`, every header where nothing goes wrong.

The first two are not inductive, nor both together: why a gap is noticed is in the datagrams
that were sent long ago. The invariant `StreamInv` says that there is a log of all of them:
* `Logged`: datagram k has number `first + k - 1` modulo 2^24, holds whole packets or
  the part of a packet behind that of datagram k - 1, and what is on the wire is in the log,
  or carries no data of a stream;
* `BufferHeld`: a buffer that is ready is whole packets, and one that waits for more holds a
  packet from its beginning up to datagram k of the log, whose number is the last received.
  The next datagram goes into it only with the number behind that, so it is k + 1 of
  the log, and by `Logged` the next part of the packet;
* `ReaderFits`: the lengths the reader has are those of the packet whose header it read, and its
  data are at the read pointer.

The order needs `OrderInv` beside it: as long as nothing was overtaken or duplicated
(`InStep`), the packets that begin on the wire come after the last header read (`Mark`), each
after those before it (`InTurn`); those in the buffer come in their order, before all on the
wire, and behind the read pointer's place after `Mark` (`BufferInTurn`); so does a packet in
part received (`PartialInTurn`). While a secondary header is still to come, `Mark` is its
packet and no longer `rd.pkt`: the buffer is already past the first part of the header. A lost or
dropped datagram thins the sequence and leaves it in order (`Thinned`).

That none is left out needs `SkipInv` beside both. As long as the session is `Flawless`:
* `Linked`, `Taken`: on the wire each datagram is whole packets or a part of one, each packet
  begun goes on in the next datagram, with the next number, and none is of a size at which the
  receiver drops it;
* `Expected`: the receiver is in the middle of a packet exactly when the next datagram is, and
  awaits its number; no drop is pending;
* `AtBorder`, `SecAhead`: the next read of a header begins where a packet does, and a secondary
  header is at the read pointer;
* `AllAhead`: every packet behind `Mark` begins on the wire, or in the buffer at or behind the
  read pointer, or is the one the buffer is being filled with.

So the packet `Mark + 1` is in the buffer and, by `OrderInv`, before all others. A read never
comes up short (`ReadInFull`) and no receive fails (`NoReadFails`): those branches cannot be
taken. `Flawless` looks at what was sent so far, so that once false it stays false
(`FlawlessBefore`), which carries the invariant through a Send that brings trouble.

The hypothesis `FewerThanNumbers(m)` (no packet takes more than m datagrams, and the
session sends fewer than 2^24 datagrams in all) is where k + 1 comes from: in a longer
session a loss of exactly 2^24 datagrams in a row looks like none to line 898, and the
property is false. TLC evaluates the hypothesis on the instance it checks (`MCStream`).

### Message iterators

For every packet of the eleven formats, damaged or not, with any lengths, counts and junk
(`MessageWalkProofs`):

* `InsideDataAlways`: a message that is found is inside the packet's data, in the checked formats
  all of it, in the uncounted ones and in CAN after the first its beginning.
* `StopIsFinalAlways`: once Next has said that there is no more, it says so for ever.

The invariant `WalkInv` has a conjunct for each end of a call. While a message is found,
the walk stands at it (`Standing`: offset, pointers and number agree, as far as the family
keeps them together); after an end it is `Exhausted`, where every further Next ends again.
A checked format is exhausted once the number has reached the count, the offset is past the data
or the message there does not fit (neither moves back); the others once the number has
reached the count, or the offset the end. Each family is a lemma for First and one for Next.

For the packets that are as the standard has them (`Sound`):

* `WalkReturnsAll`: the loop returns exactly the recorded messages, each once, in order, at
  its place and with its time, and ends with NO_MORE_DATA only after the last.
* `BusWordsFoundAlways`: of every 1553 message the pointers are to its second command, its status
  words and all of its data words.

`SoundInv` says where the walk is: at message number `Len(got)` of the packet (`AtMsg`), or
behind the last (`AtEnd`). Where a message begins is a sum over those before it (`Place`, for ARINC
429 also `Elapsed`), and so is the place Next steps to: the step lemmas show that the two
sums go on alike.

Two hypotheses, which TLC evaluates for the packets it walks (`PacketsFit` in `MCDecoders`).
`GotIsLarge`: the ghost has room for the messages of a sound packet; the code has no such
list. `BusAnswers`: a recorded bus message has as many words as its command and its answer
need by the standard (`BusDataWords`, which the proof shows the code's count to be). Without
an answer the status pointer is to a word the message does not have.

### Induction

The library's induction theorems take an operator, which the provers cannot
instantiate. Where a proof goes by induction on the length of a walk, a table or a sequence,
it does so over a set: the numbers for which the fact fails have a least one, by the
well-foundedness of < on the naturals (`LeastElement`, `UpTo`). The recursive functions
(`MadeNodes`, FlattenSeq's, the sums `Place` and `Elapsed`) are shown to exist the same way
(`TotalExists`), and a fact about their values goes up by one message at a time (`Upward`).
No module with a
theorem, nor one it extends, has a RECURSIVE operator.

### What the proofs found in the model

An attempt that failed for a good reason changed the model to what the code does:
* a header's packet length is any uint32_t, and two recorded packets do not overlap (`Tiled`);
  both had been taken for granted;
* `MCReader` had no false header with a length larger than the file or smaller than a
  header (`Overrun`, `Shrunk`); it has them now, and `PacketCursor` the results `Moved` and
  `Damaged` that it had to tell apart;
* a packet as the standard has it (`Sound`) has messages of the size of its format, and no
  more 1553 messages than the decoder takes (`MAX_COUNT`); without the first the next
  message is not where Next looks, without the second First refuses the packet;
* a recording from which the clock can be told (`Timed`) has its time packet soon enough after
  the middle: no packet between is later than another by more than the limit. It had been
  stated with the comparison turned round, and the runs had no recording to show it. `MCRecIndex`
  has one now, with a time packet that comes too late, on which the property as it was is
  violated: FindTimePacket gives up before it;
* the outcome of qsort is an arrangement by any bijection of the places (`Sorted`), and no
  longer one by the permutations of a library operator that has no theorems;
* the nodes of a made index are a recursive function (`MadeNodes`), in the order of the code's
  loop, so that their order follows from the loop's.

### Only model-checked

* Liveness (`ReachesEof`, `ReadIndexesReturns`, the end of a decoder's walk): the prover has no
  rule for ENABLED, which fairness is defined by.
* Calendar and fractions (`SyncedClock`, `TimeReadBack`, `BestTime`): each is a chain of
  divisions by constants of the calendar, for which the solver finds no proof.
* What is read from bytes in several passes: `ReadsBack`, `OldOnlyBehind`, `ChecksumReadBack` of
  the writer, the checksum being a recursion over data.
* The PCM search and TMATS: the claims compare the outcome of one fold (over bits, over lines)
  with what was recorded.

## 5. Plan

Every component that keeps state has a module, and the reader, the handle table, the stream,
the time reference, both indexes and the iterators have proofs. Next, by what they say
about the system:

* `OldOnlyBehind` of the writer: bytes of an old recording lie only behind the last write.
* One record for each path in the tree of TMATS.

### Not modelled

* SHA-256: arithmetic with published vectors.
* The C++ wrapper and the Python bindings: no state.
* PCAP input: needs a library that is not in the repository.
* The analog decoder: neither of its files is built by the Makefile, and they do not compile
  (fields their header does not declare, a missing parenthesis).
* TMATS encoding and the other signatures: sequential formatting of what the tree holds.
* IrigTime2String and the other routines that format for display.
