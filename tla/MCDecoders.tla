----------------------------- MODULE MCDecoders -----------------------------
(* Small packets for the decoders. *)
EXTENDS MessageWalk, PcmFrames

Cmd(tr, sub, n) == [bTR |-> tr, uSubAddr |-> sub, uWordCnt |-> n]
NoCmd == Cmd(FALSE, 1, 1)
Msg(len, gap) == [len |-> len, gap |-> gap, bRT2RT |-> FALSE, cmd |-> NoCmd]

\* Words on the bus, by what the command says: 3 and 32 data words received, 2 transmitted,
\* 2 and 32 from terminal to terminal, and mode codes with and without a data word.
BusMsg(words, rt2rt, cmd) == [len |-> 2 * words, gap |-> 0, bRT2RT |-> rt2rt, cmd |-> cmd]
BusMsgs ==
  <<BusMsg(5, FALSE, Cmd(FALSE, 3, 3)), BusMsg(34, FALSE, Cmd(FALSE, 30, 0)),
    BusMsg(4, FALSE, Cmd(TRUE, 1, 2)), BusMsg(6, TRUE, Cmd(TRUE, 2, 2)),
    BusMsg(36, TRUE, Cmd(TRUE, 7, 0)), BusMsg(3, FALSE, Cmd(FALSE, 31, 17)),
    BusMsg(2, FALSE, Cmd(TRUE, 0, 2)), BusMsg(3, FALSE, Cmd(TRUE, 0, 19)),
    BusMsg(34, FALSE, Cmd(TRUE, 5, 0))>>

\* Sequences of up to three messages of each format.
UpTo3(S) == {<<>>} \cup {<<a>> : a \in S} \cup {<<a, b>> : a, b \in S} \cup {<<a, b, c>> : a, b, c \in S}

MsgsOf(fmt) ==
  CASE fmt = "1553F1" -> UpTo3({BusMsgs[i] : i \in {1, 4, 7}})
                         \cup {<<BusMsgs[i], BusMsgs[j]>> : i, j \in DOMAIN BusMsgs}
    [] fmt = "16PP194" -> UpTo3({Msg(36, 0)})
    [] fmt = "MSGF0" -> UpTo3({Msg(0, 0), Msg(4, 0), Msg(5, 0)})
    [] fmt = "ARINC429F0" -> UpTo3({Msg(4, 0), Msg(4, 3), Msg(4, 7)})
    [] fmt = "INDEX" -> UpTo3({Msg(8, 0)})
    [] fmt = "DISCRETEF1" -> UpTo3({Msg(4, 0)})
    [] fmt = "VIDEOF0" -> UpTo3({Msg(188, 0)})
    [] OTHER -> UpTo3({Msg(4, 0), Msg(5, 0), Msg(7, 0)})

Counts(ms) == {Len(ms), Len(ms) + 1, 0, 6} \cup (IF ms = <<>> THEN {} ELSE {Len(ms) - 1})
Cuts == {0, 1, 5, 13, 40}
Bads(ms) == {<<0, 0>>} \cup {<<k, n>> : k \in DOMAIN ms, n \in {0, 3, 300}}

P(fmt, count, ms, stamped, node, size, cut, bad, junk) ==
  [fmt |-> fmt, count |-> count, msgs |-> ms, stamped |-> stamped, node |-> node,
   size |-> size, cut |-> cut, bad |-> bad, junk |-> junk]

\* Packets with one kind of damage: a wrong count, a part missing or a wrong length.
Damage(ms) ==
  {<<c, 0, <<0, 0>> >> : c \in Counts(ms)} \cup {<<Len(ms), cut, <<0, 0>> >> : cut \in Cuts}
  \cup {<<Len(ms), 0, b>> : b \in Bads(ms)}

Options(fmt) ==
  IF fmt = "INDEX" THEN BOOLEAN \X BOOLEAN \X BOOLEAN
  ELSE IF fmt \in {"UARTF0", "VIDEOF0"} THEN BOOLEAN \X {FALSE} \X {FALSE}
  ELSE {<<FALSE, FALSE, FALSE>>}

MCPackets ==
  UNION {UNION {{P(fmt, d[1], ms, o[1], o[2], o[3], d[2], d[3], j) :
                   d \in Damage(ms), o \in Options(fmt), j \in {0, 9}} :
                ms \in MsgsOf(fmt)} : fmt \in Format}

ASSUME PacketsFit == GotIsLarge /\ BusAnswers

-----------------------------------------------------------------------------
(* PCM: a sync word of 3 bits and 2 words of 2 bits, in bytes of 2 bits.    *)

\* The group says the bits of a frame and the length of the pattern, or leaves them out.
PRec(bits, patLen, lsb, fixed) ==
  [bitsPerSec |-> 2000000, wordLen |-> 2, lsbFirst |-> lsb, words |-> 3, bits |-> bits,
   fixedSync |-> fixed, patLen |-> patLen, pat |-> <<0, 1, 1>>]

\* Data words, the last of them with a sync word in the wrong place.
FrameData == {<<0, 0, 0, 1>>, <<1, 1, 1, 0>>, <<1, 0, 1, 1>>}

\* What is before the first sync word in the first packet.
Lead == {<<>>, <<1, 1>>, <<0, 1, 0>>}

FrameOf(d) == <<0, 1, 1>> \o d

PcmBits ==
  {l \o FrameOf(a) \o FrameOf(b) \o FrameOf(c) \o FrameOf(a) \o <<0, 1, 1, 0, 0, 0>> :
     l \in Lead, a, b, c \in FrameData}

\* The second sync word is damaged.
Damaged(bits) == [bits EXCEPT ![Len(bits) - 24] = 0]

\* Packets of 4 or 6 bytes; of 3, which cannot be swapped; and of other modes.
Cut4(bits) == [i \in 1..(Len(bits) \div 8) |-> 4]
Cut6(bits) == [i \in 1..(Len(bits) \div 12) |-> 6]
Cut3(bits) == <<4, 3, 4>>
Cut0(bits) == <<4, 0, 8, 4>>

PcmStream(bits, packets, thru, align, prec, minSyncs, noSwap) ==
  [bits |-> bits, packets |-> packets, thru |-> thru, align |-> align, prec |-> prec,
   minSyncs |-> minSyncs, noSwap |-> noSwap]

MCStreams ==
  {PcmStream(b, Cut4(b), TRUE, al, PRec(Absent, Absent, FALSE, TRUE), -1, -1) :
     b \in PcmBits \cup {Damaged(x) : x \in PcmBits}, al \in BOOLEAN}
  \cup {PcmStream(b, Cut6(b), TRUE, FALSE, PRec(7, 3, FALSE, TRUE), 2, 1) : b \in PcmBits}
  \cup UNION {{PcmStream(b, Cut0(b), TRUE, FALSE, PRec(7, Absent, FALSE, TRUE), 3, 0),
               PcmStream(b, Cut3(b), TRUE, FALSE, PRec(Absent, 3, FALSE, TRUE), 1, -1),
               PcmStream(b, Cut3(b), TRUE, TRUE, PRec(Absent, 3, FALSE, TRUE), 0, 1)} :
              b \in {x \in PcmBits : Len(x) % 2 = 0}}
  \cup {PcmStream(<<0>>, <<20, 30>>, FALSE, al, PRec(7, 3, FALSE, TRUE), -1, -1) : al \in BOOLEAN}
  \cup {PcmStream(<<0>>, <<5, 11, 20>>, FALSE, TRUE, PRec(7, 3, FALSE, TRUE), -1, -1),
        PcmStream(<<0>>, <<>>, TRUE, FALSE, PRec(7, 3, TRUE, TRUE), -1, -1),
        PcmStream(<<0>>, <<>>, TRUE, FALSE, PRec(7, 3, FALSE, FALSE), -1, -1)}

-----------------------------------------------------------------------------
(* One decoder at work: they share nothing.                                 *)

NoStream == PcmStream(<<0>>, <<>>, TRUE, FALSE, PRec(7, 3, TRUE, TRUE), -1, -1)
NoPacket == P("16PP194", 0, <<>>, FALSE, FALSE, FALSE, 0, <<0, 0>>, 0)

MCInit ==
  \/ /\ WalkInit
     /\ str = NoStream /\ att = NoAttributes /\ frames = {}
     /\ run = [NoRun EXCEPT !.ret = "UNSUPPORTED"]
  \/ /\ PcmInit
     /\ pkt = NoPacket /\ walk = [NoWalk EXCEPT !.status = "NO_MORE_DATA"]
     /\ got = <<>> /\ extra = 0

MCNext == (WalkNext /\ UNCHANGED pcmvars) \/ (PcmNext /\ UNCHANGED walkvars)

MCSpec == MCInit /\ [][MCNext]_<<walkvars, pcmvars>> /\ FairWalk

DecodersTypeOK == WalkTypeOK /\ PcmTypeOK

=============================================================================
