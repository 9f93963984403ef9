------------------------------ MODULE MCStream -------------------------------
(* Packets of two to eleven units (24 to 132 bytes) against a largest datagram of four. *)
EXTENDS StreamReader

P(len)    == [len |-> len, ok |-> TRUE, sec |-> FALSE, secOk |-> FALSE]
PSec(len) == [P(len) EXCEPT !.sec = TRUE, !.secOk = TRUE]
PBad(len) == [P(len) EXCEPT !.ok = FALSE]
PSecBad(len) == [P(len) EXCEPT !.sec = TRUE]

MCPackets == {P(2), P(3), P(4), P(6), P(7), P(11), PSec(3), PSec(4), PSec(7),
              PBad(3), PSecBad(4)}

\* One at a time: whole, in two segments with a short one last, in two and in three.
\* Two at a time: the pointer overshoots; two segments and a whole one.
MCBursts == {<<PSec(4)>>, <<P(6)>>, <<PSec(7)>>, <<P(11)>>,
             <<P(2), P(2)>>, <<P(7), P(3)>>, <<PSecBad(4), P(4)>>}

MCBundles == {<<P(3), P(2)>>, <<P(2), PSec(3)>>, <<PBad(3), P(2)>>, <<P(2), P(4)>>}

\* Two datagrams before the number wraps.
MCFirstSeqs == {SEQ_MOD - 2}

\* The instance is one the theorems of StreamReaderProofs are about.
ASSUME FewSent == FewerThanNumbers(3)
=============================================================================
