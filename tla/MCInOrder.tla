------------------------------ MODULE MCInOrder ------------------------------
(* Small recordings for InOrderIndex, with packets out of order of time.     *)
EXTENDS InOrderIndex, MCReader

MCInOrderFiles ==
  {FileOf(k) : k \in {<<Tmats, Empty, Empty, Empty>>, <<Tmats>>}}

\* Times go down from one packet to the next, and some are the same.
MCRefTime(f, q) == (q * 5) % 7

\* Only the last two packets are out of order.
MCSeekRefTime(f, q) == IF q = 5 THEN 9 ELSE q

MCInOrderOffsets == {3}

\* i106_time.c:478 "We have an index so do a binary search for time": after a search that
\* succeeds the current entry is the last one not later than the time.
SeekFindsTime ==
  [][ (idx' # idx /\ ret'.op = "SeekTime" /\ ret'.status = "OK" /\ Faithful
       /\ \A i, j \in DOMAIN Used : i < j => Used[i].time <= Used[j].time)
      => \E t \in SeekTimes :
           /\ Used[idx'.curr + 1].time <= t
           /\ \A i \in DOMAIN Used : Used[i].time <= t => i <= idx'.curr + 1 ]_allvars

=============================================================================
