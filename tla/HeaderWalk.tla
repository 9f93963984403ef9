----------------------------- MODULE HeaderWalk ------------------------------
(***************************************************************************)
(* Loops over the headers of a file: what calling ReadNextHeaderFile and   *)
(* ReadData again and again returns, as the index and time routines do.    *)
(***************************************************************************)
EXTENDS Ch10Reader, FiniteSets

NextOutcome(f, r) ==
  CHOOSE o \in HeaderSearch(f, SkipToNext(r), NextOffset(r)) : TRUE

\* ReadData into a buffer that was made as large as the packet.
DataOutcome(f, r) ==
  CASE r.state # "ReadData" ->
         Outcome("READ_ERROR", NoHeader, [r EXCEPT !.state = "Unsynced"])
    [] r.state = "ReadData" /\ r.plen < ReadAmount(r) ->
         Outcome("BUFFER_TOO_SMALL", NoHeader, r)
    [] r.state = "ReadData" /\ r.plen >= ReadAmount(r) /\ r.pos + ReadAmount(r) <= f.size ->
         Outcome("OK", NoHeader, [r EXCEPT !.state = "ReadHeader", !.pos = @ + ReadAmount(r),
                                           !.rpos = ReadAmount(r)])
    [] OTHER -> Outcome("EOF", NoHeader, Seek(r, MaxOf(r.pos, f.size)))

\* LastMsg of a file opened with READ, as an outcome.
LastOutcome(f, r) ==
  LET tries == 0..(f.size - HEADER_SIZE - 1)
      ok == {q \in tries : HeaderOk(f, q)}
  IN CASE ok # {} -> Outcome("OK", NoHeader, Seek(r, CHOOSE q \in ok : \A s \in ok : s <= q))
       [] ok = {} /\ 0 \in tries /\ 0 \in DOMAIN f.cand ->
            Outcome("SEEK_ERROR", NoHeader, Seek(r, 0))
       [] OTHER -> Outcome("ABORT", NoHeader, r)

\* What follows the packet whose header was found at q, with its data read or not.
Following(f, q, read) ==
  LET found == FoundAt(f, q)
      d == IF read THEN DataOutcome(f, found.rd) ELSE found
  IN IF d.status = "EOF" THEN d ELSE NextOutcome(f, d.rd)

\* The offsets of the headers read one after the other from r, when Succ(q) is what
\* follows the one at q; NoHeader from the first failure on.
Headers(f, r, Succ(_)) ==
  LET after == [q \in DOMAIN f.cand \cup {NoHeader} |->
                  IF q = NoHeader THEN NoHeader ELSE Succ(q).at]
      W[n \in 0..Cardinality(DOMAIN f.cand)] ==
        IF n = 0 THEN NextOutcome(f, r).at ELSE after[W[n - 1]]
  IN W

\* The outcome of the n-th read of such a walk.
OutcomeOf(f, r, Succ(_), w, n) == IF n = 0 THEN NextOutcome(f, r) ELSE Succ(w[n - 1])

\* Where a walk first stops, as a set that is empty if it never does.
FirstStop(w, Stop(_)) ==
  {n \in DOMAIN w : Stop(w[n]) /\ \A k \in 0..(n - 1) : ~Stop(w[k])}

=============================================================================
