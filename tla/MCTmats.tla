------------------------------ MODULE MCTmats ------------------------------
(* Small setup records for TLC: every pair of the attributes below, and     *)
(* every order of texts whose records name each other.                      *)
EXTENDS Tmats, TLC
LOCAL INSTANCE SequencesExt

A(group, rec, code, index, item) ==
  [group |-> group, rec |-> rec, code |-> code, at |-> index, item |-> <<item>>,
   colon |-> TRUE, ended |-> TRUE]

\* Each kind of line: of every group, with and without indexes, and those that are not as they
\* should be: without ';', ':', item, number, with a group or a code nobody knows, or in lower
\* case.
Alphabet ==
  {A("G", 0, "106", <<>>, "05"), A("G", 0, "DSI", <<1>>, "a"), A("G", 0, "COM", <<>>, "a"),
   A("G", 0, "SHA", <<>>, "a"), [A("G", 0, "SHA", <<>>, "a") EXCEPT !.ended = FALSE],
   A("COMMENT", -1, "", <<>>, "a"),
   A("R", 1, "ID", <<>>, "A"), A("R", 2, "ID", <<>>, "a"), A("R", 1, "POC1", <<>>, "a"),
   A("R", 1, "DSI", <<1>>, "a"), A("R", 1, "DST", <<1>>, "a"), A("R", 1, "CDT", <<1>>, "b"),
   A("R", 1, "AMN", <<1, 2>>, "a"), A("R", 1, "ID", <<3>>, "a"), A("R", -1, "ID", <<>>, "a"),
   A("r", 1, "ID", <<>>, "a"), A("R", 3, "XX", <<>>, "a"),
   [A("R", 1, "ID", <<>>, "a") EXCEPT !.ended = FALSE],
   [A("R", 1, "ID", <<>>, "a") EXCEPT !.colon = FALSE],
   [A("R", 1, "ID", <<>>, "a") EXCEPT !.item = NULL],
   [A("R", 4, "ID", <<>>, "a") EXCEPT !.colon = FALSE, !.item = NULL, !.ended = FALSE],
   A("M", 1, "ID", <<>>, "A"), A("B", 1, "UMN1", <<1>>, "a"), A("B", 1, "UMN2", <<1>>, "b"),
   A("B", 1, "MWN", <<1, 1, 2, 1>>, "a"), A("P", 1, "AEF", <<1, 1>>, "a"),
   A("D", 1, "SS", <<1, 1>>, "a"), A("C", 1, "CO", <<>>, "a"), A("C", 1, "CO", <<1>>, "a"),
   A("R", 1, "id", <<>>, "b"), A("G", 0, "com", <<>>, "b"),
   A("comment", -1, "", <<>>, "b"), A("g", 0, "sha", <<>>, "b")}

Pairs == {<<p, q>> : p, q \in Alphabet}

\* A record named over and over, in lines with and without their ends.
Repeats ==
  LET line == {A("P", 1, "DLN", <<>>, "a"), [A("P", 1, "DLN", <<>>, "b") EXCEPT !.ended = FALSE],
               A("P", 2, "DLN", <<>>, "b"), [A("P", 2, "DLN", <<>>, "a") EXCEPT !.colon = FALSE, !.ended = FALSE],
               A("D", 1, "DLN", <<>>, "A")}
  IN {<<p, q, r>> : p, q, r \in line}

\* Texts by the names that connect their records: of an old version, of no version, of a new
\* one, and with an M record between a data source and its P record.
Linked ==
  {<<A("G", 0, "106", <<>>, "05"), A("R", 1, "PDLN", <<1>>, "a"), A("R", 1, "CDLN", <<1>>, "b"),
     A("P", 1, "DLN", <<>>, "A"), A("P", 2, "dln", <<>>, "b")>>,
   <<A("R", 1, "PDLN", <<1>>, "a"), A("R", 1, "CDLN", <<1>>, "b"), A("P", 1, "DLN", <<>>, "A"),
     A("P", 2, "DLN", <<>>, "b")>>,
   <<A("R", 1, "DSI", <<1>>, "a"), A("R", 1, "CDLN", <<1>>, "b"), A("M", 1, "ID", <<>>, "a"),
     A("M", 1, "BB\\DLN", <<>>, "b"), A("P", 1, "DLN", <<>>, "b")>>,
   <<A("G", 0, "106", <<>>, "07"), A("R", 1, "BDLN", <<1>>, "a"), A("R", 1, "CDLN", <<1>>, "b"),
     A("B", 1, "DLN", <<>>, "a"), A("B", 1, "DLN", <<>>, "b")>>,
   <<A("G", 0, "DSI", <<1>>, "a"), A("R", 1, "ID", <<>>, "A"), A("M", 1, "ID", <<>>, "a"),
     A("R", 1, "DSI", <<1>>, "a")>>,
   <<A("M", 1, "BB\\DLN", <<>>, "a"), A("P", 1, "DLN", <<>>, "A"), A("P", 2, "DLN", <<>>, "a"),
     A("D", 1, "DLN", <<>>, "a")>>,
   <<A("P", 1, "AEF\\DLN", <<1>>, "a"), A("P", 2, "DLN", <<>>, "a"), A("B", 2, "DLN", <<>>, "a"),
     A("D", 1, "DLN", <<>>, "a")>>,
   <<A("D", 1, "MN", <<1, 1>>, "a"), A("B", 1, "MN", <<1, 1, 1>>, "A"), A("C", 1, "DCN", <<>>, "a"),
     A("C", 2, "DCN", <<>>, "b"), A("C", 2, "DCN", <<>>, "A")>>,
   <<A("M", 1, "BB\\DLN", <<>>, "b"), A("B", 1, "DLN", <<>>, "b"),
     [A("G", 0, "SHA", <<>>, "a") EXCEPT !.ended = FALSE], A("G", 0, "DSI", <<2>>, "b"),
     A("M", 1, "ID", <<>>, "b")>>}

Orders(t) == {[i \in 1..Len(t) |-> t[p[i]]] : p \in Permutations(1..Len(t))}

MCTexts == {<<>>} \cup {<<p>> : p \in Alphabet} \cup Pairs \cup Repeats \cup UNION {Orders(t) : t \in Linked}

\* Words in lower case, and as the parser has them.
Lower == [id |-> "ID", com |-> "COM", sha |-> "SHA", dln |-> "DLN",
          comment |-> "COMMENT", g |-> "G", r |-> "R", a |-> "A"]

Words ==
  {"a", "A", "b", "05", "07", "unknown"} \cup Groups \cup DOMAIN Lower \cup {Lower[w] : w \in DOMAIN Lower}
    \cup {p.code : p \in Alphabet \cup UNION {ToSet(t) : t \in Linked}}
    \cup UNION {{Rows[g][i].code : i \in 1..Len(Rows[g])} : g \in Groups}

MCFold == [w \in Words |-> IF w \in DOMAIN Lower THEN Lower[w] ELSE w]
MCNumber == [w \in Words |-> IF w = "05" THEN 5 ELSE IF w = "07" THEN 7 ELSE 0]

=============================================================================
