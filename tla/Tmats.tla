------------------------------- MODULE Tmats -------------------------------
(***************************************************************************)
(* The TMATS parser (i106_decode_tmats.c and its _g, _r, _m, _b, _p, _d    *)
(* and _c parts): the text of a setup record is cut into lines, each line  *)
(* is stored in the record it names, which is made when it is missing, and *)
(* at last the records that refer to each other by name are connected.     *)
(*                                                                         *)
(* A line is "R-1\DSI-2:name;": group R, record 1, code DSI, index 2.  The *)
(* lists within lists of the C structures are one sequence of records in   *)
(* the order they were allocated, each with the path of lists and indexes  *)
(* that leads to it, so the order of every list is that of the sequence.   *)
(***************************************************************************)
EXTENDS Integers, Sequences, FiniteSets
LOCAL INSTANCE SequencesExt

CONSTANTS
  Texts,   \* TMATS texts: sequences of Attribute
  Fold,    \* what strcasecmp sees of a word: the same of words that differ in case only
  Number   \* what atoi makes of a word of G\106

NULL == <<>>     \* an item that was never stored; those of lines are not empty
UNLINKED == -1   \* a pointer to a record of another group that was never set
Groups == {"G", "R", "M", "B", "P", "D", "C"}

\* One attribute of the text: what is between two line terminators.  rec is the number of the
\* record, 0 in G and -1 where the name has none; at are the indexes behind the code.  The item
\* is a sequence of words.  colon and ended say whether the ':' and the ';' are there.
Attribute == [group : STRING, rec : Int, code : STRING, at : Seq(Int), item : Seq(STRING),
              colon : BOOLEAN, ended : BOOLEAN]

ASSUME TmatsAssumption ==
  /\ \A t \in Texts : \A i \in 1..Len(t) :
       /\ t[i] \in Attribute
       /\ \A w \in Range(t[i].item) \cup {t[i].code} : w \in DOMAIN Fold /\ w \in DOMAIN Number
       /\ t[i].group \in DOMAIN Fold
  /\ Groups \cup {"COMMENT", "COM", "SHA", "unknown"} \subseteq DOMAIN Fold
  /\ \A w \in DOMAIN Number : Number[w] \in Nat

VARIABLES
  pc,        \* IDLE, DECODE, then the group whose names are connected next; ABORTED
  text,      \* the caller's buffer
  lines,     \* pasuTmatsLines
  at,        \* iLineIdx
  nodes,     \* the records the first pointers of SuTmatsInfo lead to
  comments,  \* psuFirstComment of SuTmatsInfo and of the G record
  version    \* m_iTmatsVersion, which outlives the SuTmatsInfo

vars == <<pc, text, lines, at, nodes, comments, version>>

\* strcasecmp of two words.
Same(a, b) == Fold[a] = Fold[b]

-----------------------------------------------------------------------------
(* The lines.  Line ends mean nothing, so an attribute without its ';'      *)
(* takes what follows it into its item, and one without a ':' too gives its *)
(* name to the next.  Only lines with a name and an item are kept.          *)

\* The attribute that is filled so far, or none.
NoLine == [lines |-> <<>>, open |-> <<>>]

\* The attribute p behind what is open.
Grown(open, p) ==
  IF open = <<>> THEN p
  ELSE IF open[1].colon THEN [open[1] EXCEPT !.item = @ \o <<p.code>> \o p.item, !.ended = p.ended]
  ELSE [p EXCEPT !.group = open[1].group, !.rec = open[1].rec, !.code = "unknown", !.at = <<>>]

Stored(ls, p) == IF p.colon /\ p.item # NULL THEN Append(ls, p) ELSE ls

LineStep(b, p) ==
  LET line == Grown(b.open, p)
  IN IF line.ended THEN [lines |-> Stored(b.lines, line), open |-> <<>>]
     ELSE [b EXCEPT !.open = <<line>>]

TmatsBufferToLines(t) ==
  LET b == FoldLeft(LineStep, NoLine, t)
  IN IF b.open = <<>> THEN b.lines ELSE Stored(b.lines, b.open[1])

-----------------------------------------------------------------------------
(* What the line decoders compare a line with, in the order they do it: the *)
(* code, the lists its indexes lead through, and the fields the item goes   *)
(* to.  A list has one row, and a field its own where a name is connected   *)
(* by it or a code is compared twice; the other fields are stored alike.    *)

Row(code, lists, field) == [code |-> code, lists |-> lists, fields |-> {field}]

GRows ==
  <<Row("106", <<>>, "szIrig106Rev"),
    Row("POC1", <<"psuFirstContact">>, "szName"),
    Row("DSI\\N", <<>>, "szNumDataSources"),
    Row("DSI", <<"psuFirstGDataSource">>, "szDataSourceID")>>

\* The creating, copying and modifying organizations are all under POC1.
RecorderRows ==
  <<Row("ID", <<>>, "szDataSourceID"),
    Row("POC1", <<>>, "suCreatingOrg.szName"),
    Row("POC1", <<>>, "suCreatingOrg.szAgency"),
    Row("POC1", <<>>, "suCopyingOrg.szName"),
    Row("RIMI", <<"psuFirstModuleInfo">>, "szModuleID"),
    Row("RMMID", <<"psuFirstRmmInfo">>, "szRmmID"),
    Row("EINM", <<"psuFirstEthernetInfo">>, "szInterfaceName"),
    Row("EI\\PA", <<"psuFirstEthernetInfo", "psuFirstPortInfo">>, "szPortAddress"),
    Row("CGNM", <<"psuFirstChannelGroup">>, "szName"),
    Row("CGCN", <<"psuFirstChannelGroup", "psuFirstChanGroupChans">>, "szGroupChannelNumber"),
    Row("DRNM", <<"psuFirstDrivesVolumes">>, "szDriveName"),
    Row("VLNM", <<"psuFirstDrivesVolumes", "psuFirstDriveVolume">>, "szVolumeName"),
    Row("LNM", <<"psuFirstDriveVolumeLinks">>, "szLinkName"),
    Row("EPL\\LNM", <<"psuFirstEthernetLink">>, "szLinkName"),
    Row("EV\\ID", <<"psuFirstRecordingEvent">>, "szID"),
    Row("EV\\PM\\MN", <<"psuFirstRecordingEvent", "psuFirstEventMeasurement">>, "szName")>>

\* DST, of 106-04, is also put where CDT of the later versions goes.
DataSourceRows ==
  <<Row("DSI", <<"psuFirstDataSource">>, "szDataSourceID"),
    [Row("DST", <<"psuFirstDataSource">>, "szDataSourceType")
       EXCEPT !.fields = @ \cup {"szChannelDataType"}],
    Row("CDT", <<"psuFirstDataSource">>, "szChannelDataType"),
    Row("BDLN", <<"psuFirstDataSource">>, "szBusDataLinkName"),
    Row("PDLN", <<"psuFirstDataSource">>, "szPcmDataLinkName"),
    Row("CDLN", <<"psuFirstDataSource">>, "szChanDataLinkName"),
    Row("MFF\\MFN", <<"psuFirstDataSource", "psuFirstPcmMinorFrameFilter">>, "szFilteredMinorFrameNum"),
    Row("SMF\\SMN", <<"psuFirstDataSource", "psuFirstPcmMeasurementOverwrite">>, "szSelectedMeasurementName"),
    Row("MFD\\MID", <<"psuFirstDataSource", "psuFirstMsgFilter">>, "szMsgNumber"),
    Row("BME\\SMN", <<"psuFirstDataSource", "psuFirst1553OverwriteDef">>, "szSelectedMeasurementName"),
    Row("AMN", <<"psuFirstDataSource", "psuFirstAnalogSubchannel">>, "szMeasurementName"),
    Row("DMN", <<"psuFirstDataSource", "psuFirstDiscreteMeasurement">>, "szMeasurementName"),
    Row("ASN", <<"psuFirstDataSource", "psuFirstSubchannel">>, "szNumber")>>

ChannelRows ==
  <<Row("VCO\\OET", <<"psuFirstDataSource">>, "suVideo.szOverlayEventEnabled"),
    Row("VCO\\OET", <<"psuFirstDataSource">>, "suVideo.szOverlayFormat"),
    Row("USCN", <<"psuFirstDataSource", "psuFirstUartSubchannel">>, "szNumber"),
    Row("MSCN", <<"psuFirstDataSource", "psuFirstMsgSubchannel">>, "szNumber"),
    Row("ENBR", <<"psuFirstDataSource", "psuFirstNetwork">>, "szNumber"),
    Row("CBN", <<"psuFirstDataSource", "psuFirstCanBusSubchannel">>, "szNumber"),
    Row("RT1", <<"psuFirstRefTrack">>, "szTrackNumber")>>

MRows == <<Row("ID", <<>>, "szDataSourceID"), Row("BB\\DLN", <<>>, "szBBDataLinkName")>>

\* The names of all three user defined words go to the first.
BRows ==
  LET bus == <<"psuFirstBBusInfo">>
      msg == bus \o <<"psuFirstMsgContentDef">>
      measurand == msg \o <<"psuFirstMeasurand">>
  IN <<Row("DLN", <<>>, "szDataLinkName"),
       Row("BID", bus, "szBusNum"),
       Row("UMN1", bus, "suUserDefinedMeasurement1.szName"),
       Row("UMN2", bus, "suUserDefinedMeasurement1.szName"),
       Row("UMN3", bus, "suUserDefinedMeasurement1.szName"),
       Row("TS", bus \o <<"psuFirstTrackSequence">>, "szTrackSequenceNum"),
       Row("MID", msg, "szMsgNum"),
       Row("MN", measurand, "szName"),
       Row("MWN", measurand \o <<"psuFirstLocation">>, "szWordNumber")>>

\* The '-' of the last two is a blank by the time a code is compared, so they are never met.
PRows ==
  LET embedded == <<"psuFirstAsyncEmbedded">>
  IN <<Row("DLN", <<>>, "szDataLinkName"),
       Row("ISF1", <<"psuFirstSubframeId">>, "szCounterName"),
       Row("AEF\\DLN", embedded, "szDataLinkName"),
       Row("C7FW", <<"psuFirstCh7Segment">>, "szCh7FirstWord"),
       Row("AEF-1", embedded, "szSupercomutated"),
       Row("AEF-3", embedded \o <<"psuFirstAsyncLocation">>, "szWordLocation")>>

DRows ==
  LET list == <<"psuFirstMeasurementList">>
      measurand == list \o <<"psuFirstMeasurand">>
      location == measurand \o <<"psuFirstFragmentLocation">>
  IN <<Row("DLN", <<>>, "szDataLinkName"),
       Row("MLN", list, "szMeasurementListName"),
       Row("MN", measurand, "szName"),
       Row("MNF\\N", location, "szNumFragments"),
       Row("WP", location \o <<"psuFirstFragment">>, "szWordPosition"),
       Row("SS", measurand, "szSamplingMode"),
       Row("SS", measurand, "szNumOfWordFrameSamples"),
       Row("SS1", measurand \o <<"psuFirstSampleOn">>, "szSampleOnWord"),
       Row("TD2", measurand \o <<"psuFirstTaggedData">>, "szTagNumber"),
       Row("REL1", measurand \o <<"psuFirstRelMeasurement">>, "szParentMeasurement")>>

\* CO and NPC are coefficient 0 without an index, and a list with one.
CRows ==
  <<Row("DCN", <<>>, "szMeasurementName"),
    Row("BWTB", <<"psuFirstBitWeight">>, "szBitNumber"),
    Row("MC1", <<"psuFirstInFltCalPt">>, "szStimulus"),
    Row("MA1", <<"psuFirstAmbientCondition">>, "szStimulus"),
    Row("FTY", <<"psuFirstFilter">>, "szType"),
    Row("PS3", <<"psuFirstPairSet">>, "szTelemetryValue"),
    Row("CO", <<>>, "suCoefficients.szCoefficient0"),
    Row("CO", <<"suCoefficients.psuFirstCoefficient">>, "szNthCoefficient"),
    Row("NPC", <<>>, "suNegXCoefficients.szCoefficient0"),
    Row("NPC", <<"suNegXCoefficients.psuFirstCoefficient">>, "szNthCoefficient"),
    Row("DP", <<"psuFirstMeasureand">>, "szMeasureandN"),
    Row("DPC", <<"psuFirstConstant">>, "szConstantN"),
    Row("DICC", <<"psuFirstConversion">>, "szConversionData"),
    Row("DICP", <<"psuFirstEvent">>, "szParamEventDef")>>

Rows ==
  [G |-> GRows, R |-> RecorderRows \o DataSourceRows \o ChannelRows, M |-> MRows, B |-> BRows,
   P |-> PRows, D |-> DRows, C |-> CRows]

ASSUME CodesAssumption ==
  \A g \in Groups : \A i \in 1..Len(Rows[g]) : Rows[g][i].code \in DOMAIN Fold

-----------------------------------------------------------------------------
(* The records.                                                             *)

Lists(path) == [k \in 1..Len(path) - 1 |-> path[k + 1][1]]

\* The fields and the pointers to other groups of a record of these lists.
FieldsOf ==
  [g \in Groups |->
     LET all == {Rows[g][i] : i \in 1..Len(Rows[g])}
     IN [l \in {<<>>} \cup UNION {{SubSeq(r.lists, 1, k) : k \in 1..Len(r.lists)} : r \in all} |->
           UNION {r.fields : r \in {q \in all : q.lists = l}}]]

\* A record fresh from TmatsMalloc and memset.
NewRecord(path) ==
  [path |-> path,
   val |-> [f \in FieldsOf[path[1][1]][Lists(path)] |-> NULL],
   link |-> [g \in Groups |-> UNLINKED]]

GetRecordByIndex_new(ns, path) == Append(ns, NewRecord(path))

\* psuGetRecordByIndex: the record of this index in its list, or a new one at the end.
GetRecordByIndex(ns, path) ==
  IF \E i \in 1..Len(ns) : ns[i].path = path THEN ns ELSE Append(ns, NewRecord(path))

\* The records from the group down to path.
GetRecords(ns, path) ==
  FoldLeft(LAMBDA m, k : GetRecordByIndex(m, SubSeq(path, 1, k)), ns, [k \in 1..Len(path) |-> k])

\* The rows that take the line: its code in any case, and as many lists as it has indexes.
Taking(line) ==
  {i \in 1..Len(Rows[line.group]) :
     /\ Same(Rows[line.group][i].code, line.code)
     /\ Len(Rows[line.group][i].lists) = Len(line.at)}

FirstRow(line) == Rows[line.group][CHOOSE i \in Taking(line) : \A j \in Taking(line) : i <= j]

Root(line) == <<(<<line.group, line.rec>>)>>

PathOf(line) == Root(line) \o [k \in 1..Len(line.at) |-> <<FirstRow(line).lists[k], line.at[k]>>]

\* The item goes to the first row that takes the line.
StoreItem(ns, line) ==
  [i \in 1..Len(ns) |->
     IF ns[i].path = PathOf(line)
     THEN [ns[i] EXCEPT !.val = [f \in DOMAIN @ |-> IF f \in FirstRow(line).fields THEN line.item ELSE @[f]]]
     ELSE ns[i]]

\* bDecodeGLine, bDecodeRLine and so on.  The record is made before the code is looked at,
\* so an unknown code leaves an empty one; without a number the line is skipped, and so it
\* is when the letter of its group is not a capital.
DecodeLine(ns, line) ==
  IF line.group \notin Groups \/ line.rec < 0 THEN ns
  ELSE IF Taking(line) = {} THEN GetRecordByIndex(ns, Root(line))
  ELSE StoreItem(GetRecords(ns, PathOf(line)), line)

\* StoreComment, for COMMENT and G\COM lines, in the order they come.
StoreComment(c, line) ==
  CASE Same(line.group, "COMMENT") -> [c EXCEPT !.info = Append(@, line.item)]
    [] line.group = "G" /\ Same(line.code, "COM") -> [c EXCEPT !.G = Append(@, line.item)]
    [] OTHER -> c

GRecord == NewRecord(<<(<<"G", 0>>)>>)
NoComments == [info |-> <<>>, G |-> <<>>]

-----------------------------------------------------------------------------
(* Connecting the records by the names in them.                             *)

\* LINK_NAMES_MATCH: a name that was never stored matches nothing.
LinkNamesMatch(a, b) ==
  a # NULL /\ b # NULL /\ [k \in DOMAIN a |-> Fold[a[k]]] = [k \in DOMAIN b |-> Fold[b[k]]]

\* The numbers of the records of group g whose field h is the name.
Named(ns, name, g, h) ==
  {ns[i].path[1][2] : i \in {j \in 1..Len(ns) :
     /\ ns[j].path[1][1] = g
     /\ Len(ns[j].path) = 1
     /\ LinkNamesMatch(name, ns[j].val[h])}}

\* The last of them in the list of the group: each match overwrites the one before.
LastNamed(ns, name, g, h) ==
  LET all == {i \in 1..Len(ns) : /\ ns[i].path[1][1] = g
                                 /\ Len(ns[i].path) = 1
                                 /\ ns[i].path[1][2] \in Named(ns, name, g, h)}
  IN IF all = {} THEN UNLINKED ELSE ns[CHOOSE i \in all : \A j \in all : j <= i].path[1][2]

IsOf(n, g, lists) == n.path[1][1] = g /\ Lists(n.path) = lists

\* Every record of group g below lists points to the record of group h that has the name its
\* field says in the field of.
Tie(ns, g, lists, field, h, of) ==
  [i \in 1..Len(ns) |->
     IF IsOf(ns[i], g, lists) /\ LastNamed(ns, ns[i].val[field], h, of) # UNLINKED
     THEN [ns[i] EXCEPT !.link[h] = LastNamed(ns, ns[i].val[field], h, of)]
     ELSE ns[i]]

\* assert(... == NULL): no record has two matches.
Single(ns, g, lists, field, h, of) ==
  \A i \in 1..Len(ns) : IsOf(ns[i], g, lists) => Cardinality(Named(ns, ns[i].val[field], h, of)) <= 1

PcmName_04 == IF version = 4 THEN "szPcmDataLinkName" ELSE "szChanDataLinkName"

\* The data link names of an R data source, by version.
PcmName == IF version \in {4, 5} THEN "szPcmDataLinkName" ELSE "szChanDataLinkName"

BusName == IF version \in {4, 5} THEN "szBusDataLinkName" ELSE "szChanDataLinkName"

Source == <<"psuFirstDataSource">>
GSource == <<"psuFirstGDataSource">>
Embedded == <<"psuFirstAsyncEmbedded">>
DMeasurand == <<"psuFirstMeasurementList", "psuFirstMeasurand">>
BMeasurand == <<"psuFirstBBusInfo", "psuFirstMsgContentDef", "psuFirstMeasurand">>

vConnectM(ns) ==
  Tie(Tie(ns, "M", <<>>, "szBBDataLinkName", "P", "szDataLinkName"),
      "M", <<>>, "szBBDataLinkName", "B", "szDataLinkName")

AssertM(ns) == \A g \in {"P", "B"} : Single(ns, "M", <<>>, "szBBDataLinkName", g, "szDataLinkName")

vConnectG(ns) ==
  Tie(Tie(ns, "G", GSource, "szDataSourceID", "R", "szDataSourceID"),
      "G", GSource, "szDataSourceID", "M", "szDataSourceID")

AssertG(ns) == \A g \in {"R", "M"} : Single(ns, "G", GSource, "szDataSourceID", g, "szDataSourceID")

vConnectR(ns) ==
  Tie(Tie(Tie(ns, "R", Source, "szDataSourceID", "M", "szDataSourceID"),
          "R", Source, PcmName, "P", "szDataLinkName"),
      "R", Source, BusName, "B", "szDataLinkName")

AssertR(ns) ==
  /\ Single(ns, "R", Source, "szDataSourceID", "M", "szDataSourceID")
  /\ Single(ns, "R", Source, PcmName, "P", "szDataLinkName")
  /\ Single(ns, "R", Source, BusName, "B", "szDataLinkName")

vConnectP(ns) ==
  Tie(Tie(Tie(ns, "P", Embedded, "szDataLinkName", "P", "szDataLinkName"),
          "P", <<>>, "szDataLinkName", "D", "szDataLinkName"),
      "P", <<>>, "szDataLinkName", "B", "szDataLinkName")

vConnectB(ns) == Tie(ns, "B", BMeasurand, "szName", "C", "szMeasurementName")

vConnectD(ns) == Tie(ns, "D", DMeasurand, "szName", "C", "szMeasurementName")

-----------------------------------------------------------------------------
(* The decoder, step by step.                                               *)

Init ==
  /\ pc = "IDLE" /\ text = <<>> /\ lines = <<>> /\ at = 1
  /\ nodes = <<>> /\ comments = NoComments /\ version = 0

\* enI106_Decode_Tmats_Text up to its loop: what the SuTmatsInfo had is freed.
Decode(t) ==
  /\ pc = "IDLE"
  /\ pc' = "DECODE" /\ text' = t /\ at' = 1
  /\ lines' = TmatsBufferToLines(t)
  /\ nodes' = <<GRecord>> /\ comments' = NoComments
  /\ UNCHANGED version

NextLine ==
  /\ pc = "DECODE" /\ at <= Len(lines)
  /\ nodes' = DecodeLine(nodes, lines[at])
  /\ comments' = StoreComment(comments, lines[at])
  /\ at' = at + 1
  /\ UNCHANGED <<pc, text, lines, version>>

\* The version of this text, or, if it has none, still that of an earlier one.
SetVersion ==
  /\ pc = "DECODE" /\ at > Len(lines)
  /\ pc' = "M"
  /\ LET rev == nodes[1].val["szIrig106Rev"]
     IN version' = IF rev = NULL THEN version ELSE Number[rev[1]]
  /\ UNCHANGED <<text, lines, at, nodes, comments>>

\* A name that two records have ends a program whose asserts are compiled in, as the Makefile
\* does; in the release builds the last record is taken.
Connect(group, after, ns, single) ==
  /\ pc = group
  /\ \/ pc' = after /\ nodes' = ns
     \/ ~single /\ pc' = "ABORTED" /\ UNCHANGED nodes
  /\ UNCHANGED <<text, lines, at, comments, version>>

ConnectM == Connect("M", "G", vConnectM(nodes), AssertM(nodes))
ConnectG == Connect("G", "R", vConnectG(nodes), AssertG(nodes))
ConnectR == Connect("R", "P", vConnectR(nodes), AssertR(nodes))
ConnectP == Connect("P", "B", vConnectP(nodes), TRUE)
ConnectB == Connect("B", "D", vConnectB(nodes), TRUE)
ConnectD == Connect("D", "IDLE", vConnectD(nodes), TRUE)

\* enI106_Free_TmatsInfo.
FreeTmatsInfo ==
  /\ pc = "IDLE"
  /\ text' = <<>> /\ lines' = <<>> /\ nodes' = <<>> /\ comments' = NoComments
  /\ UNCHANGED <<pc, at, version>>

Next ==
  \/ \E t \in Texts : Decode(t)
  \/ NextLine \/ SetVersion
  \/ ConnectM \/ ConnectG \/ ConnectR \/ ConnectP \/ ConnectB \/ ConnectD
  \/ FreeTmatsInfo

Spec == Init /\ [][Next]_vars

-----------------------------------------------------------------------------
(* enI106_Tmats_Find and the IRIG signature, which change nothing.          *)

\* strcasecmp of the names of two lines, the letters of their groups included.
SameName(l, m) ==
  Same(l.group, m.group) /\ l.rec = m.rec /\ Same(l.code, m.code) /\ l.at = m.at

\* The item of the first line of this name.
Find(name) ==
  LET i == SelectInSeq(lines, LAMBDA l : SameName(l, name))
  IN IF i = 0 THEN NULL ELSE lines[i].item

\* strncasecmp with "G\SHA".
IsSha(a) == Same(a.group, "G") /\ Same(a.code, "SHA")

\* The characters of a text, as far as the signature tells them apart.
Characters(t) ==
  FlattenSeq([i \in 1..Len(t) |->
    <<IF IsSha(t[i]) THEN "G\\SHA" ELSE "name">>
      \o (IF t[i].colon THEN <<":">> ELSE <<>>) \o t[i].item
      \o (IF t[i].ended THEN <<";">> ELSE <<>>)])

Hashed_keepsEnd(s) ==
  LET start == SelectInSeq(s, LAMBDA c : c = "G\\SHA")
      end == IF start = 0 THEN 0 ELSE SelectInSubSeq(s, start, Len(s), LAMBDA c : c = ";")
  IN IF start > 0 /\ end > 0 THEN SubSeq(s, 1, start - 1) \o SubSeq(s, end, Len(s)) ELSE s

\* enI106_Tmats_IRIG_Signature: what it hashes of the characters s.  Where G\SHA begins the
\* text and has no end the end is not initialized, and of a text that ends with it as many
\* characters are hashed as are left from its start.
Hashed(s) ==
  LET start == SelectInSeq(s, LAMBDA c : c = "G\\SHA")
      end == IF start = 0 THEN 0 ELSE SelectInSubSeq(s, start, Len(s), LAMBDA c : c = ";")
  IN IF start = 1 THEN SubSeq(s, end + 1, Len(s))
     ELSE IF start > 0 /\ end = Len(s) THEN SubSeq(s, 1, Len(s) - (start - 1))
     ELSE IF start > 0 /\ end > 0 THEN SubSeq(s, 1, start - 1) \o SubSeq(s, end + 1, Len(s))
     ELSE s

-----------------------------------------------------------------------------
(* What the parser promises.                                                *)

Decoded == nodes # <<>> /\ pc # "DECODE"

\* The lines the records are made of, and where a line goes.
Placed == {i \in 1..Len(lines) : lines[i].group \in Groups /\ lines[i].rec >= 0}
Known == {i \in Placed : Taking(lines[i]) # {}}

\* However the lines of a text are ordered, repeated or broken, and in whatever case they have
\* their codes, the tree has one record for every number and index they mention and no other,
\* and each field holds what the last line for it says.  enI106_Tmats_Find returns the same,
\* unless another line has the name too, be it in another case.
TreeHoldsLines ==
  Decoded =>
    LET paths == {nodes[i].path : i \in 1..Len(nodes)}
        mentioned(i) == IF i \in Known THEN PathOf(lines[i]) ELSE Root(lines[i])
        fillers(n, f) == {i \in Known : PathOf(lines[i]) = n.path /\ f \in FirstRow(lines[i]).fields}
        twice(i) == \E k \in 1..Len(lines) : k # i /\ SameName(lines[k], lines[i])
    IN /\ Cardinality(paths) = Len(nodes)
       /\ paths = {GRecord.path} \cup
                    UNION {{SubSeq(mentioned(i), 1, k) : k \in 1..Len(mentioned(i))} : i \in Placed}
       /\ \A j \in 1..Len(nodes) : \A f \in DOMAIN nodes[j].val :
            LET from == fillers(nodes[j], f)
                last == CHOOSE i \in from : \A k \in from : k <= i
            IN /\ nodes[j].val[f] = IF from = {} THEN NULL ELSE lines[last].item
               /\ from # {} /\ ~twice(last) => Find(lines[last]) = nodes[j].val[f]

\* What the last line of this name says.
Said(g, rec, code, index) ==
  LET i == SelectLastInSeq(lines, LAMBDA l :
             l.group = g /\ l.rec = rec /\ Same(l.code, code) /\ l.at = index)
  IN IF i = 0 THEN NULL ELSE lines[i].item

\* The version the text states, if it does.
Stated == Said("G", 0, "106", <<>>)

\* A connection by the names of the TMATS standard: from this code below these lists to the
\* records of group "to" whose code "of" says the same.
Connection(g, lists, code, to, of) == [g |-> g, lists |-> lists, code |-> code, to |-> to, of |-> of]

SourceToM == Connection("R", Source, "DSI", "M", "ID")
MToP == Connection("M", <<>>, "BB\\DLN", "P", "DLN")

\* All of them, for a text of 106-04 or 106-05 (old), or of a later version.
Connections(old) ==
  {Connection("G", GSource, "DSI", "R", "ID"), Connection("G", GSource, "DSI", "M", "ID"),
   SourceToM,
   Connection("R", Source, IF old THEN "PDLN" ELSE "CDLN", "P", "DLN"),
   Connection("R", Source, IF old THEN "BDLN" ELSE "CDLN", "B", "DLN"),
   MToP, Connection("M", <<>>, "BB\\DLN", "B", "DLN"),
   Connection("P", <<>>, "DLN", "D", "DLN"), Connection("P", <<>>, "DLN", "B", "DLN"),
   Connection("P", Embedded, "AEF\\DLN", "P", "DLN"),
   Connection("B", BMeasurand, "MN", "C", "DCN"), Connection("D", DMeasurand, "MN", "C", "DCN")}

\* The records the connection c of the record at this path may lead to.
Meant(path, c) ==
  LET name == Said(path[1][1], path[1][2], c.code, [k \in 1..Len(path) - 1 |-> path[k + 1][2]])
  IN {rec \in {l.rec : l \in {k \in Range(lines) : k.group = c.to /\ k.rec >= 0}} :
        LinkNamesMatch(name, Said(c.to, rec, c.of, <<>>))}

\* An M record leads from this data source to a P record, so that its CDLN need not.
ByWayOfM(path) == \E m \in Meant(path, SourceToM) : Meant(<<(<<"M", m>>)>>, MToP) # {}

\* A record points to another if, and only if, the text gives the two the same name; only where
\* a name is given twice does it matter which is last, or does an assert stop the program.
FollowsNames(old) ==
  /\ pc = "ABORTED" => \E n \in Range(nodes) : \E c \in Connections(old) :
       IsOf(n, c.g, c.lists) /\ Cardinality(Meant(n.path, c)) > 1
  /\ pc = "IDLE" => \A n \in Range(nodes) : \A to \in Groups :
       LET here == {c \in Connections(old) : c.to = to /\ IsOf(n, c.g, c.lists)}
       IN IF n.link[to] = UNLINKED
          THEN \A c \in here : Meant(n.path, c) = {} \/ (c.code = "CDLN" /\ ByWayOfM(n.path))
          ELSE \E c \in here : n.link[to] \in Meant(n.path, c)

\* Once a text is decoded its records point to each other as their names say, in whatever order
\* the text has them, by the names of the version it states, whatever text was decoded before.
\* A text that states none is connected by the names of one version or of the other.
LinksFollowNames ==
  Decoded =>
    \E old \in IF Stated = NULL THEN BOOLEAN ELSE {Number[Stated[1]] \in 4..5} : FollowsNames(old)

\* The comments at 303 ("Figure out the TMATS version") and 611 ("The fields used for these ties
\* varies based on the Ch 9 release version") of i106_decode_tmats.c mean the version of the
\* text: one that states none is connected as a program connects it that has decoded nothing
\* before.  It is not: the version is that of the last text that stated one.
VersionIsOfText == Decoded /\ Stated = NULL => FollowsNames(FALSE)

\* The signature does not depend on the G\SHA attribute, wherever it stands but at the end:
\* what is hashed is the text without it and what it has swallowed.
SignatureSkipsSha ==
  LET sha == SelectInSeq(text, IsSha)
      end == IF sha = 0 THEN 0 ELSE SelectInSubSeq(text, sha, Len(text), LAMBDA a : a.ended)
  IN /\ sha = 0 => Hashed(Characters(text)) = Characters(text)
     /\ sha > 0 /\ 0 < end /\ end < Len(text) =>
          Hashed(Characters(text)) =
            Characters(SubSeq(text, 1, sha - 1) \o SubSeq(text, end + 1, Len(text)))

=============================================================================
