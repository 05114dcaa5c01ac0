----------------------------- MODULE RowProofs ------------------------------
(***************************************************************************)
(* What becomes of every message: no row of it is lost or counted twice,   *)
(* and process_email raises if it holds something that cannot be counted.  *)
(*                                                                         *)
(* The argument: the walk of process_email has a place in the inbox, and   *)
(* the counters, as they will be when the update under way is through,     *)
(* add up to the rows behind that place.  A step either leaves both alone  *)
(* or passes one row and counts it.  What raises, on the other hand, is in *)
(* what is still ahead of that place.                                      *)
(***************************************************************************)
EXTENDS ExporterProofs

-----------------------------------------------------------------------------
(* Where process_email is in the messages *)

\* What is left of a sequence, when elements are taken from its front.
Remains(s, t) ==
    Len(s) <= Len(t) /\ \A n \in 1 .. Len(s) : s[n] = t[Len(t) - Len(s) + n]

Taken(s, t) == Len(t) - Len(s)

\* The part, the payload and the record that were taken last.
Called == inbox[handled + 1]
PartNo == Taken(parts, Called.parts)
ThisPart == Called.parts[PartNo]
DocNo == Taken(docs, ThisPart.docs)
ThisReport == Parse(ThisPart.docs[DocNo])
RecordNo == Taken(feedback.record, ThisReport.record)
ThisRecord == ThisReport.record[RecordNo]

InPart == {"docs", "records", "lock", "update"}
InReport == {"records", "lock", "update"}

\* The event is the one of the record.
Converted ==
    /\ ThisRecord.row # None
    /\ event.count = CountOrOne(ThisRecord.row.count)
    /\ \A d \in {"quarantine", "reject"} :
          event.result.disposition = d <=>
              Evaluated(ThisRecord) # None /\ Evaluated(ThisRecord).disposition = d

\* process_email walks through the message it was called with, and has found a
\* payload when one is behind it.
Walk ==
    /\ pc # "idle" =>
          /\ Remains(parts, Called.parts)
          /\ found <=> \E j \in 1 .. PartNo : IsPayload(Called.parts[j])
    /\ pc \in InPart => PartNo # 0 /\ IsPayload(ThisPart) /\ Remains(docs, ThisPart.docs)
    /\ pc \in InReport => DocNo # 0 /\ Remains(feedback.record, ThisReport.record)
    /\ pc \in {"lock", "update"} => RecordNo # 0 /\ Converted
    /\ pc \in {"lock_invalid", "invalid"} => parts = <<>> /\ ~found

\* The place of a row: message, part, payload, record.
Place == Nat \X Nat \X Nat \X Nat

IsRow(p) ==
    /\ p[1] \in 1 .. Len(inbox)
    /\ p[2] \in DOMAIN inbox[p[1]].parts
    /\ IsPayload(PartAt(p))
    /\ p[3] \in DOMAIN PartAt(p).docs
    /\ p[4] \in DOMAIN Parse(DocAt(p)).record
    /\ RecordAt(p).row # None

\* The walk is past the place, where an update counts from its first step on.
Passed(p) ==
    \/ p[1] <= handled
    \/ /\ pc # "idle" /\ p[1] = handled + 1
       /\ \/ p[2] < PartNo
          \/ /\ p[2] = PartNo
             /\ pc \in InPart =>
                   \/ p[3] < DocNo
                   \/ /\ p[3] = DocNo
                      /\ pc \in InReport =>
                            \/ p[4] < RecordNo
                            \/ p[4] = RecordNo /\ pc # "lock" /\ (pc = "update" => at # 0)

Done == {p \in Place : IsRow(p) /\ Passed(p)}

\* The rows that count for one of the counters.
RowsFor(rows, c) == {p \in rows : c = "total" \/ RowHas(p, c)}

\* The next step raises, or one has raised before.
Doomed == raised \/ (pc = "update" /\ at # 0 /\ event.count = Text)

SettledSum(c) == SumFunction([m \in DOMAIN metrics |-> Settled(m)[c]])

\* The counters add up to the rows passed.
RowsAddUp ==
    ~Doomed =>
        /\ IsFiniteSet(Done)
        /\ \A c \in {"total", "quarantine", "reject"} : SettledSum(c) = CountOf(RowsFor(Done, c))

\* The invalid messages add up to those without a payload.
InvalidAddUp == ~raised => SumFunction(invalid) = Cardinality(WithoutPayload)

RowInv ==
    /\ TypeOK /\ HasLabels /\ Countable
    /\ IsFiniteSet(DOMAIN metrics) /\ IsFiniteSet(DOMAIN invalid)
    /\ Walk /\ RowsAddUp /\ InvalidAddUp

\* A sequence remains of itself, with nothing taken.
LEMMA RemainsAll ==
    ASSUME NEW T, NEW t \in Seq(T)
    PROVE  Remains(t, t) /\ Taken(t, t) = 0
  BY DEF Remains, Taken

\* What is taken next from what remains.
LEMMA RemainsTail ==
    ASSUME NEW S, NEW T, NEW s \in Seq(S), NEW t \in Seq(T), s # <<>>, Remains(s, t)
    PROVE  /\ Remains(Tail(s), t)
           /\ Taken(s, t) \in Nat
           /\ Taken(Tail(s), t) = Taken(s, t) + 1
           /\ Taken(s, t) + 1 \in 1 .. Len(t)
           /\ Head(s) = t[Taken(s, t) + 1]
<1>1. Len(s) \in Nat /\ Len(t) \in Nat /\ Len(s) # 0
  BY EmptySeq, LenProperties
<1>2. Tail(s) \in Seq(S) /\ Len(Tail(s)) = Len(s) - 1 /\ Head(s) = s[1]
  BY HeadTailProperties
<1>3. \A n \in 1 .. Len(s) - 1 : Tail(s)[n] = s[n + 1]
  BY <1>2, HeadTailProperties
<1>4. ASSUME NEW n \in 1 .. Len(s) - 1
      PROVE  Tail(s)[n] = t[Len(t) - (Len(s) - 1) + n]
  <2>1. n + 1 \in 1 .. Len(s)
    BY <1>1
  <2>2. s[n + 1] = t[Len(t) - Len(s) + (n + 1)]
    BY <2>1 DEF Remains
  <2>3. Len(t) - Len(s) + (n + 1) = Len(t) - (Len(s) - 1) + n
    BY <1>1
  <2> QED
    BY <1>3, <2>2, <2>3
<1>5. Remains(Tail(s), t)
  BY <1>1, <1>2, <1>4 DEF Remains
<1>6. Len(s) <= Len(t) /\ s[1] = t[Len(t) - Len(s) + 1]
  BY <1>1 DEF Remains
<1> QED
  BY <1>1, <1>2, <1>5, <1>6 DEF Taken

\* Nothing remains: all have been taken.
LEMMA RemainsNone ==
    ASSUME NEW T, NEW t \in Seq(T)
    PROVE  Taken(<<>>, t) = Len(t) /\ Len(t) \in Nat
  BY LenProperties, EmptySeq DEF Taken

\* The number of those taken.
LEMMA TakenType ==
    ASSUME NEW S, NEW T, NEW s \in Seq(S), NEW t \in Seq(T), Remains(s, t)
    PROVE  Taken(s, t) \in 0 .. Len(t) /\ Len(t) \in Nat
  BY LenProperties DEF Remains, Taken

AnyRecord == RecordType("0.1") \cup RecordType("2.0")

\* The message, the part, the payload and the record under way have their types.
LEMMA WalkTypes ==
    ASSUME TypeOK, Walk
    PROVE  /\ pc # "idle" => /\ Called \in Message
                             /\ PartNo \in 0 .. Len(Called.parts)
           /\ pc \in InPart => /\ ThisPart \in Part
                               /\ PartNo \in 1 .. Len(Called.parts)
                               /\ DocNo \in 0 .. Len(ThisPart.docs)
           /\ pc \in InReport => /\ DocNo \in 1 .. Len(ThisPart.docs)
                                 /\ feedback.record \in Seq(AnyRecord)
                                 /\ ThisReport.record \in Seq(AnyRecord)
                                 /\ RecordNo \in 0 .. Len(ThisReport.record)
<1>1. /\ handled \in 0 .. Len(inbox) /\ inbox \in Seq(Message) /\ inbox \in Inboxes
      /\ pc # "idle" => handled < Len(inbox)
      /\ parts \in Seq(Part) /\ docs \in Seq(Document)
  BY InboxesAssumption DEF TypeOK
<1>2. ASSUME NEW v \in Version, NEW f \in Feedback(v) PROVE f.record \in Seq(AnyRecord)
  <2>1. f.record \in Seq(RecordType(v)) /\ RecordType(v) \subseteq AnyRecord
    BY DEF Feedback, AnyRecord, Version
  <2> QED
    BY <2>1
<1>3. ASSUME pc # "idle" PROVE Called \in Message /\ PartNo \in 0 .. Len(Called.parts)
  <2>1. handled + 1 \in 1 .. Len(inbox)
    BY <1>1, <1>3
  <2>2. Called \in Message
    BY <1>1, <2>1, ElementOfSeq DEF Called
  <2>3. Called.parts \in Seq(Part)
    BY <2>2 DEF Message
  <2> QED
    BY <1>1, <1>3, <2>2, <2>3, TakenType DEF Walk, PartNo
<1>4. ASSUME pc \in InPart
      PROVE  /\ ThisPart \in Part
             /\ PartNo \in 1 .. Len(Called.parts)
             /\ DocNo \in 0 .. Len(ThisPart.docs)
  <2>1. pc # "idle"
    BY <1>4 DEF InPart
  <2>2. Called \in Message /\ PartNo \in 1 .. Len(Called.parts)
    BY <1>3, <1>4, <2>1 DEF Walk
  <2>3. ThisPart \in Part
    BY <2>2, ElementOfSeq DEF Message, ThisPart
  <2>4. ThisPart.docs \in Seq(Document)
    BY <2>3 DEF Part
  <2> QED
    BY <1>1, <1>4, <2>2, <2>3, <2>4, TakenType DEF Walk, DocNo
<1>5. ASSUME pc \in InReport
      PROVE  /\ DocNo \in 1 .. Len(ThisPart.docs)
             /\ feedback.record \in Seq(AnyRecord)
             /\ ThisReport.record \in Seq(AnyRecord)
             /\ RecordNo \in 0 .. Len(ThisReport.record)
  <2>1. pc \in InPart
    BY <1>5 DEF InPart, InReport
  <2>2. DocNo \in 1 .. Len(ThisPart.docs) /\ ThisPart.docs \in Seq(Document)
    BY <1>4, <1>5, <2>1 DEF Walk, Part
  <2>3. ThisPart.docs[DocNo] \in Document
    BY <2>2, ElementOfSeq
  <2>4. \E v \in Version : ThisReport \in Feedback(v)
    BY <2>3, ParseType DEF ThisReport
  <2>5. ThisReport.record \in Seq(AnyRecord)
    BY <1>2, <2>4
  <2>6. feedback.record \in Seq(AnyRecord)
    BY <1>2 DEF TypeOK
  <2> QED
    BY <1>5, <2>2, <2>5, <2>6, TakenType DEF Walk, RecordNo
<1> QED
  BY <1>3, <1>4, <1>5

-----------------------------------------------------------------------------
(* Steps of the walk: each passes no row, or the place of none. *)

\* What the parser finds anything in, it has found all of.
LEMMA ParsesAll ==
    ASSUME NEW doc, NEW r \in DOMAIN Parse(doc).record
    PROVE  ~(doc.schema = "2.0" /\ doc.unknown) /\ Parse(doc) = doc.feedback
BY DEF Parse, EmptyFeedback

\* The rows passed, by their places.
LEMMA DoneSame ==
    ASSUME inbox' = inbox, \A p \in Place : IsRow(p) => (Passed(p)' <=> Passed(p))
    PROVE  Done' = Done
<1>1. \A p \in Place : IsRow(p)' <=> IsRow(p)
  BY DEF IsRow, PartAt, DocAt, RecordAt
<1> QED
  BY <1>1 DEF Done

\* The place of a row is in the sequences of its message.
LEMMA RowPlace ==
    ASSUME TypeOK, NEW p \in Place, IsRow(p)
    PROVE  /\ p[1] \in 1 .. Len(inbox)
           /\ p[2] \in 1 .. Len(inbox[p[1]].parts)
           /\ p[3] \in 1 .. Len(PartAt(p).docs)
           /\ p[4] \in 1 .. Len(Parse(DocAt(p)).record)
           /\ RecordAt(p) = Parse(DocAt(p)).record[p[4]]
<1>1. inbox \in Seq(Message) /\ p[1] \in 1 .. Len(inbox)
  BY InboxesAssumption DEF TypeOK, IsRow
<1>2. inbox[p[1]] \in Message
  BY <1>1, ElementOfSeq
<1>3. inbox[p[1]].parts \in Seq(Part)
  BY <1>2 DEF Message
<1>4. p[2] \in 1 .. Len(inbox[p[1]].parts)
  BY <1>3, LenProperties DEF IsRow
<1>5. PartAt(p) \in Part
  BY <1>3, <1>4, ElementOfSeq DEF PartAt
<1>6. PartAt(p).docs \in Seq(Document)
  BY <1>5 DEF Part
<1>7. p[3] \in 1 .. Len(PartAt(p).docs)
  BY <1>6, LenProperties DEF IsRow
<1>8. DocAt(p) \in Document
  BY <1>6, <1>7, ElementOfSeq DEF DocAt
<1>9. \E v \in Version : Parse(DocAt(p)) \in Feedback(v)
  BY <1>8, ParseType
<1>10. \E v \in Version : Parse(DocAt(p)).record \in Seq(RecordType(v))
  BY <1>9 DEF Feedback
<1>11. p[4] \in 1 .. Len(Parse(DocAt(p)).record)
  BY <1>10, LenProperties DEF IsRow
<1>12. RecordAt(p) = Parse(DocAt(p)).record[p[4]]
  BY ParsesAll DEF IsRow, RecordAt
<1> QED
  BY <1>1, <1>4, <1>7, <1>11, <1>12

\* A call starts before the first part.
LEMMA WalkCall ==
    ASSUME TypeOK, Walk, Call
    PROVE  Walk' /\ Done' = Done
<1>1. /\ pc = "idle" /\ pc' = "parts" /\ parts' = Called.parts /\ found' = FALSE
      /\ handled < Len(inbox) /\ handled \in Nat /\ Len(inbox) \in Nat
      /\ UNCHANGED <<inbox, handled>>
  BY InboxesAssumption DEF Call, ReadStep, Called, TypeOK
<1>2. Called.parts \in Seq(Part) /\ Called' = Called
  <2>1. handled \in 0 .. Len(inbox) /\ inbox \in Inboxes
    BY DEF TypeOK
  <2> QED
    BY <1>1, <2>1, MessageType DEF Called
<1>3. Remains(parts', Called'.parts) /\ PartNo' = 0
  BY <1>1, <1>2, RemainsAll DEF PartNo
<1>4. Walk'
  BY <1>1, <1>3 DEF Walk, InPart, InReport
<1>5. ASSUME NEW p \in Place, IsRow(p) PROVE Passed(p)' <=> Passed(p)
  <2>1. p[2] >= 1 /\ p[2] \in Nat
    BY <1>5, RowPlace DEF Place
  <2> QED
    BY <1>1, <1>3, <2>1 DEF Passed
<1> QED
  BY <1>1, <1>4, <1>5, DoneSame

\* Taking the next part: it holds no row, or its payloads are still to come.
LEMMA WalkPart ==
    ASSUME TypeOK, Walk, SkipPart \/ OpenPart
    PROVE  Walk' /\ Done' = Done
<1>1. /\ pc = "parts" /\ parts # <<>> /\ parts' = Tail(parts)
      /\ UNCHANGED <<inbox, handled>>
  BY DEF SkipPart, OpenPart, ReadStep
<1>2. Called \in Message /\ Called' = Called /\ Remains(parts, Called.parts)
  BY <1>1, WalkTypes DEF Walk, Called
<1>3. Called.parts \in Seq(Part) /\ parts \in Seq(Part)
  BY <1>2 DEF Message, TypeOK
<1>4. /\ Remains(parts', Called'.parts)
      /\ PartNo \in Nat /\ PartNo' = PartNo + 1
      /\ PartNo + 1 \in 1 .. Len(Called.parts)
      /\ Head(parts) = Called.parts[PartNo + 1]
  BY <1>1, <1>2, <1>3, RemainsTail DEF PartNo
<1>5. ThisPart' = Head(parts)
  BY <1>2, <1>4 DEF ThisPart
<1>6. Head(parts) \in Part
  BY <1>1, <1>3, FirstOfSequence
<1>7. ASSUME NEW j PROVE j \in 1 .. PartNo' <=> j \in 1 .. PartNo \/ j = PartNo + 1
  BY <1>4
<1>8. CASE SkipPart
  <2>1. pc' = "parts" /\ ~IsPayload(Head(parts)) /\ found' = found
    BY <1>8 DEF SkipPart
  <2>2. found' <=> \E j \in 1 .. PartNo' : IsPayload(Called'.parts[j])
    BY <1>1, <1>2, <1>4, <1>7, <2>1 DEF Walk
  <2>3. Walk'
    BY <1>4, <2>1, <2>2 DEF Walk, InPart, InReport
  <2>4. ASSUME NEW p \in Place, IsRow(p) PROVE Passed(p)' <=> Passed(p)
    <3>1. p[1] \in Nat /\ p[2] \in Nat
      BY DEF Place
    <3>2. ~ (p[1] = handled + 1 /\ p[2] = PartNo + 1)
      BY <1>4, <2>1, <2>4 DEF IsRow, PartAt, Called
    <3> QED
      BY <1>1, <1>4, <2>1, <3>1, <3>2 DEF Passed, InPart
  <2> QED
    BY <1>1, <2>3, <2>4, DoneSame
<1>9. CASE OpenPart
  <2>1. pc' = "docs" /\ IsPayload(Head(parts)) /\ found' = TRUE /\ docs' = Head(parts).docs
    BY <1>9 DEF OpenPart
  <2>2. found' <=> \E j \in 1 .. PartNo' : IsPayload(Called'.parts[j])
    BY <1>2, <1>4, <1>7, <2>1
  <2>3. Remains(docs', ThisPart'.docs) /\ DocNo' = 0
    <3>1. Head(parts).docs \in Seq(Document)
      BY <1>6 DEF Part
    <3> QED
      BY <1>5, <2>1, <3>1, RemainsAll DEF DocNo
  <2>4. Walk'
    BY <1>4, <1>5, <2>1, <2>2, <2>3 DEF Walk, InPart, InReport
  <2>5. ASSUME NEW p \in Place, IsRow(p) PROVE Passed(p)' <=> Passed(p)
    <3>1. p[1] \in Nat /\ p[2] \in Nat /\ p[3] \in Nat /\ p[3] >= 1
      BY <2>5, RowPlace DEF Place
    <3> QED
      BY <1>1, <1>4, <2>1, <2>3, <3>1 DEF Passed, InPart, InReport
  <2> QED
    BY <1>1, <2>4, <2>5, DoneSame
<1> QED
  BY <1>8, <1>9

\* The end of a message: all of its rows are passed.
LEMMA WalkEnd ==
    ASSUME TypeOK, Walk, pc # "idle", pc \notin InPart, parts = <<>>,
           pc' = "idle", handled' = handled + 1, inbox' = inbox
    PROVE  Walk' /\ Done' = Done
<1>1. Called \in Message /\ handled \in Nat
  BY WalkTypes, InboxesAssumption DEF TypeOK
<1>2. PartNo = Len(Called.parts) /\ PartNo \in Nat
  <2>1. Called.parts \in Seq(Part)
    BY <1>1 DEF Message
  <2> QED
    BY <2>1, RemainsNone DEF PartNo
<1>3. ASSUME NEW p \in Place, IsRow(p) PROVE Passed(p)' <=> Passed(p)
  <2>1. p[1] \in Nat /\ p[2] \in Nat
    BY DEF Place
  <2>2. p[1] = handled + 1 => p[2] <= PartNo
    BY <1>2, <1>3, <2>1, RowPlace DEF Called
  <2> QED
    BY <1>1, <1>2, <2>1, <2>2 DEF Passed
<1>4. Walk'
  BY DEF Walk, InPart, InReport
<1> QED
  BY <1>3, <1>4, DoneSame

\* What the walk does not change.
LEMMA WalkSame ==
    ASSUME UNCHANGED <<inbox, handled, parts, docs, feedback>>
    PROVE  /\ UNCHANGED <<Called, PartNo, ThisPart, DocNo, ThisReport, RecordNo, ThisRecord>>
           /\ event' = event => (Converted' <=> Converted)
<1>1. Called' = Called /\ PartNo' = PartNo
  BY DEF Called, PartNo
<1>2. ThisPart' = ThisPart
  BY <1>1 DEF ThisPart
<1>3. DocNo' = DocNo
  BY <1>2 DEF DocNo
<1>4. ThisReport' = ThisReport
  BY <1>2, <1>3 DEF ThisReport
<1>5. RecordNo' = RecordNo
  BY <1>4 DEF RecordNo
<1>6. ThisRecord' = ThisRecord
  BY <1>4, <1>5 DEF ThisRecord
<1>7. event' = event => (Converted' <=> Converted)
  BY <1>6 DEF Converted
<1> QED
  BY <1>1, <1>2, <1>3, <1>4, <1>5, <1>6, <1>7

\* A message without a payload, until it is counted.
LEMMA WalkInvalid ==
    ASSUME TypeOK, Walk, NothingFound \/ LockForInvalid
    PROVE  Walk' /\ Done' = Done
<1>1. /\ pc \in {"parts", "lock_invalid"} /\ pc' \in {"lock_invalid", "invalid"}
      /\ parts = <<>> /\ ~found
      /\ UNCHANGED <<inbox, handled, parts, found, docs, feedback>>
  BY DEF NothingFound, LockForInvalid, ReadStep, Walk
<1>2. UNCHANGED <<Called, PartNo>>
  BY <1>1, WalkSame
<1>3. Walk'
  BY <1>1, <1>2 DEF Walk, InPart, InReport
<1>4. \A p \in Place : IsRow(p) => (Passed(p)' <=> Passed(p))
  BY <1>1, <1>2 DEF Passed, InPart
<1> QED
  BY <1>1, <1>3, <1>4, DoneSame

\* Taking the next payload: its records are still to come.
LEMMA WalkPayload ==
    ASSUME TypeOK, Walk, ParsePayload
    PROVE  Walk' /\ Done' = Done
<1>1. /\ pc = "docs" /\ pc' = "records" /\ docs # <<>> /\ docs' = Tail(docs)
      /\ feedback' = Parse(Head(docs))
      /\ UNCHANGED <<inbox, handled, parts, found>>
  BY DEF ParsePayload, ReadStep
<1>2. /\ PartNo \in Nat /\ PartNo # 0 /\ ThisPart \in Part /\ IsPayload(ThisPart)
      /\ Remains(docs, ThisPart.docs)
  BY <1>1, WalkTypes DEF Walk, InPart
<1>3. UNCHANGED <<Called, PartNo, ThisPart>>
  BY <1>1 DEF Called, PartNo, ThisPart
<1>4. ThisPart.docs \in Seq(Document) /\ docs \in Seq(Document)
  BY <1>2 DEF Part, TypeOK
<1>5. /\ Remains(docs', ThisPart.docs)
      /\ DocNo \in Nat /\ DocNo' = DocNo + 1
      /\ Head(docs) = ThisPart.docs[DocNo + 1]
  BY <1>1, <1>2, <1>3, <1>4, RemainsTail DEF DocNo
<1>6. ThisReport' = feedback'
  BY <1>1, <1>3, <1>5 DEF ThisReport
<1>7. Remains(feedback'.record, ThisReport'.record) /\ RecordNo' = 0
  <2>1. Head(docs) \in Document
    BY <1>1, <1>4, FirstOfSequence
  <2>2. PICK v \in Version : feedback' \in Feedback(v)
    BY <1>1, <2>1, ParseType
  <2>3. feedback'.record \in Seq(RecordType(v))
    BY <2>2 DEF Feedback
  <2> QED
    BY <1>6, <2>3, RemainsAll DEF RecordNo
<1>8. Walk'
  BY <1>1, <1>2, <1>3, <1>5, <1>7 DEF Walk, InPart, InReport
<1>9. ASSUME NEW p \in Place, IsRow(p) PROVE Passed(p)' <=> Passed(p)
  <2>1. p[1] \in Nat /\ p[2] \in Nat /\ p[3] \in Nat /\ p[4] \in Nat /\ p[4] >= 1
    BY <1>9, RowPlace DEF Place
  <2> QED
    BY <1>1, <1>3, <1>5, <1>7, <2>1 DEF Passed, InPart, InReport
<1> QED
  BY <1>1, <1>8, <1>9, DoneSame

\* The end of a part: all of its rows are passed.
LEMMA WalkClose ==
    ASSUME TypeOK, Walk, ClosePart
    PROVE  Walk' /\ Done' = Done
<1>1. /\ pc = "docs" /\ pc' = "parts" /\ docs = <<>>
      /\ UNCHANGED <<inbox, handled, parts, found, docs, feedback>>
  BY DEF ClosePart, ReadStep
<1>2. UNCHANGED <<Called, PartNo>>
  BY <1>1, WalkSame
<1>3. Walk'
  BY <1>1, <1>2 DEF Walk, InPart, InReport
<1>4. ThisPart \in Part /\ PartNo \in Nat
  BY <1>1, WalkTypes DEF InPart
<1>5. DocNo = Len(ThisPart.docs) /\ DocNo \in Nat
  <2>1. ThisPart.docs \in Seq(Document)
    BY <1>4 DEF Part
  <2> QED
    BY <1>1, <2>1, RemainsNone DEF DocNo
<1>6. ASSUME NEW p \in Place, IsRow(p) PROVE Passed(p)' <=> Passed(p)
  <2>1. p[1] \in Nat /\ p[2] \in Nat /\ p[3] \in Nat
    BY DEF Place
  <2>2. p[1] = handled + 1 /\ p[2] = PartNo => p[3] <= DocNo
    BY <1>5, <1>6, <2>1, RowPlace DEF PartAt, Called, ThisPart
  <2> QED
    BY <1>1, <1>2, <1>4, <1>5, <2>1, <2>2 DEF Passed, InPart, InReport
<1> QED
  BY <1>1, <1>3, <1>6, DoneSame

\* The end of a report: all of its rows are passed.
LEMMA WalkReport ==
    ASSUME TypeOK, Walk, EndReport
    PROVE  Walk' /\ Done' = Done
<1>1. /\ pc = "records" /\ pc' = "docs" /\ feedback.record = <<>>
      /\ UNCHANGED <<inbox, handled, parts, found, docs, feedback>>
  BY DEF EndReport, ReadStep
<1>2. UNCHANGED <<Called, PartNo, ThisPart, DocNo>>
  BY <1>1, WalkSame
<1>3. Walk'
  BY <1>1, <1>2 DEF Walk, InPart, InReport
<1>4. PartNo \in Nat /\ DocNo \in Nat /\ ThisReport.record \in Seq(AnyRecord)
  BY <1>1, WalkTypes DEF InPart, InReport
<1>5. RecordNo = Len(ThisReport.record) /\ RecordNo \in Nat
  BY <1>1, <1>4, RemainsNone DEF RecordNo
<1>6. ASSUME NEW p \in Place, IsRow(p) PROVE Passed(p)' <=> Passed(p)
  <2>1. p[1] \in Nat /\ p[2] \in Nat /\ p[3] \in Nat /\ p[4] \in Nat
    BY DEF Place
  <2>2. p[1] = handled + 1 /\ p[2] = PartNo /\ p[3] = DocNo => p[4] <= RecordNo
    <3>1. p[4] <= Len(Parse(DocAt(p)).record)
      BY <1>6, <2>1, RowPlace
    <3>2. ASSUME p[1] = handled + 1, p[2] = PartNo, p[3] = DocNo
          PROVE  Parse(DocAt(p)) = ThisReport
      BY <3>2 DEF DocAt, PartAt, Called, ThisPart, ThisReport
    <3> QED
      BY <1>5, <3>1, <3>2
  <2> QED
    BY <1>1, <1>2, <1>4, <1>5, <2>1, <2>2 DEF Passed, InPart, InReport
<1> QED
  BY <1>1, <1>3, <1>6, DoneSame

\* Taking the next record: it has no row, or its event is still to be counted.
LEMMA WalkRecord ==
    ASSUME TypeOK, Walk, SkipRecord \/ ConvertRecord
    PROVE  Walk' /\ Done' = Done
<1>1. /\ pc = "records" /\ feedback.record # <<>>
      /\ feedback' = [feedback EXCEPT !.record = Tail(@)]
      /\ UNCHANGED <<inbox, handled, parts, found, docs>>
  BY DEF SkipRecord, ConvertRecord, ReadStep
<1>2. /\ PartNo \in Nat /\ PartNo # 0 /\ ThisPart \in Part /\ IsPayload(ThisPart)
      /\ DocNo \in Nat /\ DocNo # 0
      /\ Remains(docs, ThisPart.docs)
      /\ Remains(parts, Called.parts)
      /\ Remains(feedback.record, ThisReport.record)
      /\ found <=> \E j \in 1 .. PartNo : IsPayload(Called.parts[j])
      /\ feedback.record \in Seq(AnyRecord) /\ ThisReport.record \in Seq(AnyRecord)
  BY <1>1, WalkTypes DEF Walk, InPart, InReport
<1>3. UNCHANGED <<Called, PartNo, ThisPart, DocNo>>
  <2>1. UNCHANGED <<Called, PartNo>>
    BY <1>1 DEF Called, PartNo
  <2>2. UNCHANGED ThisPart
    BY <2>1 DEF ThisPart
  <2> QED
    BY <1>1, <2>1, <2>2 DEF DocNo
<1>4. UNCHANGED ThisReport
  BY <1>3 DEF ThisReport
<1>5. feedback'.record = Tail(feedback.record)
  BY <1>1 DEF TypeOK, Feedback
<1>6. /\ Remains(feedback'.record, ThisReport'.record)
      /\ RecordNo \in Nat /\ RecordNo' = RecordNo + 1
      /\ Head(feedback.record) = ThisReport.record[RecordNo + 1]
  BY <1>1, <1>2, <1>4, <1>5, RemainsTail DEF RecordNo
<1>7. ThisRecord' = Head(feedback.record)
  BY <1>4, <1>6 DEF ThisRecord
<1>8. CASE SkipRecord
  <2>1. pc' = "records" /\ Head(feedback.record).row = None
    BY <1>1, <1>8 DEF SkipRecord
  <2>2. Walk'
    BY <1>1, <1>2, <1>3, <1>6, <2>1 DEF Walk, InPart, InReport
  <2>3. ASSUME NEW p \in Place, IsRow(p) PROVE Passed(p)' <=> Passed(p)
    <3>1. p[1] \in Nat /\ p[2] \in Nat /\ p[3] \in Nat /\ p[4] \in Nat
      BY DEF Place
    <3>2. ASSUME p[1] = handled + 1, p[2] = PartNo, p[3] = DocNo, p[4] = RecordNo + 1
          PROVE  RecordAt(p) = Head(feedback.record)
      <4>1. Parse(DocAt(p)) = ThisReport
        BY <3>2 DEF DocAt, PartAt, Called, ThisPart, ThisReport
      <4> QED
        BY <1>6, <2>3, <3>2, <4>1, RowPlace
    <3>3. ~ (p[1] = handled + 1 /\ p[2] = PartNo /\ p[3] = DocNo /\ p[4] = RecordNo + 1)
      BY <2>1, <2>3, <3>2 DEF IsRow
    <3> QED
      BY <1>1, <1>2, <1>3, <1>6, <2>1, <3>1, <3>3 DEF Passed, InPart, InReport
  <2> QED
    BY <1>1, <2>2, <2>3, DoneSame
<1>9. CASE ConvertRecord
  <2> DEFINE r == Head(feedback.record)
  <2>1. /\ pc' = "lock" /\ r.row # None /\ MapsDisposition(r) /\ event' = EventOf(feedback, r)
    BY <1>9 DEF ConvertRecord
  <2>2. event'.count = CountOrOne(r.row.count)
    BY <2>1 DEF EventOf
  <2>3. event'.result.disposition =
           IF Evaluated(r) = None THEN "none" ELSE _map_disposition(Evaluated(r).disposition)
    BY <2>1 DEF EventOf
  <2> HIDE DEF r
  <2>4. ASSUME NEW d \in {"quarantine", "reject"}
        PROVE  event'.result.disposition = d <=>
                  Evaluated(r) # None /\ Evaluated(r).disposition = d
    <3>1. CASE Evaluated(r) = None
      BY <2>3, <3>1
    <3>2. CASE Evaluated(r) # None
      <4>1. Evaluated(r).disposition \in Disposition \cup {None}
        BY <2>1, <3>2 DEF MapsDisposition
      <4>2. CASE Evaluated(r).disposition = None
        <5>1. event'.result.disposition = "none"
          BY <2>3, <3>2, <4>2 DEF _map_disposition
        <5> QED
          BY <4>2, <5>1, NoneAssumption DEF Disposition
      <4>3. CASE Evaluated(r).disposition # None
        BY <2>3, <3>2, <4>3 DEF _map_disposition
      <4> QED
        BY <4>2, <4>3
    <3> QED
      BY <3>1, <3>2
  <2>5. Converted'
    BY <1>7, <2>1, <2>2, <2>4 DEF Converted, r
  <2>6. Walk'
    BY <1>1, <1>2, <1>3, <1>6, <2>1, <2>5 DEF Walk, InPart, InReport
  <2>7. ASSUME NEW p \in Place, IsRow(p) PROVE Passed(p)' <=> Passed(p)
    <3>1. p[1] \in Nat /\ p[2] \in Nat /\ p[3] \in Nat /\ p[4] \in Nat
      BY DEF Place
    <3>2. Passed(p) <=> \/ p[1] <= handled
                        \/ /\ p[1] = handled + 1
                           /\ \/ p[2] < PartNo
                              \/ p[2] = PartNo /\ p[3] < DocNo
                              \/ p[2] = PartNo /\ p[3] = DocNo /\ p[4] < RecordNo + 1
      BY <1>1, <1>6, <3>1 DEF Passed, InPart, InReport
    <3>3. Passed(p)' <=> \/ p[1] <= handled
                         \/ /\ p[1] = handled + 1
                            /\ \/ p[2] < PartNo
                               \/ p[2] = PartNo /\ p[3] < DocNo
                               \/ p[2] = PartNo /\ p[3] = DocNo /\ p[4] < RecordNo + 1
      BY <1>1, <1>3, <1>6, <2>1, <3>1 DEF Passed, InPart, InReport
    <3> QED
      BY <3>2, <3>3
  <2> QED
    BY <1>1, <2>6, <2>7, DoneSame
<1> QED
  BY <1>8, <1>9

\* An update stays at its record, which is passed from its first step on.
LEMMA WalkUpdate ==
    ASSUME TypeOK, Walk, LockForEvent \/ Increment \/ Release
    PROVE  Walk' /\ Done' = Done
<1>1. /\ pc \in {"lock", "update"} /\ pc' \in {"update", "records"}
      /\ UNCHANGED <<inbox, handled, parts, found, docs, feedback, event>>
  BY DEF LockForEvent, Increment, Release
<1>2. UNCHANGED <<Called, PartNo, ThisPart, DocNo, ThisReport, RecordNo>>
      /\ (Converted' <=> Converted)
  BY <1>1, WalkSame
<1>3. Walk'
  BY <1>1, <1>2 DEF Walk, InPart, InReport
<1>4. (pc # "lock" /\ (pc = "update" => at # 0)) <=> (pc' # "lock" /\ (pc' = "update" => at' # 0))
  BY DEF LockForEvent, Increment, Release
<1>5. pc # "idle" /\ pc' # "idle" /\ pc \in InPart /\ pc' \in InPart
      /\ pc \in InReport /\ pc' \in InReport
  BY <1>1 DEF InPart, InReport
<1>6. \A p \in Place : Passed(p)' <=> Passed(p)
  BY <1>1, <1>2, <1>4, <1>5 DEF Passed
<1> QED
  BY <1>1, <1>3, <1>6, DoneSame

Here == <<handled + 1, PartNo, DocNo, RecordNo>>

\* The record of the update is a row that has not been passed.
LEMMA HereIsRow ==
    ASSUME TypeOK, Walk, pc = "update"
    PROVE  Here \in Place /\ IsRow(Here) /\ RecordAt(Here) = ThisRecord
<1>1. handled + 1 \in 1 .. Len(inbox) /\ inbox \in Seq(Message)
  BY InboxesAssumption DEF TypeOK
<1>2. /\ Called \in Message
      /\ PartNo \in 1 .. Len(Called.parts) /\ ThisPart \in Part /\ IsPayload(ThisPart)
      /\ DocNo \in 1 .. Len(ThisPart.docs)
      /\ ThisReport.record \in Seq(AnyRecord)
      /\ RecordNo \in 1 .. Len(ThisReport.record)
      /\ ThisRecord.row # None
  BY WalkTypes DEF Walk, InPart, InReport, Converted
<1>3. Called.parts \in Seq(Part) /\ ThisPart.docs \in Seq(Document)
  BY <1>2 DEF Message, Part
<1>4. /\ PartNo \in DOMAIN Called.parts
      /\ DocNo \in DOMAIN ThisPart.docs
      /\ RecordNo \in DOMAIN ThisReport.record
  BY <1>2, <1>3, LenProperties
<1>5. handled + 1 \in Nat /\ PartNo \in Nat /\ DocNo \in Nat /\ RecordNo \in Nat
  BY <1>1, <1>2
<1>6. Here \in Place
  BY <1>5 DEF Here, Place
<1>7. /\ Here[1] = handled + 1 /\ Here[2] = PartNo /\ Here[3] = DocNo /\ Here[4] = RecordNo
  BY DEF Here
<1>8. inbox[Here[1]] = Called /\ PartAt(Here) = ThisPart
  BY <1>7 DEF PartAt, Called, ThisPart
<1>9. Parse(DocAt(Here)) = ThisReport
  BY <1>7, <1>8 DEF DocAt, ThisReport
<1>10. RecordAt(Here) = ThisRecord
  <2>1. Here[4] \in DOMAIN Parse(DocAt(Here)).record
    BY <1>4, <1>7, <1>9
  <2>2. DocAt(Here).feedback = ThisReport
    BY <1>9, <2>1, ParsesAll
  <2> QED
    BY <1>7, <2>2 DEF RecordAt, ThisRecord
<1>11. IsRow(Here)
  BY <1>1, <1>2, <1>4, <1>7, <1>8, <1>9, <1>10 DEF IsRow, DocAt
<1> QED
  BY <1>6, <1>10, <1>11

\* The first step of an update passes the one row of its record.
LEMMA WalkCount ==
    ASSUME TypeOK, Walk, NewLabels
    PROVE  Walk' /\ Here \notin Done /\ Done' = Done \cup {Here}
<1>1. /\ pc = "update" /\ pc' = "update" /\ at = 0 /\ at' = 1
      /\ UNCHANGED <<inbox, handled, parts, found, docs, feedback, event>>
  BY DEF NewLabels
<1>2. UNCHANGED <<Called, PartNo, ThisPart, DocNo, ThisReport, RecordNo>>
      /\ (Converted' <=> Converted)
  BY <1>1, WalkSame
<1>3. Walk'
  BY <1>1, <1>2 DEF Walk, InPart, InReport
<1>4. handled \in Nat /\ PartNo \in Nat /\ DocNo \in Nat /\ RecordNo \in Nat
  BY <1>1, WalkTypes, InboxesAssumption DEF TypeOK, InPart, InReport
<1>5. ASSUME NEW p \in Place PROVE Passed(p)' <=> Passed(p) \/ p = Here
  <2>1. p[1] \in Nat /\ p[2] \in Nat /\ p[3] \in Nat /\ p[4] \in Nat
    BY DEF Place
  <2>2. p = Here <=> p[1] = handled + 1 /\ p[2] = PartNo /\ p[3] = DocNo /\ p[4] = RecordNo
    BY DEF Here, Place
  <2>3. Passed(p) <=> \/ p[1] <= handled
                      \/ /\ p[1] = handled + 1
                         /\ \/ p[2] < PartNo
                            \/ p[2] = PartNo /\ p[3] < DocNo
                            \/ p[2] = PartNo /\ p[3] = DocNo /\ p[4] < RecordNo
    BY <1>1 DEF Passed, InPart, InReport
  <2>4. Passed(p)' <=> \/ p[1] <= handled
                       \/ /\ p[1] = handled + 1
                          /\ \/ p[2] < PartNo
                             \/ p[2] = PartNo /\ p[3] < DocNo
                             \/ p[2] = PartNo /\ p[3] = DocNo /\ p[4] < RecordNo
                             \/ p[2] = PartNo /\ p[3] = DocNo /\ p[4] = RecordNo
    BY <1>1, <1>2 DEF Passed, InPart, InReport
  <2> QED
    BY <2>2, <2>3, <2>4
<1>6. ~Passed(Here)
  BY <1>1, <1>4 DEF Passed, Here, InPart, InReport
<1>7. \A p \in Place : IsRow(p)' <=> IsRow(p)
  BY <1>1 DEF IsRow, PartAt, DocAt, RecordAt
<1>8. Here \in Place /\ IsRow(Here)
  BY <1>1, HereIsRow
<1>9. Done' = Done \cup {Here}
  <2> HIDE DEF Here
  <2> QED
    BY <1>5, <1>7, <1>8 DEF Done
<1> QED
  BY <1>3, <1>6, <1>9 DEF Done

\* An exception ends the walk.
LEMMA WalkRaise ==
    ASSUME Raise
    PROVE  Walk'
  BY DEF Walk, Raise, InPart, InReport

\* Requests leave it where it is.
LEMMA WalkServe ==
    ASSUME Walk, UNCHANGED loopVars
    PROVE  Walk' /\ Done' = Done
<1>1. UNCHANGED <<inbox, handled, pc, parts, found, docs, feedback, event, at>>
  BY DEF loopVars
<1>2. UNCHANGED <<Called, PartNo, ThisPart, DocNo, ThisReport, RecordNo>>
      /\ (Converted' <=> Converted)
  BY <1>1, WalkSame
<1>3. Walk'
  BY <1>1, <1>2 DEF Walk
<1>4. \A p \in Place : Passed(p)' <=> Passed(p)
  BY <1>1, <1>2 DEF Passed
<1> QED
  BY <1>1, <1>3, <1>4, DoneSame

\* Every step keeps to the walk.
LEMMA WalkNext == TypeOK /\ Walk /\ [Next]_vars => Walk'
<1> SUFFICES ASSUME TypeOK, Walk, [Next]_vars PROVE Walk'
  OBVIOUS
<1>1. CASE Return \/ IncInvalid
  <2>1. /\ pc # "idle" /\ pc \notin InPart /\ parts = <<>> /\ pc' = "idle"
        /\ handled' = handled + 1 /\ inbox' = inbox
    BY <1>1 DEF Return, IncInvalid, ReadStep, Walk, InPart
  <2> QED
    BY <2>1, WalkEnd
<1>2. CASE PartRaises \/ PayloadRaises \/ ConversionRaises \/ IncrementRaises
  BY <1>2, WalkRaise DEF PartRaises, PayloadRaises, ConversionRaises, IncrementRaises
<1>3. CASE Serve \/ UNCHANGED vars
  <2>1. UNCHANGED loopVars
    BY <1>3 DEF Serve, OpenServer, CloseServer, Unregister, Request, Collect, CollectLock,
       CollectLabels, CollectReturns, ServerStep, CollectStep, vars
  <2> QED
    BY <2>1, WalkServe
<1> QED
  BY <1>1, <1>2, <1>3, WalkCall, WalkPart, WalkInvalid, WalkPayload, WalkClose, WalkReport,
     WalkRecord, WalkUpdate, WalkCount DEF Next, ProcessEmail, Extract, Update, Serve

-----------------------------------------------------------------------------
(* What the rows add up to *)

\* Rows that stay the same add up to the same.
LEMMA CountOfSame ==
    ASSUME inbox' = inbox, Done' = Done, NEW c
    PROVE  CountOf(RowsFor(Done, c))' = CountOf(RowsFor(Done, c))
<1>1. ASSUME NEW p PROVE RowHas(p, c)' = RowHas(p, c) /\ RowCount(p)' = RowCount(p)
  BY DEF RowHas, RowCount, RecordAt, DocAt, PartAt
<1>2. RowsFor(Done, c)' = RowsFor(Done, c)
  BY <1>1 DEF RowsFor
<1> QED
  BY <1>1, <1>2 DEF CountOf

\* One more row adds its count.
LEMMA CountOfAdd ==
    ASSUME inbox' = inbox, IsFiniteSet(Done), NEW q, q \notin Done, Done' = Done \cup {q}, NEW c
    PROVE  /\ IsFiniteSet(Done')
           /\ CountOf(RowsFor(Done, c)) \in Nat
           /\ CountOf(RowsFor(Done, c))' =
                 CountOf(RowsFor(Done, c))
                 + (IF c = "total" \/ RowHas(q, c) THEN RowCount(q) ELSE 0)
<1> DEFINE R == RowsFor(Done, c)
           Q == RowsFor(Done, c)'
           w == [p \in R |-> RowCount(p)]
           v == [p \in Q |-> RowCount(p)]
           counts == c = "total" \/ RowHas(q, c)
<1>1. ASSUME NEW p
      PROVE  RowHas(p, c)' = RowHas(p, c) /\ RowCount(p)' = RowCount(p) /\ RowCount(p) \in Nat
  BY DEF RowHas, RowCount, RecordAt, DocAt, PartAt
<1>2. IsFiniteSet(Done') /\ IsFiniteSet(R)
  <2>1. R \in SUBSET Done
    BY DEF RowsFor
  <2> HIDE DEF R
  <2> QED
    BY <2>1, FS_Subset, FS_AddElement
<1>3. ASSUME NEW p PROVE p \in Q <=> p \in R \/ (p = q /\ counts)
  BY <1>1 DEF RowsFor
<1>4. q \notin R
  BY DEF RowsFor
<1>5. CountOf(RowsFor(Done, c)) = SumFunctionOnSet(w, R)
  BY DEF CountOf, SumFunction
<1>6. CountOf(RowsFor(Done, c))' = SumFunctionOnSet(v, Q)
  BY <1>1 DEF CountOf, SumFunction
<1>7. (\A p \in R : w[p] = RowCount(p)) /\ (\A p \in Q : v[p] = RowCount(p))
  OBVIOUS
<1> HIDE DEF R, Q, w, v, counts
<1>8. SumFunctionOnSet(w, R) \in Nat
  BY <1>1, <1>2, <1>7, SumNat
<1>9. SumFunctionOnSet(v, R) = SumFunctionOnSet(w, R)
  BY <1>2, <1>3, <1>7, SumSame
<1>10. CASE counts
  <2>1. Q = R \cup {q}
    BY <1>3, <1>10
  <2>2. v[q] = RowCount(q) /\ \A p \in R \cup {q} : v[p] \in Nat
    BY <1>1, <1>7, <2>1
  <2>3. SumFunctionOnSet(v, Q) = v[q] + SumFunctionOnSet(v, R)
    BY <1>2, <1>4, <2>1, <2>2, SumAdd
  <2>4. RowCount(q) \in Nat
    BY <1>1
  <2> QED
    BY <1>2, <1>5, <1>6, <1>8, <1>9, <1>10, <2>2, <2>3, <2>4 DEF counts
<1>11. CASE ~counts
  <2>1. Q = R
    BY <1>3, <1>11
  <2> QED
    BY <1>2, <1>5, <1>6, <1>8, <1>9, <1>11, <2>1 DEF counts
<1> QED
  BY <1>10, <1>11

\* Counters that settle at the same values add up to the same.
LEMMA SettledSumSame ==
    ASSUME DOMAIN metrics' = DOMAIN metrics, NEW c,
           \A m \in DOMAIN metrics : Settled(m)'[c] = Settled(m)[c]
    PROVE  SettledSum(c)' = SettledSum(c)
  BY DEF SettledSum

\* The first step of an update adds the event to the counters it concerns,
\* whether its labels are new or not.
LEMMA SettledSumCount ==
    ASSUME TypeOK, IsFiniteSet(DOMAIN metrics), NewLabels, event.count \in Nat, NEW c \in Counter
    PROVE  /\ SettledSum(c) \in Nat
           /\ SettledSum(c)' =
                 SettledSum(c) + (IF Concerns(event.result, c) THEN event.count ELSE 0)
<1> DEFINE D == DOMAIN metrics
           E == DOMAIN metrics'
           w == [m \in D |-> Settled(m)[c]]
           v == [m \in E |-> Settled(m)'[c]]
           gain == IF Concerns(event.result, c) THEN event.count ELSE 0
           x == event.meta
<1>1. /\ pc = "update" /\ at = 0 /\ pc' = "update" /\ at' = 1 /\ event' = event
      /\ E = D \cup {x}
      /\ \A m \in E : metrics'[m] = IF m \in D THEN metrics[m] ELSE Zero
  BY DEF NewLabels
<1>2. gain \in Nat /\ Step[c] \in 1 .. 7
  BY StepType
<1>3. ASSUME NEW m PROVE Rest(m, c) = 0 /\ Rest(m, c)' = IF m = x THEN gain ELSE 0
  <2>1. event.count # Text
    BY TextAssumption
  <2> QED
    BY <1>1, <1>2, <2>1 DEF Rest
<1>4. ASSUME NEW m \in D
      PROVE  /\ w[m] = metrics[m][c] /\ w[m] \in Nat
             /\ v[m] = IF m = x THEN w[m] + gain ELSE w[m]
  <2>1. metrics[m][c] \in Nat
    BY DEF TypeOK, IsCounterSet
  <2>2. metrics'[m] = metrics[m] /\ m \in E
    BY <1>1
  <2>3. w[m] = metrics[m][c] + Rest(m, c) /\ v[m] = metrics'[m][c] + Rest(m, c)'
    BY <2>2 DEF Settled
  <2> HIDE DEF w, v, gain, D, E
  <2> QED
    BY <1>2, <1>3, <2>1, <2>2, <2>3
<1>5. SettledSum(c) = SumFunctionOnSet(w, D) /\ SettledSum(c)' = SumFunctionOnSet(v, E)
  BY DEF SettledSum, SumFunction
<1>6. ASSUME NEW m, m = x, m \notin D
      PROVE  v[m] = gain
  <2>1. v[m] = metrics'[m][c] + Rest(m, c)' /\ metrics'[m][c] = 0
    BY <1>1, <1>6 DEF Settled, Zero
  <2> HIDE DEF v, gain, D, E
  <2> QED
    BY <1>2, <1>3, <1>6, <2>1
<1>7. IsFiniteSet(D)
  OBVIOUS
<1> HIDE DEF D, E, w, v, x, gain
<1>8. SumFunctionOnSet(w, D) \in Nat
  BY <1>4, <1>7, SumNat
<1>9. SumFunctionOnSet(v, E) = SumFunctionOnSet(w, D) + gain
  <2>1. CASE x \in D
    <3>1. E = D
      BY <1>1, <2>1
    <3> QED
      BY <1>2, <1>4, <1>7, <2>1, <3>1, SumGain
  <2>2. CASE x \notin D
    <3>1. \A m \in D : v[m] = w[m]
      BY <1>4, <2>2
    <3>2. \A m \in D \cup {x} : v[m] \in Nat
      BY <1>2, <1>4, <1>6, <2>2, <3>1
    <3>3. SumFunctionOnSet(v, E) = v[x] + SumFunctionOnSet(v, D)
      BY <1>1, <1>7, <2>2, <3>2, SumAdd
    <3>4. SumFunctionOnSet(v, D) = SumFunctionOnSet(w, D)
      BY <1>7, <3>1, SumSame
    <3> QED
      BY <1>2, <1>6, <1>8, <2>2, <3>3, <3>4
  <2> QED
    BY <2>1, <2>2
<1> QED
  BY <1>5, <1>8, <1>9 DEF gain

\* An exception that is due comes, and stays.
LEMMA DoomedNext == Countable /\ Doomed /\ [Next]_vars => Doomed'
<1> SUFFICES ASSUME Countable, Doomed, [Next]_vars PROVE Doomed'
  OBVIOUS
<1>1. CASE raised
  <2>1. raised'
    BY <1>1 DEF Next, ProcessEmail, Extract, Call, SkipPart, OpenPart, PartRaises, Return,
       NothingFound, ParsePayload, PayloadRaises, ClosePart, SkipRecord, ConvertRecord,
       ConversionRaises, EndReport, Raise, Update, LockForEvent, NewLabels, Increment,
       IncrementRaises, Release, LockForInvalid, IncInvalid, OpenServer, CloseServer,
       Unregister, Request, Collect, CollectLock, CollectLabels, CollectReturns, ServerStep,
       CollectStep, vars, loopVars
  <2> QED
    BY <2>1 DEF Doomed
<1>2. CASE pc = "update" /\ at # 0 /\ event.count = Text
  <2>1. CASE Serve \/ UNCHANGED vars
    <3>1. UNCHANGED <<pc, at, event>>
      BY <2>1 DEF Serve, OpenServer, CloseServer, Unregister, Request, Collect, CollectLock,
         CollectLabels, CollectReturns, ServerStep, CollectStep, vars, loopVars
    <3> QED
      BY <1>2, <3>1 DEF Doomed
  <2>2. CASE Update
    <3>1. IncrementRaises
      BY <1>2, <2>2 DEF Update, LockForEvent, NewLabels, Increment, Release, LockForInvalid,
         IncInvalid, Countable
    <3> QED
      BY <3>1 DEF Doomed, IncrementRaises, Raise
  <2>3. ~Extract
    BY <1>2 DEF Extract, Call, SkipPart, OpenPart, PartRaises, Return, NothingFound,
       ParsePayload, PayloadRaises, ClosePart, SkipRecord, ConvertRecord, ConversionRaises,
       EndReport
  <2> QED
    BY <2>1, <2>2, <2>3 DEF Next, ProcessEmail, Serve
<1> QED
  BY <1>1, <1>2 DEF Doomed

\* A step that passes no row, and changes nothing that is settled.
LEMMA RowsSame ==
    ASSUME RowsAddUp, ~Doomed, inbox' = inbox, Done' = Done, DOMAIN metrics' = DOMAIN metrics,
           \A m \in DOMAIN metrics : \A c \in Counter : Settled(m)'[c] = Settled(m)[c]
    PROVE  RowsAddUp'
<1>1. ASSUME NEW c \in {"total", "quarantine", "reject"}
      PROVE  SettledSum(c)' = CountOf(RowsFor(Done, c))'
  <2>1. c \in Counter
    BY DEF Counter
  <2>2. SettledSum(c)' = SettledSum(c)
    BY <2>1, SettledSumSame
  <2>3. CountOf(RowsFor(Done, c))' = CountOf(RowsFor(Done, c))
    BY CountOfSame
  <2> QED
    BY <2>2, <2>3 DEF RowsAddUp
<1> QED
  BY <1>1 DEF RowsAddUp

\* Outside of an update, and when it has nothing more to add, nothing settles.
LEMMA SettledStill ==
    ASSUME metrics' = metrics,
           \A m \in DOMAIN metrics : \A c \in Counter : Rest(m, c)' = Rest(m, c)
    PROVE  \A m \in DOMAIN metrics : \A c \in Counter : Settled(m)'[c] = Settled(m)[c]
  BY DEF Settled

\* The walk through a message.
LEMMA RowsExtract ==
    ASSUME TypeOK, Walk, RowsAddUp, ~Doomed, Extract
    PROVE  RowsAddUp'
<1>1. /\ pc # "update" /\ pc' # "update" /\ metrics' = metrics /\ inbox' = inbox
  BY DEF Extract, Call, SkipPart, OpenPart, PartRaises, Return, NothingFound,
     ParsePayload, PayloadRaises, ClosePart, SkipRecord, ConvertRecord, ConversionRaises,
     EndReport, Raise, ReadStep, countVars
<1>2. \A m \in DOMAIN metrics : \A c \in Counter : Settled(m)'[c] = Settled(m)[c]
  BY <1>1, SettledStill DEF Rest
<1>3. CASE Return
  <2>1. /\ pc # "idle" /\ pc \notin InPart /\ parts = <<>> /\ pc' = "idle"
        /\ handled' = handled + 1
    BY <1>3 DEF Return, InPart
  <2>2. Done' = Done
    BY <1>1, <2>1, WalkEnd
  <2> QED
    BY <1>1, <1>2, <2>2, RowsSame
<1>4. CASE PartRaises \/ PayloadRaises \/ ConversionRaises
  <2>1. Raise
    BY <1>4 DEF PartRaises, PayloadRaises, ConversionRaises
  <2>2. Doomed'
    BY <2>1 DEF Raise, Doomed
  <2> QED
    BY <2>2 DEF RowsAddUp
<1>5. CASE Call \/ SkipPart \/ OpenPart \/ NothingFound \/ ParsePayload \/ ClosePart
           \/ SkipRecord \/ ConvertRecord \/ EndReport
  <2>1. Done' = Done
    BY <1>5, WalkCall, WalkPart, WalkInvalid, WalkPayload, WalkClose, WalkRecord, WalkReport
  <2> QED
    BY <1>1, <1>2, <2>1, RowsSame
<1> QED
  BY <1>3, <1>4, <1>5 DEF Extract

\* The count of the event is the count of its row.
LEMMA EventCount ==
    ASSUME TypeOK, Walk, pc = "update", event.count \in Nat,
           NEW c \in {"total", "quarantine", "reject"}
    PROVE  /\ event.count = RowCount(Here)
           /\ Concerns(event.result, c) <=> c = "total" \/ RowHas(Here, c)
<1>1. RecordAt(Here) = ThisRecord /\ Converted
  BY HereIsRow DEF Walk
<1>2. event.count = CountOrOne(ThisRecord.row.count)
  BY <1>1 DEF Converted
<1>3. event.count = RowCount(Here)
  BY <1>1, <1>2, NoneAssumption DEF CountOrOne, RowCount
<1>4. CASE c = "total"
  BY <1>3, <1>4 DEF Concerns, Disposition
<1>5. CASE c # "total"
  <2>1. c \in {"quarantine", "reject"}
    BY <1>5
  <2>2. event.result.disposition = c <=> RowHas(Here, c)
    BY <1>1, <2>1 DEF Converted, RowHas
  <2>3. Concerns(event.result, c) <=> event.result.disposition = c
    BY <2>1 DEF Concerns, Disposition
  <2> QED
    BY <1>3, <1>5, <2>2, <2>3
<1> QED
  BY <1>4, <1>5

\* The update.
LEMMA RowsUpdate ==
    ASSUME TypeOK, Walk, RowsAddUp, IsFiniteSet(DOMAIN metrics), ~Doomed, ~Doomed', Update
    PROVE  RowsAddUp'
<1>1. inbox' = inbox
  BY DEF Update, LockForEvent, NewLabels, Increment, IncrementRaises, Release,
     LockForInvalid, IncInvalid
<1>2. ~IncrementRaises
  BY DEF Doomed, IncrementRaises, Raise
<1>3. CASE LockForEvent \/ Release \/ Increment
  <2>1. Done' = Done
    BY <1>3, WalkUpdate
  <2>2. DOMAIN metrics' = DOMAIN metrics
    BY <1>3 DEF LockForEvent, Release, Increment, countVars
  <2>3. \A m \in DOMAIN metrics : \A c \in Counter : Settled(m)'[c] = Settled(m)[c]
    <3>1. CASE LockForEvent \/ Release
      <4>1. metrics' = metrics
        BY <3>1 DEF LockForEvent, Release, countVars
      <4>2. \A m \in DOMAIN metrics : \A c \in Counter : Rest(m, c)' = 0 /\ Rest(m, c) = 0
        BY <3>1, StepType DEF LockForEvent, Release, Rest
      <4> QED
        BY <4>1, <4>2, SettledStill
    <3>2. CASE Increment
      BY <3>2, IncrementSettles
    <3> QED
      BY <1>3, <3>1, <3>2
  <2> QED
    BY <1>1, <2>1, <2>2, <2>3, RowsSame
<1>4. CASE LockForInvalid \/ IncInvalid
  <2>1. Done' = Done
    <3>1. CASE LockForInvalid
      BY <3>1, WalkInvalid
    <3>2. CASE IncInvalid
      <4>1. /\ pc = "invalid" /\ pc # "idle" /\ pc \notin InPart /\ pc' = "idle"
            /\ handled' = handled + 1
        BY <3>2 DEF IncInvalid, InPart
      <4>2. parts = <<>>
        BY <4>1 DEF Walk
      <4> QED
        BY <1>1, <4>1, <4>2, WalkEnd
    <3> QED
      BY <1>4, <3>1, <3>2
  <2>2. metrics' = metrics /\ pc # "update" /\ pc' # "update"
    BY <1>4 DEF LockForInvalid, IncInvalid, countVars
  <2>3. \A m \in DOMAIN metrics : \A c \in Counter : Settled(m)'[c] = Settled(m)[c]
    BY <2>2, SettledStill DEF Rest
  <2> QED
    BY <1>1, <2>1, <2>2, <2>3, RowsSame
<1>5. CASE NewLabels
  <2>1. Here \notin Done /\ Done' = Done \cup {Here}
    BY <1>5, WalkCount
  <2>2. pc = "update" /\ event.count \in Nat
    BY <1>5 DEF NewLabels, Doomed, TypeOK, DmarcEvent
  <2>3. ASSUME NEW c \in {"total", "quarantine", "reject"}
        PROVE  IsFiniteSet(Done') /\ SettledSum(c)' = CountOf(RowsFor(Done, c))'
    <3> DEFINE q == Here
    <3>1. c \in Counter
      BY DEF Counter
    <3>2. /\ SettledSum(c) \in Nat
          /\ SettledSum(c)' =
                SettledSum(c) + (IF Concerns(event.result, c) THEN event.count ELSE 0)
      BY <1>5, <2>2, <3>1, SettledSumCount
    <3>3. /\ event.count = RowCount(q)
          /\ Concerns(event.result, c) <=> c = "total" \/ RowHas(q, c)
      BY <2>2, EventCount
    <3>4. IsFiniteSet(Done) /\ SettledSum(c) = CountOf(RowsFor(Done, c))
      BY DEF RowsAddUp
    <3>5. q \notin Done /\ Done' = Done \cup {q}
      BY <2>1
    <3>6. /\ IsFiniteSet(Done')
          /\ CountOf(RowsFor(Done, c))' =
                CountOf(RowsFor(Done, c))
                + (IF c = "total" \/ RowHas(q, c) THEN RowCount(q) ELSE 0)
      <4> HIDE DEF q
      <4> QED
        BY <1>1, <3>4, <3>5, CountOfAdd
    <3> HIDE DEF q
    <3> QED
      BY <3>2, <3>3, <3>4, <3>6
  <2> QED
    BY <2>3 DEF RowsAddUp
<1> QED
  BY <1>2, <1>3, <1>4, <1>5 DEF Update

\* Requests.
LEMMA RowsServe ==
    ASSUME Walk, RowsAddUp, ~Doomed, Serve \/ UNCHANGED vars
    PROVE  RowsAddUp'
<1>1. UNCHANGED <<loopVars, metrics>>
  BY DEF Serve, OpenServer, CloseServer, Unregister, Request, Collect, CollectLock,
     CollectLabels, CollectReturns, ServerStep, CollectStep, vars, countVars
<1>2. Done' = Done
  BY <1>1, WalkServe
<1>3. UNCHANGED <<inbox, pc, at, event, metrics>>
  BY <1>1 DEF loopVars
<1>4. \A m \in DOMAIN metrics : \A c \in Counter : Settled(m)'[c] = Settled(m)[c]
  BY <1>3, SettledStill DEF Rest
<1> QED
  BY <1>2, <1>3, <1>4, RowsSame

-----------------------------------------------------------------------------
(* What the invalid messages add up to *)

\* The messages without a payload are finitely many of those handled.
LEMMA WithoutPayloadType ==
    ASSUME TypeOK
    PROVE  IsFiniteSet(WithoutPayload) /\ handled \in Nat /\ handled + 1 \notin WithoutPayload
<1>1. handled \in Nat
  BY InboxesAssumption DEF TypeOK
<1>2. WithoutPayload \in SUBSET (1 .. handled) /\ 1 \in Int /\ handled \in Int
  BY <1>1 DEF WithoutPayload
<1>3. IsFiniteSet(1 .. handled)
  BY <1>2, FS_Interval
<1>4. handled + 1 \notin WithoutPayload
  BY <1>1 DEF WithoutPayload
<1> HIDE DEF WithoutPayload
<1> QED
  BY <1>1, <1>2, <1>3, <1>4, FS_Subset

\* When a message ends, found says whether there was a payload.
LEMMA FoundPayload ==
    ASSUME TypeOK, Walk, pc # "idle", parts = <<>>, inbox' = inbox, handled' = handled + 1
    PROVE  WithoutPayload' = IF found THEN WithoutPayload ELSE WithoutPayload \cup {handled + 1}
<1>1. Called \in Message /\ handled \in Nat
  BY WalkTypes, InboxesAssumption DEF TypeOK
<1>2. Called.parts \in Seq(Part)
  BY <1>1 DEF Message
<1>3. DOMAIN Called.parts = 1 .. PartNo
  BY <1>2, RemainsNone, LenProperties DEF PartNo
<1>4. found <=> ~ \A j \in DOMAIN Called.parts : ~IsPayload(Called.parts[j])
  BY <1>3 DEF Walk
<1>5. ASSUME NEW i
      PROVE  i \in WithoutPayload' <=> i \in WithoutPayload \/ (i = handled + 1 /\ ~found)
  <2>1. i \in 1 .. (handled + 1) <=> i \in 1 .. handled \/ i = handled + 1
    BY <1>1
  <2>2. i = handled + 1 => inbox[i] = Called /\ i \notin 1 .. handled
    BY <1>1 DEF Called
  <2> QED
    BY <1>4, <2>1, <2>2 DEF WithoutPayload
<1> QED
  BY <1>5

\* A message counted as invalid adds one for its sender, known or not.
LEMMA InvalidCount ==
    ASSUME TypeOK, IsFiniteSet(DOMAIN invalid), IncInvalid
    PROVE  /\ SumFunction(invalid) \in Nat
           /\ SumFunction(invalid') = SumFunction(invalid) + 1
           /\ IsFiniteSet(DOMAIN invalid')
<1> DEFINE D == DOMAIN invalid
           E == DOMAIN invalid'
           x == inbox[handled + 1].from
<1>1. invalid' = [f \in D \cup {x} |-> (IF f \in D THEN invalid[f] ELSE 0)
                                       + (IF f = x THEN 1 ELSE 0)]
  BY DEF IncInvalid
<1>2. IsFiniteSet(D) /\ \A f \in D : invalid[f] \in Nat
  BY DEF TypeOK
<1>3. SumFunction(invalid) = SumFunctionOnSet(invalid, D)
      /\ SumFunction(invalid') = SumFunctionOnSet(invalid', E)
  BY DEF SumFunction
<1> HIDE DEF x
<1>4. E = D \cup {x}
      /\ \A f \in E : invalid'[f] = (IF f \in D THEN invalid[f] ELSE 0) + (IF f = x THEN 1 ELSE 0)
  BY <1>1
<1> HIDE DEF D, E
<1>5. IsFiniteSet(E)
  BY <1>2, <1>4, FS_AddElement
<1>6. SumFunctionOnSet(invalid, D) \in Nat
  BY <1>2, SumNat
<1>7. CASE x \in D
  <2>1. E = D
    BY <1>4, <1>7
  <2>2. \A f \in D : invalid'[f] = IF f = x THEN invalid[f] + 1 ELSE invalid[f]
    BY <1>2, <1>4, <2>1
  <2>3. SumFunctionOnSet(invalid', D) = SumFunctionOnSet(invalid, D) + 1
    BY <1>2, <1>7, <2>2, SumGain
  <2> QED
    BY <1>3, <1>5, <1>6, <2>1, <2>3 DEF E
<1>8. CASE x \notin D
  <2>1. invalid'[x] = 1 /\ \A f \in D : invalid'[f] = invalid[f]
    BY <1>2, <1>4, <1>8
  <2>2. SumFunctionOnSet(invalid', D) = SumFunctionOnSet(invalid, D)
    BY <1>2, <2>1, SumSame
  <2>3. \A f \in D \cup {x} : invalid'[f] \in Nat
    BY <1>2, <2>1
  <2>4. SumFunctionOnSet(invalid', E) = invalid'[x] + SumFunctionOnSet(invalid', D)
    BY <1>2, <1>4, <1>8, <2>3, SumAdd
  <2> QED
    BY <1>3, <1>5, <1>6, <2>1, <2>2, <2>4 DEF E
<1> QED
  BY <1>7, <1>8

\* The invalid messages keep adding up to those without a payload.
LEMMA InvalidNext ==
    ASSUME TypeOK, Walk, IsFiniteSet(DOMAIN invalid), InvalidAddUp, [Next]_vars
    PROVE  InvalidAddUp' /\ IsFiniteSet(DOMAIN invalid')
<1>1. CASE IncInvalid
  <2>1. /\ pc = "invalid" /\ pc # "idle" /\ inbox' = inbox /\ handled' = handled + 1
        /\ raised' = raised
    BY <1>1 DEF IncInvalid
  <2>2. parts = <<>> /\ ~found
    BY <2>1 DEF Walk
  <2>3. WithoutPayload' = WithoutPayload \cup {handled + 1}
    BY <2>1, <2>2, FoundPayload
  <2>4. Cardinality(WithoutPayload') = Cardinality(WithoutPayload) + 1
    BY <2>3, WithoutPayloadType, FS_AddElement
  <2> QED
    BY <1>1, <2>1, <2>4, InvalidCount DEF InvalidAddUp
<1>2. CASE Return
  <2>1. /\ pc # "idle" /\ parts = <<>> /\ found /\ inbox' = inbox /\ handled' = handled + 1
        /\ raised' = raised /\ invalid' = invalid
    BY <1>2 DEF Return, ReadStep, countVars
  <2>2. WithoutPayload' = WithoutPayload
    BY <2>1, FoundPayload
  <2> QED
    BY <2>1, <2>2 DEF InvalidAddUp
<1>3. CASE ~IncInvalid /\ ~Return
  <2>1. invalid' = invalid /\ (raised' \/ (UNCHANGED <<inbox, handled, raised>>))
    BY <1>3 DEF Next, ProcessEmail, Extract, Call, SkipPart, OpenPart, PartRaises,
       NothingFound, ParsePayload, PayloadRaises, ClosePart, SkipRecord, ConvertRecord,
       ConversionRaises, EndReport, Raise, ReadStep, Update, LockForEvent, NewLabels, Increment,
       IncrementRaises, Release, LockForInvalid, OpenServer, CloseServer,
       Unregister, Request, Collect, CollectLock, CollectLabels, CollectReturns, ServerStep,
       CollectStep, vars, loopVars, countVars
  <2>2. UNCHANGED <<inbox, handled>> => WithoutPayload' = WithoutPayload
    BY DEF WithoutPayload
  <2> QED
    BY <2>1, <2>2 DEF InvalidAddUp
<1> QED
  BY <1>1, <1>2, <1>3

-----------------------------------------------------------------------------
(* Every row counts *)

\* There are finitely many label sets.
LEMMA LabelsNext ==
    ASSUME IsFiniteSet(DOMAIN metrics), [Next]_vars
    PROVE  IsFiniteSet(DOMAIN metrics')
<1>1. DOMAIN metrics' = DOMAIN metrics \/ DOMAIN metrics' = DOMAIN metrics \cup {event.meta}
  BY DEF Next, ProcessEmail, Extract, Call, SkipPart, OpenPart, PartRaises, Return,
     NothingFound, ParsePayload, PayloadRaises, ClosePart, SkipRecord, ConvertRecord,
     ConversionRaises, EndReport, ReadStep, Update, LockForEvent, NewLabels, Increment,
     IncrementRaises, Release, LockForInvalid, IncInvalid, OpenServer, CloseServer,
     Unregister, Request, Collect, CollectLock, CollectLabels, CollectReturns, ServerStep,
     CollectStep, vars, countVars
<1> QED
  BY <1>1, FS_AddElement

\* At the start there is neither a row nor a count.
LEMMA RowInit == Init => RowInv
<1> SUFFICES ASSUME Init PROVE RowInv
  OBVIOUS
<1>1. /\ TypeOK /\ handled = 0 /\ pc = "idle" /\ metrics = <<>> /\ invalid = <<>>
  BY TypeInit DEF Init
<1>2. DOMAIN metrics = {} /\ DOMAIN invalid = {}
  BY <1>1
<1>3. HasLabels /\ Countable /\ Walk
  BY <1>1 DEF HasLabels, Countable, Walk, InPart, InReport
<1>4. Done = {}
  <2>1. ASSUME NEW p \in Place, IsRow(p) PROVE ~Passed(p)
    <3>1. p[1] >= 1 /\ p[1] \in Nat
      BY <1>1, <2>1, RowPlace DEF Place
    <3> QED
      BY <1>1, <3>1 DEF Passed
  <2> QED
    BY <2>1 DEF Done
<1>5. ASSUME NEW c PROVE SettledSum(c) = 0 /\ CountOf(RowsFor(Done, c)) = 0
  <2>1. SettledSum(c) = 0
    BY <1>2, SumEmpty DEF SettledSum, SumFunction
  <2>2. RowsFor(Done, c) = {}
    BY <1>4 DEF RowsFor
  <2> QED
    BY <2>1, <2>2, SumEmpty DEF CountOf, SumFunction
<1>6. RowsAddUp
  BY <1>4, <1>5, FS_EmptySet DEF RowsAddUp
<1>7. WithoutPayload = {}
  BY <1>1 DEF WithoutPayload
<1>8. InvalidAddUp
  BY <1>2, <1>7, SumEmpty, FS_EmptySet DEF InvalidAddUp, SumFunction
<1> QED
  BY <1>1, <1>2, <1>3, <1>6, <1>8, FS_EmptySet DEF RowInv

\* Every step keeps the balance.
LEMMA RowNext == RowInv /\ [Next]_vars => RowInv'
<1> SUFFICES ASSUME RowInv, [Next]_vars PROVE RowInv'
  OBVIOUS
<1>1. /\ TypeOK /\ HasLabels /\ Countable
      /\ IsFiniteSet(DOMAIN metrics) /\ IsFiniteSet(DOMAIN invalid)
      /\ Walk /\ RowsAddUp /\ InvalidAddUp
  BY DEF RowInv
<1>2. TypeOK' /\ HasLabels' /\ Countable' /\ Walk' /\ IsFiniteSet(DOMAIN metrics')
  BY <1>1, TypeNext, HasLabelsNext, CountableNext, WalkNext, LabelsNext
<1>3. InvalidAddUp' /\ IsFiniteSet(DOMAIN invalid')
  BY <1>1, InvalidNext
<1>4. RowsAddUp'
  <2>1. CASE Doomed'
    BY <2>1 DEF RowsAddUp
  <2>2. CASE ~Doomed'
    <3>1. ~Doomed
      BY <1>1, <2>2, DoomedNext
    <3> QED
      BY <1>1, <2>2, <3>1, RowsExtract, RowsUpdate, RowsServe DEF Next, ProcessEmail, Serve
  <2> QED
    BY <2>1, <2>2
<1> QED
  BY <1>2, <1>3, <1>4 DEF RowInv

\* Between the calls, the rows passed are those of the messages handled, but for the
\* ones that no parser reads.
LEMMA DoneIsRow ==
    ASSUME TypeOK, pc = "idle"
    PROVE  Done = Row \ Overlooked
<1>1. handled \in Nat /\ handled <= Len(inbox) /\ Len(inbox) \in Nat
  BY InboxesAssumption DEF TypeOK
<1>2. ASSUME NEW p \in Done PROVE p \in Row \ Overlooked
  <2>1. p \in Place /\ IsRow(p) /\ p[1] <= handled
    BY <1>1 DEF Done, Passed, Place
  <2>2. PICK i \in Nat, j \in Nat, k \in Nat, r \in Nat : p = <<i, j, k, r>>
    BY <2>1 DEF Place
  <2>3. p[1] = i /\ p[2] = j /\ p[3] = k /\ p[4] = r
    BY <2>2
  <2>4. /\ i \in 1 .. handled
        /\ j \in DOMAIN inbox[i].parts
        /\ k \in DOMAIN inbox[i].parts[j].docs
        /\ r \in DOMAIN Parse(inbox[i].parts[j].docs[k]).record
        /\ DocAt(p) = inbox[i].parts[j].docs[k]
        /\ IsPayload(PartAt(p)) /\ RecordAt(p).row # None
    BY <1>1, <2>1, <2>3 DEF IsRow, DocAt, PartAt
  <2>5. /\ r \in DOMAIN inbox[i].parts[j].docs[k].feedback.record
        /\ ~(DocAt(p).schema = "2.0" /\ DocAt(p).unknown)
    BY <2>4, ParsesAll
  <2>6. p \in Row
    BY <2>2, <2>4, <2>5 DEF Row
  <2> QED
    BY <2>5, <2>6 DEF Overlooked
<1>3. ASSUME NEW p \in Row \ Overlooked PROVE p \in Done
  <2>1. PICK i \in 1 .. handled : \E j \in DOMAIN inbox[i].parts :
           \E k \in DOMAIN inbox[i].parts[j].docs :
           \E r \in DOMAIN inbox[i].parts[j].docs[k].feedback.record : p = <<i, j, k, r>>
    BY DEF Row
  <2>2. PICK j \in DOMAIN inbox[i].parts :
           \E k \in DOMAIN inbox[i].parts[j].docs :
           \E r \in DOMAIN inbox[i].parts[j].docs[k].feedback.record : p = <<i, j, k, r>>
    BY <2>1
  <2>3. PICK k \in DOMAIN inbox[i].parts[j].docs :
           \E r \in DOMAIN inbox[i].parts[j].docs[k].feedback.record : p = <<i, j, k, r>>
    BY <2>2
  <2>4. PICK r \in DOMAIN inbox[i].parts[j].docs[k].feedback.record : p = <<i, j, k, r>>
    BY <2>3
  <2>5. p[1] = i /\ p[2] = j /\ p[3] = k /\ p[4] = r
    BY <2>4
  <2>6. IsPayload(PartAt(p)) /\ RecordAt(p).row # None
    BY DEF Row
  <2>7. ~(DocAt(p).schema = "2.0" /\ DocAt(p).unknown)
    BY DEF Overlooked
  <2>8. DocAt(p) = inbox[i].parts[j].docs[k] /\ Parse(DocAt(p)) = DocAt(p).feedback
    BY <2>5, <2>7 DEF DocAt, PartAt, Parse
  <2>9. IsRow(p)
    BY <1>1, <2>5, <2>6, <2>8 DEF IsRow, DocAt, PartAt
  <2>10. p \in Place
    <3>1. inbox \in Seq(Message) /\ i \in 1 .. Len(inbox)
      BY <1>1, InboxesAssumption DEF TypeOK
    <3>2. inbox[i].parts \in Seq(Part)
      <4>1. inbox[i] \in Message
        BY <3>1, ElementOfSeq
      <4> QED
        BY <4>1 DEF Message
    <3>3. j \in Nat /\ inbox[i].parts[j] \in Part
      BY <3>2, ElementOfSeq, LenProperties
    <3>4. inbox[i].parts[j].docs \in Seq(Document)
      BY <3>3 DEF Part
    <3>5. k \in Nat /\ inbox[i].parts[j].docs[k] \in Document
      BY <3>4, ElementOfSeq, LenProperties
    <3>6. PICK v \in Version : Parse(DocAt(p)) \in Feedback(v)
      BY <2>8, <3>5, ParseType
    <3>7. DocAt(p).feedback.record \in Seq(RecordType(v))
      BY <2>8, <3>6 DEF Feedback
    <3>8. r \in DOMAIN DocAt(p).feedback.record
      BY <2>8
    <3>9. r \in Nat
      BY <3>7, <3>8, LenProperties
    <3> QED
      BY <2>4, <3>3, <3>5, <3>9 DEF Place
  <2> QED
    BY <2>5, <2>9, <2>10 DEF Done, Passed
<1> QED
  BY <1>2, <1>3

(***************************************************************************)
(* No row of any message is lost or counted twice, but for those of 2.0    *)
(* documents with unknown elements, all of which are lost; and each        *)
(* message without a payload is counted once.  As long as process_email    *)
(* raises no exception: for all messages, whatever their parts, payloads   *)
(* and records, and any number of requests.                                *)
(***************************************************************************)
THEOREM EveryRowIsCounted == Spec => []EveryRowCounts
<1>1. RowInv => EveryRowCounts
  <2> SUFFICES ASSUME RowInv, pc = "idle", ~raised
               PROVE  /\ Sum("total") = CountOf(Row \ Overlooked)
                      /\ \A d \in {"quarantine", "reject"} :
                            Sum(d) = CountOf({p \in Row \ Overlooked : RowHas(p, d)})
                      /\ SumFunction(invalid) = Cardinality(WithoutPayload)
    BY DEF EveryRowCounts
  <2>1. TypeOK /\ RowsAddUp /\ InvalidAddUp /\ ~Doomed /\ Done = Row \ Overlooked
    BY DoneIsRow DEF RowInv, Doomed
  <2>2. ASSUME NEW c \in Counter PROVE SettledSum(c) = Sum(c)
    <3>1. \A m \in DOMAIN metrics : Settled(m)[c] = metrics[m][c]
      BY <2>1, SettledOutside
    <3> QED
      BY <3>1 DEF SettledSum, Sum
  <2>3. \A c \in {"total", "quarantine", "reject"} : Sum(c) = CountOf(RowsFor(Row \ Overlooked, c))
    BY <2>1, <2>2 DEF RowsAddUp, Counter
  <2>4. RowsFor(Row \ Overlooked, "total") = Row \ Overlooked
    BY DEF RowsFor
  <2>5. \A d \in {"quarantine", "reject"} :
           RowsFor(Row \ Overlooked, d) = {p \in Row \ Overlooked : RowHas(p, d)}
    BY DEF RowsFor
  <2> QED
    BY <2>1, <2>3, <2>4, <2>5 DEF InvalidAddUp
<1> QED
  BY <1>1, RowInit, RowNext, PTL DEF Spec

-----------------------------------------------------------------------------
(* What raises *)

PartsAhead == \E part \in Range(parts) : Unopenable(part)

DocsAhead == \E d \in Range(docs) : Unreadable(d)

RecordsAhead == \E r \in Range(feedback.record) : Uncountable(r)

\* What will raise is in what is left of the message.
Ahead ==
    \/ PartsAhead
    \/ pc \in InPart /\ DocsAhead
    \/ pc \in InReport /\ RecordsAhead
    \/ pc \in {"lock", "update"} /\ event.count = Text

TroubleAhead == pc # "idle" => (Troubled(Called) <=> Ahead)

RaiseInv == TypeOK /\ Countable /\ Walk /\ TroubleAhead /\ RaisesForCause

\* The elements of a sequence are its head and those of its tail.
LEMMA RangeSplit ==
    ASSUME NEW T, NEW s \in Seq(T), s # <<>>
    PROVE  Range(s) = {Head(s)} \cup Range(Tail(s))
<1>1. /\ Len(s) \in Nat \ {0} /\ DOMAIN s = 1 .. Len(s) /\ Head(s) = s[1]
      /\ Len(Tail(s)) = Len(s) - 1 /\ DOMAIN Tail(s) = 1 .. Len(s) - 1
      /\ \A i \in 1 .. Len(s) - 1 : Tail(s)[i] = s[i + 1]
  BY HeadTailProperties, LenProperties, EmptySeq
<1>2. ASSUME NEW i \in 1 .. Len(s) PROVE s[i] \in {Head(s)} \cup Range(Tail(s))
  <2>1. CASE i = 1
    BY <1>1, <2>1
  <2>2. CASE i # 1
    <3>1. i - 1 \in 1 .. Len(s) - 1 /\ (i - 1) + 1 = i
      BY <1>1, <2>2
    <3>2. Tail(s)[i - 1] = s[i]
      BY <1>1, <3>1
    <3> QED
      BY <1>1, <3>1, <3>2 DEF Range
  <2> QED
    BY <2>1, <2>2
<1>3. ASSUME NEW i \in 1 .. Len(s) - 1 PROVE Tail(s)[i] \in Range(s)
  <2>1. i + 1 \in 1 .. Len(s) /\ Tail(s)[i] = s[i + 1]
    BY <1>1
  <2> QED
    BY <1>1, <2>1 DEF Range
<1>4. Head(s) \in Range(s)
  BY <1>1 DEF Range
<1>5. Range(s) \subseteq {Head(s)} \cup Range(Tail(s))
  BY <1>1, <1>2 DEF Range
<1>6. Range(Tail(s)) \subseteq Range(s)
  BY <1>1, <1>3 DEF Range
<1> QED
  BY <1>4, <1>5, <1>6

\* A sequence without elements.
LEMMA RangeEmpty == Range(<<>>) = {}
  BY DEF Range

\* As long as process_email is in the same message, and has not raised.
LEMMA CauseSame ==
    ASSUME RaisesForCause, UNCHANGED <<inbox, handled, raised>>
    PROVE  RaisesForCause'
  BY DEF RaisesForCause

\* When it is through with a message.
LEMMA CauseAdds ==
    ASSUME TypeOK, RaisesForCause, inbox' = inbox, handled' = handled + 1,
           raised' = (raised \/ Troubled(Called))
    PROVE  RaisesForCause'
<1>1. handled \in Nat /\ 1 .. handled + 1 = 1 .. handled \cup {handled + 1}
  <2>1. handled \in Nat
    BY DEF TypeOK
  <2> QED
    BY <2>1
<1>2. (\E i \in 1 .. handled' : Troubled(inbox'[i]))
          <=> (\E i \in 1 .. handled : Troubled(inbox[i])) \/ Troubled(Called)
  BY <1>1 DEF Called
<1> QED
  BY <1>2 DEF RaisesForCause

\* An exception, for a message that has a cause.
LEMMA CauseRaise ==
    ASSUME TypeOK, RaisesForCause, TroubleAhead, pc # "idle", Ahead, Raise, inbox' = inbox
    PROVE  TroubleAhead' /\ RaisesForCause'
<1>1. Troubled(Called)
  BY DEF TroubleAhead
<1>2. raised' = (raised \/ Troubled(Called)) /\ handled' = handled + 1 /\ pc' = "idle"
  BY <1>1 DEF Raise
<1> QED
  BY <1>2, CauseAdds DEF TroubleAhead

\* The end of a message that has none.
LEMMA CauseNone ==
    ASSUME TypeOK, RaisesForCause, TroubleAhead, pc # "idle", ~Ahead,
           pc' = "idle", handled' = handled + 1, UNCHANGED <<inbox, raised>>
    PROVE  TroubleAhead' /\ RaisesForCause'
<1>1. ~Troubled(Called)
  BY DEF TroubleAhead
<1>2. raised' = (raised \/ Troubled(Called))
  BY <1>1 DEF TypeOK
<1> QED
  BY <1>2, CauseAdds DEF TroubleAhead

\* A step inside the message takes nothing away that raises.
LEMMA CauseStep ==
    ASSUME RaisesForCause, TroubleAhead, pc # "idle",
           UNCHANGED <<inbox, handled, raised>>, Ahead' <=> Ahead
    PROVE  TroubleAhead' /\ RaisesForCause'
<1>1. Called' = Called
  BY DEF Called
<1>2. Troubled(Called)' <=> Troubled(Called)
  BY <1>1
<1> QED
  BY <1>2, CauseSame DEF TroubleAhead

\* Parts are left out, opened or raise.
LEMMA CausePart ==
    ASSUME TypeOK, TroubleAhead, RaisesForCause,
           SkipPart \/ OpenPart \/ PartRaises \/ Return \/ NothingFound
    PROVE  TroubleAhead' /\ RaisesForCause'
<1>1. pc = "parts" /\ parts \in Seq(Part) /\ inbox' = inbox
  BY DEF TypeOK, SkipPart, OpenPart, PartRaises, Return, NothingFound, ReadStep
<1>2. Ahead <=> PartsAhead
  BY <1>1 DEF Ahead, InPart, InReport
<1>3. CASE parts = <<>>
  <2>1. ~PartsAhead /\ (Return \/ NothingFound)
    BY <1>3, RangeEmpty DEF PartsAhead, SkipPart, OpenPart, PartRaises
  <2>2. CASE Return
    BY <1>1, <1>2, <2>1, <2>2, CauseNone DEF Return, ReadStep
  <2>3. CASE NothingFound
    <3>1. ~Ahead'
      BY <2>1, <2>3 DEF NothingFound, Ahead, PartsAhead, InPart, InReport
    <3> QED
      BY <1>1, <1>2, <2>1, <2>3, <3>1, CauseStep DEF NothingFound, ReadStep
  <2> QED
    BY <2>1, <2>2, <2>3
<1>4. CASE parts # <<>>
  <2>1. PartsAhead <=> Unopenable(Head(parts)) \/ \E part \in Range(Tail(parts)) : Unopenable(part)
    BY <1>1, <1>4, RangeSplit DEF PartsAhead
  <2>2. CASE SkipPart
    <3>1. Ahead' <=> PartsAhead
      BY <1>1, <2>1, <2>2 DEF SkipPart, Ahead, PartsAhead, Unopenable, InPart, InReport
    <3> QED
      BY <1>1, <1>2, <2>2, <3>1, CauseStep DEF SkipPart, ReadStep
  <2>3. CASE OpenPart
    <3>1. Ahead' <=> DocsAhead' \/ PartsAhead'
      BY <2>3 DEF OpenPart, Ahead, InPart, InReport
    <3>2. Unopenable(Head(parts)) <=> DocsAhead'
      BY <2>3 DEF OpenPart, Unopenable, DocsAhead
    <3>3. Ahead' <=> Ahead
      BY <1>2, <2>1, <2>3, <3>1, <3>2 DEF OpenPart, PartsAhead
    <3> QED
      BY <1>1, <2>3, <3>3, CauseStep DEF OpenPart, ReadStep
  <2>4. CASE PartRaises
    <3>1. Ahead
      BY <1>2, <2>1, <2>4 DEF PartRaises, Unopenable
    <3> QED
      BY <1>1, <2>4, <3>1, CauseRaise DEF PartRaises
  <2> QED
    BY <1>4, <2>2, <2>3, <2>4 DEF Return, NothingFound
<1> QED
  BY <1>3, <1>4

\* Payloads are parsed or raise.
LEMMA CausePayload ==
    ASSUME TypeOK, TroubleAhead, RaisesForCause, ParsePayload \/ PayloadRaises \/ ClosePart
    PROVE  TroubleAhead' /\ RaisesForCause'
<1>1. pc = "docs" /\ docs \in Seq(Document) /\ inbox' = inbox
  BY DEF TypeOK, ParsePayload, PayloadRaises, ClosePart, ReadStep
<1>2. Ahead <=> PartsAhead \/ DocsAhead
  BY <1>1 DEF Ahead, InPart, InReport
<1>3. CASE ClosePart
  <2>1. ~DocsAhead
    BY <1>3, RangeEmpty DEF ClosePart, DocsAhead
  <2>2. Ahead' <=> PartsAhead
    BY <1>3 DEF ClosePart, Ahead, PartsAhead, InPart, InReport
  <2> QED
    BY <1>1, <1>2, <1>3, <2>1, <2>2, CauseStep DEF ClosePart, ReadStep
<1>4. CASE docs # <<>> /\ (ParsePayload \/ PayloadRaises)
  <2>1. DocsAhead <=> Unreadable(Head(docs)) \/ \E d \in Range(Tail(docs)) : Unreadable(d)
    BY <1>1, <1>4, RangeSplit DEF DocsAhead
  <2>2. CASE ParsePayload
    <3>1. Ahead' <=> PartsAhead' \/ DocsAhead' \/ RecordsAhead'
      BY <2>2 DEF ParsePayload, Ahead, InPart, InReport
    <3>2. Unreadable(Head(docs)) <=> RecordsAhead'
      BY <2>2 DEF ParsePayload, Unreadable, RecordsAhead
    <3>3. DocsAhead' <=> \E d \in Range(Tail(docs)) : Unreadable(d)
      BY <2>2 DEF ParsePayload, DocsAhead
    <3>4. PartsAhead' <=> PartsAhead
      BY <2>2 DEF ParsePayload, PartsAhead
    <3> QED
      BY <1>1, <1>2, <2>1, <2>2, <3>1, <3>2, <3>3, <3>4, CauseStep DEF ParsePayload, ReadStep
  <2>3. CASE PayloadRaises
    <3>1. Ahead
      BY <1>2, <2>1, <2>3 DEF PayloadRaises, Unreadable
    <3> QED
      BY <1>1, <2>3, <3>1, CauseRaise DEF PayloadRaises
  <2> QED
    BY <1>4, <2>2, <2>3
<1> QED
  BY <1>3, <1>4 DEF ParsePayload, PayloadRaises

\* A record whose disposition maps can be counted, unless its count is text.
LEMMA CauseConvert ==
    ASSUME NEW v \in Version, NEW f \in Feedback(v), NEW r \in RecordType(v), r.row # None
    PROVE  /\ MapsDisposition(r) => (Uncountable(r) <=> EventOf(f, r).count = Text)
           /\ ~MapsDisposition(r) => Uncountable(r)
<1>1. r.row.count \in Nat \cup {None, Text}
  BY DEF RecordType, Optional, RowType, Field
<1>2. CountOrOne(r.row.count) = Text <=> r.row.count = Text
  BY <1>1, TextAssumption DEF CountOrOne
<1>3. EventOf(f, r).count = CountOrOne(r.row.count)
  BY DEF EventOf
<1>4. Uncountable(r) <=> r.row.count = Text \/ ~MapsDisposition(r)
  BY DEF Uncountable, MapsDisposition, Disposition
<1> QED
  BY <1>2, <1>3, <1>4

\* Records are left out, converted or raise.
LEMMA CauseRecord ==
    ASSUME TypeOK, TroubleAhead, RaisesForCause,
           SkipRecord \/ ConvertRecord \/ ConversionRaises \/ EndReport
    PROVE  TroubleAhead' /\ RaisesForCause'
<1>1. pc = "records" /\ inbox' = inbox
  BY DEF SkipRecord, ConvertRecord, ConversionRaises, EndReport, ReadStep
<1>2. Ahead <=> PartsAhead \/ DocsAhead \/ RecordsAhead
  BY <1>1 DEF Ahead, InPart, InReport
<1>3. CASE EndReport
  <2>1. ~RecordsAhead
    BY <1>3, RangeEmpty DEF EndReport, RecordsAhead
  <2>2. Ahead' <=> PartsAhead \/ DocsAhead
    BY <1>3 DEF EndReport, Ahead, PartsAhead, DocsAhead, InPart, InReport
  <2> QED
    BY <1>1, <1>2, <1>3, <2>1, <2>2, CauseStep DEF EndReport, ReadStep
<1>4. CASE feedback.record # <<>> /\ (SkipRecord \/ ConvertRecord \/ ConversionRaises)
  <2>1. PICK v \in Version : feedback \in Feedback(v)
    BY DEF TypeOK
  <2>2. feedback.record \in Seq(RecordType(v))
    BY <2>1 DEF Feedback
  <2>3. Head(feedback.record) \in RecordType(v)
    BY <1>4, <2>2, HeadTailProperties
  <2>4. RecordsAhead <=> \/ Uncountable(Head(feedback.record))
                         \/ \E r \in Range(Tail(feedback.record)) : Uncountable(r)
    BY <1>4, <2>2, RangeSplit DEF RecordsAhead
  <2>5. CASE SkipRecord \/ ConvertRecord
    <3>1. feedback'.record = Tail(feedback.record)
      BY <2>1, <2>5 DEF SkipRecord, ConvertRecord, Feedback
    <3>2. RecordsAhead' <=> \E r \in Range(Tail(feedback.record)) : Uncountable(r)
      BY <3>1 DEF RecordsAhead
    <3>3. (PartsAhead' <=> PartsAhead) /\ (DocsAhead' <=> DocsAhead)
      BY <2>5 DEF SkipRecord, ConvertRecord, PartsAhead, DocsAhead
    <3>4. CASE SkipRecord
      <4>1. ~Uncountable(Head(feedback.record))
        BY <3>4 DEF SkipRecord, Uncountable
      <4>2. Ahead' <=> PartsAhead' \/ DocsAhead' \/ RecordsAhead'
        BY <1>1, <3>4 DEF SkipRecord, Ahead, InPart, InReport
      <4> QED
        BY <1>1, <1>2, <2>4, <3>2, <3>3, <3>4, <4>1, <4>2, CauseStep DEF SkipRecord, ReadStep
    <3>5. CASE ConvertRecord
      <4>1. Uncountable(Head(feedback.record)) <=> event'.count = Text
        BY <2>1, <2>3, <3>5, CauseConvert DEF ConvertRecord
      <4>2. Ahead' <=> PartsAhead' \/ DocsAhead' \/ RecordsAhead' \/ event'.count = Text
        BY <3>5 DEF ConvertRecord, Ahead, InPart, InReport
      <4> QED
        BY <1>1, <1>2, <2>4, <3>2, <3>3, <3>5, <4>1, <4>2, CauseStep DEF ConvertRecord
    <3> QED
      BY <2>5, <3>4, <3>5
  <2>6. CASE ConversionRaises
    <3>1. Uncountable(Head(feedback.record))
      BY <2>1, <2>3, <2>6, CauseConvert DEF ConversionRaises
    <3>2. Ahead
      BY <1>2, <2>4, <3>1
    <3> QED
      BY <1>1, <2>6, <3>2, CauseRaise DEF ConversionRaises
  <2> QED
    BY <1>4, <2>5, <2>6
<1> QED
  BY <1>3, <1>4 DEF SkipRecord, ConvertRecord, ConversionRaises

\* An event is counted, or raises; a message without a payload is counted.
LEMMA CauseUpdate ==
    ASSUME TypeOK, Countable, Walk, TroubleAhead, RaisesForCause, Update
    PROVE  TroubleAhead' /\ RaisesForCause'
<1>1. CASE LockForEvent \/ NewLabels \/ Increment \/ LockForInvalid
  <2>1. /\ UNCHANGED <<inbox, handled, raised, parts, docs, feedback, event>>
        /\ pc # "idle"
        /\ pc' = pc \/ (pc = "lock" /\ pc' = "update") \/ (pc = "lock_invalid" /\ pc' = "invalid")
    BY <1>1 DEF LockForEvent, NewLabels, Increment, LockForInvalid
  <2>2. Ahead' <=> Ahead
    BY <2>1 DEF Ahead, PartsAhead, DocsAhead, RecordsAhead, InPart, InReport
  <2> QED
    BY <2>1, <2>2, CauseStep
<1>2. CASE IncrementRaises
  <2>1. pc = "update" /\ Ahead /\ Raise /\ inbox' = inbox
    BY <1>2 DEF IncrementRaises, Ahead
  <2> QED
    BY <2>1, CauseRaise
<1>3. CASE Release
  <2>1. /\ UNCHANGED <<inbox, handled, raised, parts, docs, feedback, event>>
        /\ pc = "update" /\ pc' = "records"
    BY <1>3 DEF Release
  <2>2. event.count # Text
    BY <1>3 DEF Release, Countable
  <2>3. Ahead' <=> Ahead
    BY <2>1, <2>2 DEF Ahead, PartsAhead, DocsAhead, RecordsAhead, InPart, InReport
  <2> QED
    BY <2>1, <2>3, CauseStep
<1>4. CASE IncInvalid
  <2>1. /\ pc = "invalid" /\ pc' = "idle" /\ handled' = handled + 1
        /\ UNCHANGED <<inbox, raised>>
    BY <1>4 DEF IncInvalid
  <2>2. ~Ahead
    BY <2>1, RangeEmpty DEF Walk, Ahead, PartsAhead, InPart, InReport
  <2> QED
    BY <2>1, <2>2, CauseNone
<1> QED
  BY <1>1, <1>2, <1>3, <1>4 DEF Update

\* Every step keeps the invariant.
LEMMA RaiseNext == RaiseInv /\ [Next]_vars => RaiseInv'
<1> SUFFICES ASSUME RaiseInv, [Next]_vars PROVE RaiseInv'
  OBVIOUS
<1>1. TypeOK /\ Countable /\ Walk /\ TroubleAhead /\ RaisesForCause
  BY DEF RaiseInv
<1>2. TypeOK' /\ Countable' /\ Walk'
  BY <1>1, TypeNext, CountableNext, WalkNext
<1>3. CASE Call
  <2>1. /\ pc' = "parts" /\ parts' = Called.parts /\ Called' = Called
        /\ UNCHANGED <<inbox, handled, raised>>
    BY <1>3 DEF Call, ReadStep, Called
  <2>2. (Troubled(Called) <=> Ahead)'
    BY <2>1 DEF Troubled, Ahead, PartsAhead, InPart, InReport
  <2> QED
    BY <1>1, <1>2, <2>1, <2>2, CauseSame DEF RaiseInv, TroubleAhead
<1>4. CASE Extract /\ ~Call
  BY <1>1, <1>2, <1>4, CausePart, CausePayload, CauseRecord DEF Extract, RaiseInv
<1>5. CASE Update
  BY <1>1, <1>2, <1>5, CauseUpdate DEF RaiseInv
<1>6. CASE Serve \/ UNCHANGED vars
  <2>1. UNCHANGED <<inbox, handled, pc, parts, docs, feedback, event, raised>>
    BY <1>6 DEF Serve, OpenServer, CloseServer, Unregister, Request, Collect, CollectLock,
       CollectLabels, CollectReturns, ServerStep, CollectStep, vars, loopVars
  <2>2. TroubleAhead' /\ RaisesForCause'
    BY <1>1, <2>1 DEF TroubleAhead, RaisesForCause, Called, Ahead, PartsAhead, DocsAhead,
       RecordsAhead
  <2> QED
    BY <1>2, <2>2 DEF RaiseInv
<1> QED
  BY <1>3, <1>4, <1>5, <1>6 DEF Next, ProcessEmail, Serve

(***************************************************************************)
(* process_email raises for the messages that hold something it cannot     *)
(* count, and for no other: for messages with any parts, payloads and      *)
(* records.                                                                *)
(***************************************************************************)
THEOREM OnlyTroubleRaises == Spec => []RaisesForCause
<1>1. Init => RaiseInv
  <2> SUFFICES ASSUME Init PROVE RaiseInv
    OBVIOUS
  <2>1. Countable /\ Walk /\ TroubleAhead /\ RaisesForCause
    BY DEF Init, Countable, Walk, TroubleAhead, RaisesForCause, InPart, InReport
  <2> QED
    BY <2>1, TypeInit DEF RaiseInv
<1>2. RaiseInv => RaisesForCause
  BY DEF RaiseInv
<1> QED
  BY <1>1, <1>2, RaiseNext, PTL DEF Spec
=============================================================================
