--------------------------- MODULE ExporterProofs ---------------------------
(***************************************************************************)
(* What every scrape shows, for all messages and any number of requests.   *)
(*                                                                         *)
(* The argument: look at the metrics as they will be when the update under *)
(* way is through (Settled).  Only a new event changes them, by all of its *)
(* counters at once, and that keeps their relations; the steps of update   *)
(* do not change them.  A scrape that has the lock reads metrics that are  *)
(* settled.  They are also the sums of the events counted so far, which    *)
(* makes what it reads the metrics of one moment.                          *)
(***************************************************************************)
EXTENDS Exporter, SumProofs, SequenceTheorems, TLAPS

-----------------------------------------------------------------------------
(* Conversion *)

\* The first and the rest of a sequence that is not empty.
LEMMA FirstOfSequence ==
    ASSUME NEW S, NEW q \in Seq(S), q # <<>>
    PROVE  q[1] \in S /\ Head(q) \in S /\ Tail(q) \in Seq(S)
  BY HeadTailProperties, ElementOfSeq, EmptySeq, LenProperties

\* convert_to_events makes a well-formed event of each record it does not raise
\* for (deserialization.py:165-180).
LEMMA EventType ==
    ASSUME NEW v \in Version, NEW f \in Feedback(v), NEW r \in RecordType(v),
           r.row # None, MapsDisposition(r)
    PROVE  EventOf(f, r) \in DmarcEvent
<1>1. r.row \in RowType(v)
  BY DEF RecordType, Optional
<1>2. CountOrOne(r.row.count) \in Nat \cup {Text}
  BY <1>1 DEF RowType, Field, CountOrOne
<1>3. ASSUME NEW n \in Optional(Name) PROVE OrEmpty(n) \in Name \cup {""}
  BY DEF OrEmpty, Optional
<1>4. Dkim(r) \in Seq(DkimauthResultType) /\ Spf(r) \in Seq(SpfauthResultType(v))
  BY DEF Dkim, Spf, RecordType, Optional, AuthResultType
<1>5. ASSUME NEW T, \A x \in T : x.domain \in Optional(Name), NEW q \in Seq(T)
      PROVE  FirstDomain(q) \in Name \cup {""}
  <2>1. CASE q = <<>>
    BY <2>1 DEF FirstDomain
  <2>2. CASE q # <<>>
    <3>1. q[1] \in T
      BY <2>2, FirstOfSequence
    <3> QED
      BY <1>3, <1>5, <2>2, <3>1 DEF FirstDomain
  <2> QED
    BY <2>1, <2>2
<1>6. FirstDomain(Dkim(r)) \in Name \cup {""} /\ FirstDomain(Spf(r)) \in Name \cup {""}
  <2>1. \A x \in DkimauthResultType : x.domain \in Optional(Name)
    BY DEF DkimauthResultType
  <2>2. \A x \in SpfauthResultType(v) : x.domain \in Optional(Name)
    BY DEF SpfauthResultType
  <2> QED
    BY <1>4, <1>5, <2>1, <2>2
<1>7. FirstPasses(Dkim(r)) \in BOOLEAN /\ FirstPasses(Spf(r)) \in BOOLEAN
  BY DEF FirstPasses
<1>8. (IF f.report_metadata = None THEN "" ELSE OrEmpty(f.report_metadata.org_name))
          \in Name \cup {""}
  BY <1>3 DEF Feedback, Optional, ReportMetadataType
<1>9. (IF r.identifiers = None THEN "" ELSE OrEmpty(r.identifiers.header_from))
          \in Name \cup {""}
  BY <1>3 DEF RecordType, Optional, IdentifierType
<1>10. (IF Evaluated(r) = None THEN "none" ELSE _map_disposition(Evaluated(r).disposition))
          \in Disposition
  BY DEF MapsDisposition, _map_disposition, Disposition
<1> QED
  BY <1>2, <1>6, <1>7, <1>8, <1>9, <1>10 DEF EventOf, DmarcEvent, Meta, DmarcResult

\* Either parser returns a report of its version (deserialization.py:86-89).
LEMMA ParseType ==
    ASSUME NEW d \in Document
    PROVE  \E v \in Version : Parse(d) \in Feedback(v)
<1>1. EmptyFeedback \in Feedback("0.1")
  BY DEF EmptyFeedback, Feedback, Optional
<1>2. CASE d \in Written("0.1") \/ d \in Written("2.0")
  BY <1>1, <1>2 DEF Written, Parse, Version
<1>3. CASE d \notin Written("0.1") /\ d \notin Written("2.0")
  BY <1>1, <1>3 DEF Document, Parse, Version
<1> QED
  BY <1>2, <1>3

-----------------------------------------------------------------------------
(* Types *)

LoopType ==
    /\ inbox \in Inboxes
    /\ handled \in 0 .. Len(inbox)
    /\ pc \in {"idle", "parts", "docs", "records", "lock", "update", "lock_invalid", "invalid"}
    /\ pc # "idle" => handled < Len(inbox)
    /\ parts \in Seq(Part)
    /\ docs \in Seq(Document)
    /\ \E v \in Version : feedback \in Feedback(v)
    /\ event \in DmarcEvent
    /\ at \in 0 .. 8

FlagType == found \in BOOLEAN /\ raised \in BOOLEAN

MetricsType ==
    /\ DOMAIN metrics \subseteq Meta
    /\ \A m \in DOMAIN metrics : IsCounterSet(metrics[m], Counter)
    /\ DOMAIN invalid \subseteq Optional(Name)
    /\ \A f \in DOMAIN invalid : invalid[f] \in Nat

ServerType ==
    /\ lock \in {"free", "loop"} \cup Scraper
    /\ server \in {"down", "up", "closing", "closed"}
    /\ scrape \in [Scraper -> {"idle", "lock", "read"}]
    /\ DOMAIN seen = Scraper /\ DOMAIN last = Scraper
    /\ \A s \in Scraper :
          /\ DOMAIN seen[s] \subseteq Meta
          /\ \A m \in DOMAIN seen[s] : IsCounterSet(seen[s][m], Exposed)

\* The type invariant has one part for process_email, one for the metrics, and
\* one for the server.
LEMMA TypeParts == TypeOK <=> LoopType /\ FlagType /\ MetricsType /\ ServerType
  BY DEF TypeOK, LoopType, FlagType, MetricsType, ServerType

\* The messages are sequences of parts, and have a sender or None.
LEMMA MessageType ==
    ASSUME NEW box \in Inboxes, NEW i \in 0 .. Len(box), i < Len(box)
    PROVE  /\ i + 1 \in 0 .. Len(box)
           /\ box[i + 1].parts \in Seq(Part)
           /\ box[i + 1].from \in Optional(Name)
<1>1. box \in Seq(Message) /\ Len(box) \in Nat
  BY InboxesAssumption
<1>2. i + 1 \in 1 .. Len(box)
  BY <1>1
<1>3. box[i + 1] \in Message
  BY <1>1, <1>2, ElementOfSeq
<1> QED
  BY <1>1, <1>2, <1>3 DEF Message

\* The types hold at the start ...
LEMMA TypeInit == Init => TypeOK
<1> SUFFICES ASSUME Init PROVE TypeOK
  OBVIOUS
<1>1. EmptyFeedback \in Feedback("0.1")
  BY DEF EmptyFeedback, Feedback, Optional
<1>2. NoEvent \in DmarcEvent
  BY DEF NoEvent, DmarcEvent, Meta, DmarcResult, Disposition
<1>3. inbox \in Seq(Message) /\ Len(inbox) \in Nat
  BY InboxesAssumption DEF Init
<1>4. <<>> \in Seq(Part) /\ <<>> \in Seq(Document)
  OBVIOUS
<1>5. LoopType
  BY <1>1, <1>2, <1>3, <1>4 DEF Init, LoopType, Version
<1>6. MetricsType
  BY DEF Init, MetricsType
<1>7. ServerType
  BY DEF Init, ServerType
<1>8. FlagType
  BY DEF Init, FlagType
<1> QED
  BY <1>5, <1>6, <1>7, <1>8, TypeParts

\* ... after each step of reading a message (deserialization.py:79-91, 114-163) ...
LEMMA ExtractType == TypeOK /\ Extract => TypeOK'
<1> SUFFICES ASSUME LoopType, FlagType, MetricsType, ServerType, Extract
             PROVE  LoopType' /\ FlagType' /\ MetricsType' /\ ServerType'
  BY DEF TypeOK, LoopType, FlagType, MetricsType, ServerType
<1>1. UNCHANGED <<inbox, at, lock, metrics, invalid, counted, server, scrape, seen, since, last>>
  BY DEF Extract, Call, SkipPart, OpenPart, PartRaises, Return, NothingFound, ParsePayload,
         PayloadRaises, ClosePart, SkipRecord, ConvertRecord, ConversionRaises, EndReport,
         ReadStep, countVars, scrapeVars
<1>2. MetricsType' /\ ServerType'
  BY <1>1 DEF MetricsType, ServerType
<1>3. handled \in Nat /\ Len(inbox) \in Nat
  BY InboxesAssumption DEF LoopType
<1>4. ASSUME Raise, event' = event, pc # "idle" PROVE LoopType'
  <2>1. EmptyFeedback \in Feedback("0.1")
    BY DEF EmptyFeedback, Feedback, Optional
  <2>2. handled + 1 \in 0 .. Len(inbox)
    BY <1>3, <1>4 DEF LoopType
  <2> QED
    BY <1>1, <1>4, <2>1, <2>2 DEF LoopType, Raise, Version
<1>5. ASSUME Call PROVE LoopType'
  <2>1. inbox[handled + 1].parts \in Seq(Part)
    BY <1>5, MessageType DEF LoopType, Call
  <2> QED
    BY <1>1, <1>5, <2>1 DEF LoopType, Call, ReadStep, countVars, scrapeVars
<1>6. ASSUME SkipPart PROVE LoopType'
  <2>1. Tail(parts) \in Seq(Part)
    BY <1>6, FirstOfSequence DEF LoopType, SkipPart
  <2> QED
    BY <1>1, <1>6, <2>1 DEF LoopType, SkipPart, ReadStep, countVars, scrapeVars
<1>7. ASSUME OpenPart PROVE LoopType'
  <2>1. Head(parts) \in Part /\ Tail(parts) \in Seq(Part)
    BY <1>7, FirstOfSequence DEF LoopType, OpenPart
  <2> QED
    BY <1>1, <1>7, <2>1 DEF LoopType, OpenPart, ReadStep, countVars, scrapeVars, Part
<1>8. ASSUME PartRaises PROVE LoopType'
  BY <1>4, <1>8 DEF PartRaises, ReadStep, countVars, scrapeVars
<1>9. ASSUME Return PROVE LoopType'
  BY <1>1, <1>3, <1>9 DEF LoopType, Return, ReadStep, countVars, scrapeVars
<1>10. ASSUME NothingFound PROVE LoopType'
  BY <1>1, <1>10 DEF LoopType, NothingFound, ReadStep, countVars, scrapeVars
<1>11. ASSUME ParsePayload PROVE LoopType'
  <2>1. Head(docs) \in Document /\ Tail(docs) \in Seq(Document)
    BY <1>11, FirstOfSequence DEF LoopType, ParsePayload
  <2>2. \E v \in Version : Parse(Head(docs)) \in Feedback(v)
    BY <2>1, ParseType
  <2> QED
    BY <1>1, <1>11, <2>1, <2>2 DEF LoopType, ParsePayload, ReadStep, countVars, scrapeVars
<1>12. ASSUME PayloadRaises PROVE LoopType'
  BY <1>4, <1>12 DEF PayloadRaises, ReadStep, countVars, scrapeVars
<1>13. ASSUME ClosePart PROVE LoopType'
  BY <1>1, <1>13 DEF LoopType, ClosePart, ReadStep, countVars, scrapeVars
<1>14. PICK v \in Version : feedback \in Feedback(v)
  BY DEF LoopType
<1>15. ASSUME feedback.record # <<>>
       PROVE  /\ Head(feedback.record) \in RecordType(v)
              /\ [feedback EXCEPT !.record = Tail(@)] \in Feedback(v)
  <2>1. feedback.record \in Seq(RecordType(v))
    BY <1>14 DEF Feedback
  <2>2. Head(feedback.record) \in RecordType(v) /\ Tail(feedback.record) \in Seq(RecordType(v))
    BY <1>15, <2>1, FirstOfSequence
  <2> QED
    BY <1>14, <2>2 DEF Feedback
<1>16. ASSUME SkipRecord PROVE LoopType'
  BY <1>1, <1>15, <1>16 DEF LoopType, SkipRecord, ReadStep, countVars, scrapeVars
<1>17. ASSUME ConvertRecord PROVE LoopType'
  <2>1. EventOf(feedback, Head(feedback.record)) \in DmarcEvent
    BY <1>14, <1>15, <1>17, EventType DEF ConvertRecord
  <2> QED
    BY <1>1, <1>15, <1>17, <2>1 DEF LoopType, ConvertRecord, countVars, scrapeVars
<1>18. ASSUME ConversionRaises PROVE LoopType'
  BY <1>4, <1>18 DEF ConversionRaises, ReadStep, countVars, scrapeVars
<1>19. ASSUME EndReport PROVE LoopType'
  BY <1>1, <1>19 DEF LoopType, EndReport, ReadStep, countVars, scrapeVars
<1>20. LoopType'
  BY <1>5, <1>6, <1>7, <1>8, <1>9, <1>10, <1>11, <1>12, <1>13, <1>16, <1>17, <1>18, <1>19
     DEF Extract
<1>21. FlagType'
  BY DEF FlagType, Extract, Call, SkipPart, OpenPart, PartRaises, Return, NothingFound,
         ParsePayload, PayloadRaises, ClosePart, SkipRecord, ConvertRecord,
         ConversionRaises, EndReport, Raise
<1> QED
  BY <1>2, <1>20, <1>21

\* ... after each step of an update (dmarc_metrics.py:23-37, 59-67) ...
LEMMA UpdateType == TypeOK /\ Update => TypeOK'
<1> SUFFICES ASSUME LoopType, FlagType, MetricsType, ServerType, Update
             PROVE  LoopType' /\ FlagType' /\ MetricsType' /\ ServerType'
  BY DEF TypeOK, LoopType, FlagType, MetricsType, ServerType
<1> USE DEF countVars, scrapeVars
<1>1. UNCHANGED <<inbox, found, server, scrape, seen, since, last>>
  BY DEF Update, LockForEvent, NewLabels, Increment, IncrementRaises, Release,
         LockForInvalid, IncInvalid, Raise
<1>2. ServerType'
  BY <1>1 DEF ServerType, Update, LockForEvent, NewLabels, Increment, IncrementRaises,
         Release, LockForInvalid, IncInvalid
<1>3. FlagType'
  BY DEF FlagType, Update, LockForEvent, NewLabels, Increment, IncrementRaises,
         Release, LockForInvalid, IncInvalid, Raise
<1>4. handled \in Nat /\ Len(inbox) \in Nat
  BY InboxesAssumption DEF LoopType
<1>5. ASSUME LockForEvent PROVE LoopType' /\ MetricsType'
  BY <1>1, <1>5 DEF LoopType, MetricsType, LockForEvent
<1>6. ASSUME NewLabels PROVE LoopType' /\ MetricsType'
  <2>1. event.meta \in Meta
    BY DEF LoopType, DmarcEvent
  <2>2. IsCounterSet(Zero, Counter)
    BY DEF IsCounterSet, Zero
  <2>3. DOMAIN metrics' \subseteq Meta
    BY <1>6, <2>1 DEF MetricsType, NewLabels
  <2>4. ASSUME NEW m \in DOMAIN metrics' PROVE IsCounterSet(metrics'[m], Counter)
    BY <1>6, <2>2, <2>4 DEF MetricsType, NewLabels
  <2>5. MetricsType'
    BY <1>6, <2>3, <2>4 DEF MetricsType, NewLabels
  <2> QED
    BY <1>1, <1>6, <2>5 DEF LoopType, NewLabels
<1>7. ASSUME Increment PROVE LoopType' /\ MetricsType'
  <2>1. event.count \in Nat
    BY <1>7 DEF LoopType, DmarcEvent, Increment
  <2>2. ASSUME NEW m \in DOMAIN metrics PROVE IsCounterSet(metrics'[m], Counter)
    <3>1. IsCounterSet(metrics[m], Counter)
      BY DEF MetricsType
    <3>2. CASE m # event.meta
      BY <1>7, <3>1, <3>2 DEF Increment
    <3>3. CASE m = event.meta
      <4>1. metrics'[m] = [c \in Counter |-> IF Due(c) THEN metrics[m][c] + event.count
                                                      ELSE metrics[m][c]]
        BY <1>7, <3>3 DEF Increment
      <4>2. ASSUME NEW c \in Counter
            PROVE  (IF Due(c) THEN metrics[m][c] + event.count ELSE metrics[m][c]) \in Nat
        BY <2>1, <3>1 DEF IsCounterSet
      <4> QED
        BY <4>1, <4>2 DEF IsCounterSet
    <3> QED
      BY <3>2, <3>3
  <2>3. DOMAIN metrics' = DOMAIN metrics
    BY <1>7 DEF Increment
  <2>4. MetricsType'
    BY <1>7, <2>2, <2>3 DEF MetricsType, Increment
  <2>5. at + 1 \in 0 .. 8
    BY <1>7 DEF LoopType, Increment
  <2> QED
    BY <1>1, <1>7, <2>4, <2>5 DEF LoopType, Increment
<1>8. ASSUME IncrementRaises PROVE LoopType' /\ MetricsType'
  <2>1. EmptyFeedback \in Feedback("0.1")
    BY DEF EmptyFeedback, Feedback, Optional
  <2>2. handled + 1 \in 0 .. Len(inbox)
    BY <1>4, <1>8 DEF LoopType, IncrementRaises
  <2> QED
    BY <1>1, <1>8, <2>1, <2>2 DEF LoopType, MetricsType, IncrementRaises, Raise, Version
<1>9. ASSUME Release PROVE LoopType' /\ MetricsType'
  BY <1>1, <1>9 DEF LoopType, MetricsType, Release
<1>10. ASSUME LockForInvalid PROVE LoopType' /\ MetricsType'
  BY <1>1, <1>10 DEF LoopType, MetricsType, LockForInvalid
<1>11. ASSUME IncInvalid PROVE LoopType' /\ MetricsType'
  <2> DEFINE sender == inbox[handled + 1].from
  <2>1. sender \in Optional(Name)
    BY <1>4, <1>11, MessageType DEF LoopType, IncInvalid
  <2>2. handled + 1 \in 0 .. Len(inbox)
    BY <1>4, <1>11 DEF LoopType, IncInvalid
  <2>3. invalid' = [f \in DOMAIN invalid \cup {sender} |->
                       (IF f \in DOMAIN invalid THEN invalid[f] ELSE 0)
                       + (IF f = sender THEN 1 ELSE 0)]
    BY <1>11 DEF IncInvalid
  <2> HIDE DEF sender
  <2>4. /\ DOMAIN invalid' \subseteq Optional(Name)
        /\ \A f \in DOMAIN invalid' : invalid'[f] \in Nat
    BY <2>1, <2>3 DEF MetricsType
  <2> QED
    BY <1>1, <1>11, <2>2, <2>4 DEF LoopType, MetricsType, IncInvalid
<1> QED
  BY <1>2, <1>3, <1>5, <1>6, <1>7, <1>8, <1>9, <1>10, <1>11 DEF Update

\* The steps of the HTTP server and of its requests.
Serve == OpenServer \/ CloseServer \/ Unregister \/ \E s \in Scraper : Request(s) \/ Collect(s)

\* ... and after each step of a request (prometheus_exporter.py:111-128).
LEMMA ServeType == TypeOK /\ Serve => TypeOK'
<1> SUFFICES ASSUME LoopType, FlagType, MetricsType, ServerType, Serve
             PROVE  LoopType' /\ FlagType' /\ MetricsType' /\ ServerType'
  BY DEF TypeOK, LoopType, FlagType, MetricsType, ServerType
<1> USE DEF loopVars, countVars
<1>1. UNCHANGED <<inbox, handled, pc, parts, found, docs, feedback, event, at, raised,
                  metrics, invalid>>
  BY DEF Serve, OpenServer, CloseServer, Unregister, Request, Collect, CollectLock,
         CollectLabels, CollectReturns, ServerStep, CollectStep
<1>2. LoopType' /\ FlagType' /\ MetricsType'
  BY <1>1 DEF LoopType, FlagType, MetricsType
<1>3. ASSUME OpenServer \/ CloseServer \/ Unregister PROVE ServerType'
  BY <1>3 DEF ServerType, OpenServer, CloseServer, Unregister, ServerStep
<1>4. ASSUME NEW s \in Scraper, Request(s) PROVE ServerType'
  BY <1>4 DEF ServerType, Request, ServerStep
<1>5. ASSUME NEW s \in Scraper, CollectLock(s) PROVE ServerType'
  BY <1>5 DEF ServerType, CollectLock, CollectStep
<1>6. ASSUME NEW s \in Scraper, NEW m \in DOMAIN metrics, CollectLabels(s, m)
      PROVE  ServerType'
  <2>1. DOMAIN seen' = Scraper /\ \A t \in Scraper \ {s} : seen'[t] = seen[t]
    BY <1>6 DEF ServerType, CollectLabels
  <2>2. seen'[s] = [n \in DOMAIN seen[s] \cup {m} |->
                      IF n = m THEN [c \in Exposed |-> metrics[m][c]] ELSE seen[s][n]]
    BY <1>6 DEF ServerType, CollectLabels
  <2>3. IsCounterSet([c \in Exposed |-> metrics[m][c]], Exposed)
    BY DEF MetricsType, IsCounterSet, Exposed
  <2>4. DOMAIN seen'[s] \subseteq Meta
    BY <2>2 DEF ServerType, MetricsType
  <2>5. ASSUME NEW n \in DOMAIN seen'[s] PROVE IsCounterSet(seen'[s][n], Exposed)
    BY <2>2, <2>3, <2>5 DEF ServerType
  <2> QED
    BY <1>6, <2>1, <2>4, <2>5 DEF ServerType, CollectLabels, CollectStep
<1>7. ASSUME NEW s \in Scraper, CollectReturns(s) PROVE ServerType'
  <2>1. DOMAIN seen' = Scraper /\ DOMAIN last' = Scraper
    BY <1>7 DEF ServerType, CollectReturns
  <2>2. ASSUME NEW t \in Scraper PROVE seen'[t] = IF t = s THEN <<>> ELSE seen[t]
    BY <1>7 DEF ServerType, CollectReturns
  <2> QED
    BY <1>7, <2>1, <2>2 DEF ServerType, CollectReturns, CollectStep
<1> QED
  BY <1>2, <1>3, <1>4, <1>5, <1>6, <1>7 DEF Serve, Collect

\* Every step keeps the types.
LEMMA TypeNext == TypeOK /\ [Next]_vars => TypeOK'
<1>1. TypeOK /\ UNCHANGED vars => TypeOK'
  BY DEF TypeOK, vars, loopVars, countVars, scrapeVars
<1> QED
  BY <1>1, ExtractType, UpdateType, ServeType DEF Next, ProcessEmail, Serve

(***************************************************************************)
(* The types hold always, for all messages; in particular, every event is  *)
(* well-formed, and no counter is anything but a natural number.           *)
(***************************************************************************)
THEOREM TypeCorrect == Spec => []TypeOK
  BY TypeInit, TypeNext, PTL DEF Spec

-----------------------------------------------------------------------------
(* Relations between the counters *)

\* The lock is held by process_email while it updates, or by one request.
Exclusive ==
    /\ lock = "loop" <=> pc \in {"update", "invalid"}
    /\ \A s \in Scraper : scrape[s] = "read" <=> lock = s

\* The labels of the event are there when its first counter is incremented.
HasLabels == pc = "update" /\ at # 0 => event.meta \in DOMAIN metrics

\* What the update under way will still add to counter c of labels m.
Rest(m, c) ==
    IF /\ pc = "update" /\ at # 0 /\ event.count # Text
       /\ m = event.meta /\ Step[c] >= at /\ Concerns(event.result, c)
    THEN event.count ELSE 0

\* The counters of labels m when the update under way is through.
Settled(m) == [c \in Counter |-> metrics[m][c] + Rest(m, c)]

\* Every message has one of the three dispositions.
FitsAll(f) ==
    /\ f["none"] + f["quarantine"] + f["reject"] = f["total"]
    /\ Fits(f)

SettledFit == \A m \in DOMAIN metrics : FitsAll(Settled(m))

SeenFit == \A s \in Scraper : \A m \in DOMAIN seen[s] : Fits(seen[s][m])

IInv == TypeOK /\ Exclusive /\ HasLabels /\ SettledFit /\ SeenFit /\ AnswersFit

\* Counters that are all zero fit together.
LEMMA ZeroFits == FitsAll(Zero)
  BY DEF Zero, FitsAll, Fits, Exposed, Counter

\* An event adds its count to the total, to one disposition, and to the other
\* counters in a way that keeps their relations.
LEMMA EventFits ==
    ASSUME NEW f, IsCounterSet(f, Counter), FitsAll(f),
           NEW n \in Nat, NEW r \in DmarcResult,
           NEW g, \A c \in Counter : g[c] = f[c] + (IF Concerns(r, c) THEN n ELSE 0)
    PROVE  FitsAll(g)
<1> DEFINE gain(c) == IF Concerns(r, c) THEN n ELSE 0
<1>1. \A c \in Counter : gain(c) \in 0 .. n /\ f[c] \in Nat /\ g[c] = f[c] + gain(c)
  BY DEF IsCounterSet
<1>2. gain("total") = n
  BY DEF Concerns, Disposition
<1>3. gain("none") + gain("quarantine") + gain("reject") = n
  <2>1. r.disposition \in Disposition
    BY DEF DmarcResult
  <2>2. \A d \in Disposition : gain(d) = IF r.disposition = d THEN n ELSE 0
    BY DEF Concerns, Disposition
  <2> HIDE DEF gain
  <2> QED
    BY <2>1, <2>2 DEF Disposition
<1>4. /\ gain("compliant") = IF dmarc_compliant(r) THEN n ELSE 0
      /\ gain("dkim_pass") = IF r.dkim_pass THEN n ELSE 0
      /\ gain("spf_pass") = IF r.spf_pass THEN n ELSE 0
      /\ gain("dkim_aligned") = IF r.dkim_aligned THEN n ELSE 0
      /\ gain("spf_aligned") = IF r.spf_aligned THEN n ELSE 0
  BY DEF Concerns, Disposition
<1> HIDE DEF gain
<1>5. /\ gain("compliant") <= gain("dkim_pass") + gain("spf_pass")
      /\ gain("compliant") <= gain("dkim_aligned") + gain("spf_aligned")
  BY <1>4 DEF dmarc_compliant
<1>6. /\ g["none"] + g["quarantine"] + g["reject"] = g["total"]
      /\ g["quarantine"] + g["reject"] <= g["total"]
  BY <1>1, <1>2, <1>3 DEF FitsAll, Fits, Counter
<1>7. \A c \in Exposed : g[c] <= g["total"]
  BY <1>1, <1>2 DEF FitsAll, Fits, Counter, Exposed
<1>8. /\ g["compliant"] <= g["dkim_pass"] + g["spf_pass"]
      /\ g["compliant"] <= g["dkim_aligned"] + g["spf_aligned"]
  BY <1>1, <1>5 DEF FitsAll, Fits, Counter
<1> QED
  BY <1>6, <1>7, <1>8 DEF FitsAll, Fits

\* The steps in which an event is counted.
LEMMA StepType == \A c \in Counter : Step[c] \in 1 .. 7
  BY DEF Step, Counter

\* FitsAll looks at the nine counters only.
LEMMA FitsSame ==
    ASSUME NEW f, NEW g, \A c \in Counter : g[c] = f[c], FitsAll(f)
    PROVE  FitsAll(g)
  BY DEF FitsAll, Fits, Counter, Exposed

\* Nothing is pending outside of an update: the metrics are as they are settled.
LEMMA SettledOutside ==
    ASSUME TypeOK, pc # "update" \/ at = 0, NEW m \in DOMAIN metrics
    PROVE  \A c \in Counter : Settled(m)[c] = metrics[m][c]
  BY DEF TypeOK, Settled, Rest, IsCounterSet

\* The lock excludes what it must exclude.
LEMMA ExclusiveInit == Init => Exclusive
  BY ScraperAssumption DEF Init, Exclusive

\* The lock keeps its one holder.
LEMMA ExclusiveNext == TypeOK /\ Exclusive /\ [Next]_vars => Exclusive'
<1> SUFFICES ASSUME TypeOK, Exclusive, [Next]_vars PROVE Exclusive'
  OBVIOUS
<1>1. scrape \in [Scraper -> {"idle", "lock", "read"}]
  BY DEF TypeOK
<1>2. ASSUME Extract PROVE Exclusive'
  BY <1>2 DEF Exclusive, Extract, Call, SkipPart, OpenPart, PartRaises, Return, NothingFound,
       ParsePayload, PayloadRaises, ClosePart, SkipRecord, ConvertRecord, ConversionRaises,
       EndReport, Raise, ReadStep, countVars, scrapeVars
<1>3. ASSUME Update PROVE Exclusive'
  BY <1>3, ScraperAssumption DEF Exclusive, Update, LockForEvent, NewLabels, Increment,
       IncrementRaises, Release, LockForInvalid, IncInvalid, Raise, scrapeVars
<1>4. ASSUME OpenServer \/ CloseServer \/ Unregister PROVE Exclusive'
  BY <1>4 DEF Exclusive, OpenServer, CloseServer, Unregister, ServerStep, loopVars
<1>5. ASSUME NEW s \in Scraper, Request(s) PROVE Exclusive'
  BY <1>1, <1>5 DEF Exclusive, Request, ServerStep, loopVars
<1>6. ASSUME NEW s \in Scraper, Collect(s) PROVE Exclusive'
  BY <1>1, <1>6, ScraperAssumption DEF Exclusive, Collect, CollectLock, CollectLabels,
       CollectReturns, CollectStep, loopVars
<1>7. ASSUME UNCHANGED vars PROVE Exclusive'
  BY <1>7 DEF Exclusive, vars, loopVars, scrapeVars
<1> QED
  BY <1>2, <1>3, <1>4, <1>5, <1>6, <1>7 DEF Next, ProcessEmail

\* Every step keeps what is known of the labels under way.
LEMMA HasLabelsNext == HasLabels /\ [Next]_vars => HasLabels'
<1> SUFFICES ASSUME HasLabels, [Next]_vars PROVE HasLabels'
  OBVIOUS
<1>1. ASSUME Extract PROVE HasLabels'
  BY <1>1 DEF HasLabels, Extract, Call, SkipPart, OpenPart, PartRaises, Return, NothingFound,
       ParsePayload, PayloadRaises, ClosePart, SkipRecord, ConvertRecord, ConversionRaises,
       EndReport, Raise
<1>2. ASSUME Update PROVE HasLabels'
  BY <1>2 DEF HasLabels, Update, LockForEvent, NewLabels, Increment,
       IncrementRaises, Release, LockForInvalid, IncInvalid, Raise
<1>3. ASSUME Serve PROVE HasLabels'
  BY <1>3 DEF HasLabels, Serve, OpenServer, CloseServer, Unregister, Request, Collect,
       CollectLock, CollectLabels, CollectReturns, ServerStep, CollectStep, loopVars, countVars
<1>4. ASSUME UNCHANGED vars PROVE HasLabels'
  BY <1>4 DEF HasLabels, vars, loopVars, countVars
<1> QED
  BY <1>1, <1>2, <1>3, <1>4 DEF Next, ProcessEmail, Serve

\* A step that leaves the metrics and what is pending for them alone.
LEMMA SettledSame ==
    ASSUME SettledFit, metrics' = metrics, \A m \in DOMAIN metrics : \A c \in Counter :
               Rest(m, c)' = Rest(m, c)
    PROVE  SettledFit'
<1> SUFFICES ASSUME NEW m \in DOMAIN metrics PROVE FitsAll(Settled(m))'
  BY DEF SettledFit
<1>1. FitsAll(Settled(m))
  BY DEF SettledFit
<1>2. \A c \in Counter : Settled(m)'[c] = Settled(m)[c]
  BY DEF Settled
<1> QED
  BY <1>1, <1>2, FitsSame

\* A step of update moves what is pending into the counters.
LEMMA IncrementSettles ==
    ASSUME TypeOK, Increment, NEW m \in DOMAIN metrics, NEW c \in Counter
    PROVE  Settled(m)'[c] = Settled(m)[c]
<1>1. /\ event.count \in Nat /\ event' = event
      /\ at \in 1 .. 7 /\ at' = at + 1
      /\ pc = "update" /\ pc' = "update"
  BY DEF TypeOK, DmarcEvent, Increment
<1>2. metrics[m][c] \in Nat /\ Step[c] \in 1 .. 7
  BY StepType DEF TypeOK, IsCounterSet
<1>3. CASE m # event.meta
  <2>1. metrics'[m] = metrics[m]
    BY <1>3 DEF Increment
  <2> QED
    BY <1>1, <1>3, <2>1 DEF Settled, Rest
<1>4. CASE m = event.meta
  <2>1. metrics'[m][c] = IF Due(c) THEN metrics[m][c] + event.count ELSE metrics[m][c]
    BY <1>4 DEF Increment
  <2>2. Rest(m, c) = IF Step[c] >= at /\ Concerns(event.result, c) THEN event.count ELSE 0
    BY <1>1, <1>4 DEF Rest, Increment
  <2>3. Rest(m, c)' = IF Step[c] >= at + 1 /\ Concerns(event.result, c)
                      THEN event.count ELSE 0
    BY <1>1, <1>4 DEF Rest, Increment
  <2> QED
    BY <1>1, <1>2, <2>1, <2>2, <2>3 DEF Settled, Due
<1> QED
  BY <1>3, <1>4

\* Counting an event keeps what has settled.
LEMMA SettledUpdate ==
    TypeOK /\ HasLabels /\ SettledFit /\ Update => SettledFit'
<1> SUFFICES ASSUME TypeOK, HasLabels, SettledFit, Update PROVE SettledFit'
  OBVIOUS
<1>1. /\ at \in 0 .. 8
      /\ event.count \in Nat \cup {Text}
      /\ event.result \in DmarcResult
  BY DEF TypeOK, DmarcEvent
<1>2. ASSUME NEW m \in DOMAIN metrics PROVE IsCounterSet(metrics[m], Counter)
  BY DEF TypeOK
<1>3. ASSUME LockForEvent PROVE SettledFit'
  BY <1>3, SettledSame DEF LockForEvent, countVars, Rest
<1>4. ASSUME NewLabels PROVE SettledFit'
  <2> SUFFICES ASSUME NEW m \in DOMAIN metrics' PROVE FitsAll(Settled(m))'
    BY DEF SettledFit
  <2> DEFINE old == IF m \in DOMAIN metrics THEN metrics[m] ELSE Zero
  <2>1. IsCounterSet(old, Counter)
    BY <1>2 DEF IsCounterSet, Zero
  <2>2. FitsAll(old)
    <3>1. ASSUME m \in DOMAIN metrics PROVE FitsAll(metrics[m])
      <4>1. FitsAll(Settled(m))
        BY <3>1 DEF SettledFit
      <4>2. \A c \in Counter : metrics[m][c] = Settled(m)[c]
        BY <1>4, <3>1, SettledOutside DEF NewLabels
      <4> QED
        BY <4>1, <4>2, FitsSame
    <3> QED
      BY <3>1, ZeroFits
  <2>3. metrics'[m] = old
    BY <1>4 DEF NewLabels
  <2>4. /\ pc' = "update" /\ at' = 1 /\ event' = event
    BY <1>4 DEF NewLabels
  <2> HIDE DEF old
  <2>5. ASSUME NEW c \in Counter
        PROVE  Settled(m)'[c] = old[c] + Rest(m, c)'
    BY <2>3 DEF Settled
  <2>6. CASE m = event.meta /\ event.count # Text
    <3>1. ASSUME NEW c \in Counter
          PROVE  Rest(m, c)' = IF Concerns(event.result, c) THEN event.count ELSE 0
      BY <2>4, <2>6, StepType DEF Rest
    <3>2. event.count \in Nat
      BY <1>1, <2>6
    <3>3. \A c \in Counter :
             Settled(m)'[c] = old[c] + (IF Concerns(event.result, c) THEN event.count ELSE 0)
      BY <2>5, <3>1
    <3> QED
      BY <1>1, <2>1, <2>2, <3>2, <3>3, EventFits
  <2>7. CASE ~(m = event.meta /\ event.count # Text)
    <3>1. \A c \in Counter : Rest(m, c)' = 0
      BY <2>4, <2>7 DEF Rest
    <3>2. \A c \in Counter : Settled(m)'[c] = old[c]
      BY <2>1, <2>5, <3>1 DEF IsCounterSet
    <3> QED
      BY <2>2, <3>2, FitsSame
  <2> QED
    BY <2>6, <2>7
<1>5. ASSUME Increment PROVE SettledFit'
  <2> SUFFICES ASSUME NEW m \in DOMAIN metrics PROVE FitsAll(Settled(m))'
    BY <1>5 DEF SettledFit, Increment
  <2>1. FitsAll(Settled(m))
    BY DEF SettledFit
  <2>2. \A c \in Counter : Settled(m)'[c] = Settled(m)[c]
    BY <1>5, IncrementSettles
  <2> QED
    BY <2>1, <2>2, FitsSame
<1>6. ASSUME IncrementRaises PROVE SettledFit'
  BY <1>6, SettledSame DEF IncrementRaises, Raise, countVars, Rest
<1>7. ASSUME Release PROVE SettledFit'
  <2>1. \A m \in DOMAIN metrics : \A c \in Counter : Rest(m, c) = 0 /\ Rest(m, c)' = 0
    BY <1>7, StepType DEF Release, Rest
  <2> QED
    BY <1>7, <2>1, SettledSame DEF Release
<1>8. ASSUME LockForInvalid \/ IncInvalid PROVE SettledFit'
  BY <1>8, SettledSame DEF LockForInvalid, IncInvalid, countVars, Rest
<1> QED
  BY <1>3, <1>4, <1>5, <1>6, <1>7, <1>8 DEF Update

\* So does every other step.
LEMMA SettledNext ==
    TypeOK /\ HasLabels /\ SettledFit /\ [Next]_vars => SettledFit'
<1> SUFFICES ASSUME TypeOK, HasLabels, SettledFit, [Next]_vars PROVE SettledFit'
  OBVIOUS
<1>1. ASSUME Extract PROVE SettledFit'
  <2>1. pc # "update" /\ pc' # "update" /\ metrics' = metrics
    BY <1>1 DEF Extract, Call, SkipPart, OpenPart, PartRaises, Return, NothingFound,
       ParsePayload, PayloadRaises, ClosePart, SkipRecord, ConvertRecord, ConversionRaises,
       EndReport, Raise, ReadStep, countVars
  <2> QED
    BY <2>1, SettledSame DEF Rest
<1>2. ASSUME Serve \/ UNCHANGED vars PROVE SettledFit'
  <2>1. UNCHANGED <<pc, at, event, metrics>>
    BY <1>2 DEF Serve, OpenServer, CloseServer, Unregister, Request, Collect, CollectLock,
       CollectLabels, CollectReturns, ServerStep, CollectStep, vars, loopVars, countVars
  <2> QED
    BY <2>1, SettledSame DEF Rest
<1> QED
  BY <1>1, <1>2, SettledUpdate DEF Next, ProcessEmail, Serve

\* A request that has the lock reads settled metrics.
LEMMA SeenNext ==
    IInv /\ [Next]_vars => SeenFit' /\ AnswersFit'
<1> SUFFICES ASSUME IInv, [Next]_vars PROVE SeenFit' /\ AnswersFit'
  OBVIOUS
<1>1. ASSUME UNCHANGED <<seen, last>> PROVE SeenFit' /\ AnswersFit'
  BY <1>1 DEF IInv, SeenFit, AnswersFit
<1>2. ASSUME NEW s \in Scraper, NEW m \in DOMAIN metrics, CollectLabels(s, m)
      PROVE  SeenFit' /\ AnswersFit'
  <2>1. pc # "update"
    BY <1>2, ScraperAssumption DEF IInv, Exclusive, CollectLabels
  <2>2. \A c \in Counter : metrics[m][c] = Settled(m)[c]
    BY <2>1, SettledOutside DEF IInv
  <2>3. Fits(metrics[m])
    BY <2>2, FitsSame DEF IInv, SettledFit, FitsAll
  <2>4. Fits([c \in Exposed |-> metrics[m][c]])
    BY <2>3 DEF Fits, Exposed, Counter
  <2>5. seen'[s] = [n \in DOMAIN seen[s] \cup {m} |->
                      IF n = m THEN [c \in Exposed |-> metrics[m][c]] ELSE seen[s][n]]
    BY <1>2 DEF CollectLabels, IInv, TypeOK
  <2>6. \A t \in Scraper \ {s} : seen'[t] = seen[t]
    BY <1>2 DEF CollectLabels, IInv, TypeOK
  <2>7. ASSUME NEW n \in DOMAIN seen'[s] PROVE Fits(seen'[s][n])
    BY <2>4, <2>5, <2>7 DEF IInv, SeenFit
  <2>8. SeenFit'
    BY <2>6, <2>7 DEF IInv, SeenFit
  <2> QED
    BY <1>2, <2>8 DEF IInv, AnswersFit, CollectLabels
<1>3. ASSUME NEW s \in Scraper, CollectReturns(s) PROVE SeenFit' /\ AnswersFit'
  <2>1. \A t \in Scraper : seen'[t] = IF t = s THEN <<>> ELSE seen[t]
    BY <1>3 DEF CollectReturns, IInv, TypeOK
  <2>2. \A t \in Scraper : last'[t].metrics = IF t = s THEN seen[s] ELSE last[t].metrics
    BY <1>3 DEF CollectReturns, IInv, TypeOK
  <2> QED
    BY <2>1, <2>2 DEF IInv, SeenFit, AnswersFit
<1>4. ASSUME ~ UNCHANGED <<seen, last>>
      PROVE  \E s \in Scraper : (\E m \in DOMAIN metrics : CollectLabels(s, m)) \/ CollectReturns(s)
  BY <1>4 DEF Next, vars, scrapeVars, ProcessEmail, Extract, Call, SkipPart, OpenPart,
     PartRaises, Return, NothingFound, ParsePayload, PayloadRaises, ClosePart, SkipRecord,
     ConvertRecord, ConversionRaises, EndReport, ReadStep, Update, LockForEvent, NewLabels,
     Increment, IncrementRaises, Release, LockForInvalid, IncInvalid, OpenServer, CloseServer,
     Unregister, Request, ServerStep, Collect, CollectLock
<1> QED
  BY <1>1, <1>2, <1>3, <1>4

\* The invariant holds initially.
LEMMA IInvInit == Init => IInv
<1> SUFFICES ASSUME Init PROVE IInv
  OBVIOUS
<1>1. HasLabels /\ SettledFit
  BY DEF Init, HasLabels, SettledFit
<1>2. SeenFit /\ AnswersFit
  BY DEF Init, SeenFit, AnswersFit, NoAnswer
<1> QED
  BY <1>1, <1>2, TypeInit, ExclusiveInit DEF IInv

\* Every step keeps the invariant.
LEMMA IInvNext == IInv /\ [Next]_vars => IInv'
  BY TypeNext, ExclusiveNext, HasLabelsNext, SettledNext, SeenNext DEF IInv

(***************************************************************************)
(* Every answer to a scrape fits together, for all messages and however    *)
(* many requests are under way.                                            *)
(***************************************************************************)
THEOREM WholeEvents == Spec => []AnswersFit
<1>1. IInv => AnswersFit
  BY DEF IInv
<1> QED
  BY <1>1, IInvInit, IInvNext, PTL DEF Spec

-----------------------------------------------------------------------------
(* The metrics, and the events counted so far *)

Entry ==
    {e \in [invalid : {FALSE}, event : DmarcEvent] : e.event.count \in Nat}
        \cup [invalid : {TRUE}, from : Optional(Name)]

\* What the update under way will have counted when it is through.
Pending(m, c) ==
    IF /\ pc = "update" /\ at # 0 /\ event.count # Text
       /\ m = event.meta /\ Concerns(event.result, c)
    THEN event.count ELSE 0

\* Each counter is the tally of the events counted so far.
Tallied ==
    \A m \in DOMAIN metrics : \A c \in Counter :
        metrics[m][c] + Rest(m, c) = Tally(m, c, Len(counted)) + Pending(m, c)

InvalidTallied ==
    \A f \in DOMAIN invalid : invalid[f] = Cardinality(InvalidFrom(f, Len(counted)))

\* Whatever was counted has its labels, and its sender.
Known ==
    \A i \in 1 .. Len(counted) :
        IF counted[i].invalid THEN counted[i].from \in DOMAIN invalid
                              ELSE counted[i].event.meta \in DOMAIN metrics

\* A request that has the lock has read what the metrics are.
SeenIsNow ==
    \A s \in Scraper :
        /\ scrape[s] # "read" => DOMAIN seen[s] = {}
        /\ \A m \in DOMAIN seen[s] :
              /\ m \in DOMAIN metrics
              /\ \A c \in Exposed : seen[s][m][c] = metrics[m][c]

\* A request was made after no more events than there are.
Earlier ==
    /\ DOMAIN since = Scraper
    /\ \A s \in Scraper : since[s] \in 0 .. Len(counted)

\* A count that is a text does not survive the first counter.
Countable == pc = "update" /\ at \notin {0, 1} => event.count # Text

MomentInv ==
    /\ IInv /\ Countable
    /\ counted \in Seq(Entry)
    /\ Tallied /\ InvalidTallied /\ Known /\ SeenIsNow /\ Earlier

\* The events that a tally adds up are finitely many, with numbers.
LEMMA CountForType ==
    ASSUME counted \in Seq(Entry), NEW m, NEW c \in Counter, NEW n \in 0 .. Len(counted)
    PROVE  /\ IsFiniteSet(CountFor(m, c, n))
           /\ \A i \in CountFor(m, c, n) : i \in 1 .. n /\ counted[i].event.count \in Nat
<1>1. CountFor(m, c, n) \in SUBSET (1 .. n) /\ n \in Int /\ 1 \in Int
  BY DEF CountFor
<1>2. IsFiniteSet(CountFor(m, c, n))
  <2>1. IsFiniteSet(1 .. n)
    BY <1>1, FS_Interval
  <2> QED
    BY <1>1, <2>1, FS_Subset
<1>3. ASSUME NEW i \in CountFor(m, c, n) PROVE counted[i].event.count \in Nat
  <2>1. i \in 1 .. Len(counted) /\ ~counted[i].invalid
    BY <1>1 DEF CountFor
  <2>2. counted[i] \in Entry
    BY <2>1, ElementOfSeq
  <2> QED
    BY <2>1, <2>2 DEF Entry
<1> QED
  BY <1>1, <1>2, <1>3

\* A tally is a number ...
LEMMA TallyType ==
    ASSUME counted \in Seq(Entry), NEW m, NEW c \in Counter
    PROVE  Tally(m, c, Len(counted)) \in Nat
<1> DEFINE I == CountFor(m, c, Len(counted))
           w == [i \in I |-> counted[i].event.count]
<1>1. IsFiniteSet(I) /\ \A i \in I : w[i] \in Nat
  <2>1. Len(counted) \in 0 .. Len(counted)
    OBVIOUS
  <2> QED
    BY <2>1, CountForType
<1>2. Tally(m, c, Len(counted)) = SumFunctionOnSet(w, I)
  BY DEF Tally, SumFunction
<1> HIDE DEF I, w
<1> QED
  BY <1>1, <1>2, SumNat

\* ... that grows when an event is counted ...
LEMMA TallyAppend ==
    ASSUME counted \in Seq(Entry), NEW e \in Entry, counted' = Append(counted, e),
           NEW m, NEW c \in Counter
    PROVE  Tally(m, c, Len(counted))' =
              Tally(m, c, Len(counted))
              + (IF ~e.invalid /\ e.event.meta = m /\ Concerns(e.event.result, c)
                 THEN e.event.count ELSE 0)
<1> DEFINE n == Len(counted)
           I == CountFor(m, c, n)
           J == CountFor(m, c, Len(counted))'
           w == [i \in I |-> counted[i].event.count]
           v == [i \in J |-> counted'[i].event.count]
           gains == ~e.invalid /\ e.event.meta = m /\ Concerns(e.event.result, c)
<1>1. n \in Nat /\ Len(counted') = n + 1 /\ counted'[n + 1] = e
      /\ \A i \in 1 .. n : counted'[i] = counted[i]
  BY AppendProperties
<1>2. counted' \in Seq(Entry)
  BY AppendProperties
<1>3. IsFiniteSet(I) /\ \A i \in I : i \in 1 .. n /\ counted[i].event.count \in Nat
  <2>1. n \in 0 .. Len(counted)
    BY <1>1
  <2> HIDE DEF n
  <2> QED
    BY <2>1, CountForType
<1>4. \A i : i \in J <=> i \in I \/ (i = n + 1 /\ gains)
  <2>1. ASSUME NEW i PROVE i \in J <=> i \in I \/ (i = n + 1 /\ gains)
    <3>1. i \in J <=> /\ i \in 1 .. (n + 1)
                      /\ ~counted'[i].invalid
                      /\ counted'[i].event.meta = m
                      /\ Concerns(counted'[i].event.result, c)
      BY <1>1 DEF CountFor
    <3>2. i \in I <=> /\ i \in 1 .. n
                      /\ ~counted[i].invalid
                      /\ counted[i].event.meta = m
                      /\ Concerns(counted[i].event.result, c)
      BY DEF CountFor
    <3>3. i \in 1 .. (n + 1) <=> i \in 1 .. n \/ i = n + 1
      BY <1>1
    <3> HIDE DEF I, J, n, gains
    <3>4. CASE i \in 1 .. n
      <4>1. counted'[i] = counted[i] /\ i # n + 1
        BY <1>1, <3>4
      <4> QED
        BY <3>1, <3>2, <3>3, <3>4, <4>1
    <3>5. CASE i \notin 1 .. n
      BY <1>1, <3>1, <3>2, <3>3, <3>5 DEF gains
    <3> QED
      BY <3>4, <3>5
  <2> QED
    BY <2>1
<1>5. n + 1 \notin I
  BY <1>1, <1>3
<1>6. /\ Tally(m, c, Len(counted)) = SumFunctionOnSet(w, I)
      /\ Tally(m, c, Len(counted))' = SumFunctionOnSet(v, J)
  BY <1>1 DEF Tally, SumFunction
<1>7. \A i \in I : w[i] = counted[i].event.count
  OBVIOUS
<1>8. \A i \in J : v[i] = counted'[i].event.count
  OBVIOUS
<1> HIDE DEF I, J, w, v, n, gains
<1>9. \A i \in I : i \in J /\ v[i] = w[i] /\ v[i] \in Nat
  BY <1>1, <1>3, <1>4, <1>7, <1>8
<1>10. SumFunctionOnSet(v, I) = SumFunctionOnSet(w, I) /\ SumFunctionOnSet(w, I) \in Nat
  BY <1>3, <1>7, <1>9, SumSame, SumNat
<1>11. CASE gains
  <2>1. J = I \cup {n + 1}
    BY <1>4, <1>11
  <2>2. e.event.count \in Nat
    BY <1>11 DEF Entry, gains
  <2>3. v[n + 1] = e.event.count
    BY <1>1, <1>8, <2>1
  <2>4. \A i \in I \cup {n + 1} : v[i] \in Nat
    BY <1>9, <2>2, <2>3
  <2>5. SumFunctionOnSet(v, J) = v[n + 1] + SumFunctionOnSet(v, I)
    BY <1>3, <1>5, <2>1, <2>4, SumAdd
  <2> QED
    BY <1>6, <1>10, <1>11, <2>2, <2>3, <2>5 DEF gains
<1>12. CASE ~gains
  <2>1. J = I
    BY <1>4, <1>12
  <2> QED
    BY <1>6, <1>10, <1>12, <2>1 DEF gains
<1> QED
  BY <1>11, <1>12

\* ... and that is zero for labels that no event has had.
LEMMA TallyZero ==
    ASSUME NEW m, NEW c, NEW n, CountFor(m, c, n) = {}
    PROVE  Tally(m, c, n) = 0
  BY SumEmpty DEF Tally, SumFunction

\* The messages without a payload, counted per sender.
LEMMA InvalidAppend ==
    ASSUME counted \in Seq(Entry), NEW e \in Entry, counted' = Append(counted, e), NEW f
    PROVE  /\ Cardinality(InvalidFrom(f, Len(counted))) \in Nat
           /\ Cardinality(InvalidFrom(f, Len(counted)))' =
                 Cardinality(InvalidFrom(f, Len(counted)))
                 + (IF e.invalid /\ e.from = f THEN 1 ELSE 0)
<1> DEFINE n == Len(counted)
           I == InvalidFrom(f, Len(counted))
           J == InvalidFrom(f, Len(counted))'
           gains == e.invalid /\ e.from = f
<1>1. n \in Nat /\ Len(counted') = n + 1 /\ counted'[n + 1] = e
      /\ \A i \in 1 .. n : counted'[i] = counted[i]
  BY AppendProperties
<1>2. IsFiniteSet(I) /\ I \subseteq 1 .. n
  <2>1. I \in SUBSET (1 .. n) /\ n \in Int /\ 1 \in Int
    BY <1>1 DEF InvalidFrom
  <2>2. IsFiniteSet(1 .. n)
    BY <2>1, FS_Interval
  <2> HIDE DEF I
  <2> QED
    BY <2>1, <2>2, FS_Subset
<1>3. ASSUME NEW i PROVE i \in J <=> i \in I \/ (i = n + 1 /\ gains)
  <2>1. i \in J <=> i \in 1 .. (n + 1) /\ counted'[i].invalid /\ counted'[i].from = f
    BY <1>1 DEF InvalidFrom
  <2>2. i \in I <=> i \in 1 .. n /\ counted[i].invalid /\ counted[i].from = f
    BY DEF InvalidFrom
  <2>3. i \in 1 .. (n + 1) <=> i \in 1 .. n \/ i = n + 1
    BY <1>1
  <2> HIDE DEF I, J, n, gains
  <2>4. CASE i \in 1 .. n
    <3>1. counted'[i] = counted[i] /\ i # n + 1
      BY <1>1, <2>4
    <3> QED
      BY <2>1, <2>2, <2>3, <2>4, <3>1
  <2>5. CASE i \notin 1 .. n
    BY <1>1, <2>1, <2>2, <2>3, <2>5 DEF gains
  <2> QED
    BY <2>4, <2>5
<1>4. n + 1 \notin I
  BY <1>1, <1>2
<1> HIDE DEF I, J, n, gains
<1>5. Cardinality(I) \in Nat
  BY <1>2, FS_CardinalityType
<1>6. CASE gains
  <2>1. J = I \cup {n + 1}
    BY <1>3, <1>6
  <2>2. Cardinality(J) = Cardinality(I) + 1
    BY <1>2, <1>4, <2>1, FS_AddElement
  <2> QED
    BY <1>5, <1>6, <2>2 DEF I, J, gains
<1>7. CASE ~gains
  <2>1. J = I
    BY <1>3, <1>7
  <2> QED
    BY <1>5, <1>7, <2>1 DEF I, J, gains
<1> QED
  BY <1>6, <1>7

-----------------------------------------------------------------------------
(* Steps that count nothing *)

\* What is known of the counters depends on the metrics, the events, and the
\* update under way.
LEMMA TalliedSame ==
    ASSUME Tallied, InvalidTallied, Known, UNCHANGED <<metrics, invalid, counted>>,
           \A m \in DOMAIN metrics : \A c \in Counter :
              Rest(m, c)' = Rest(m, c) /\ Pending(m, c)' = Pending(m, c)
    PROVE  Tallied' /\ InvalidTallied' /\ Known'
<1>1. ASSUME NEW m \in DOMAIN metrics, NEW c \in Counter
      PROVE  Tally(m, c, Len(counted))' = Tally(m, c, Len(counted))
  BY DEF Tally, CountFor
<1>2. Tallied'
  BY <1>1 DEF Tallied
<1>3. InvalidTallied'
  BY DEF InvalidTallied, InvalidFrom
<1>4. Known'
  BY DEF Known
<1> QED
  BY <1>2, <1>3, <1>4

\* Reading a message counts nothing.
LEMMA TalliedExtract ==
    ASSUME Tallied, InvalidTallied, Known, Extract
    PROVE  Tallied' /\ InvalidTallied' /\ Known'
<1>1. pc # "update" /\ pc' # "update" /\ UNCHANGED <<metrics, invalid, counted>>
  BY DEF Extract, Call, SkipPart, OpenPart, PartRaises, Return, NothingFound,
     ParsePayload, PayloadRaises, ClosePart, SkipRecord, ConvertRecord, ConversionRaises,
     EndReport, Raise, ReadStep, countVars
<1> QED
  BY <1>1, TalliedSame DEF Rest, Pending

\* Nor does a request.
LEMMA TalliedServe ==
    ASSUME Tallied, InvalidTallied, Known, Serve \/ UNCHANGED vars
    PROVE  Tallied' /\ InvalidTallied' /\ Known'
<1>1. UNCHANGED <<pc, at, event, metrics, invalid, counted>>
  BY DEF Serve, OpenServer, CloseServer, Unregister, Request, Collect, CollectLock,
     CollectLabels, CollectReturns, ServerStep, CollectStep, vars, loopVars, countVars
<1> QED
  BY <1>1, TalliedSame DEF Rest, Pending

-----------------------------------------------------------------------------
(* Steps of an update *)

\* What is known of the counters during an update.
LEMMA TalliedUpdate ==
    MomentInv /\ Update => Tallied' /\ InvalidTallied' /\ Known'
<1> SUFFICES ASSUME MomentInv, Update
             PROVE  Tallied' /\ InvalidTallied' /\ Known'
  OBVIOUS
<1>1. /\ TypeOK /\ HasLabels /\ Countable /\ Tallied /\ InvalidTallied /\ Known
      /\ counted \in Seq(Entry)
  BY DEF MomentInv, IInv
<1>2. /\ at \in 0 .. 8
      /\ event \in DmarcEvent
      /\ event.count \in Nat \cup {Text}
      /\ event.meta \in Meta
  BY <1>1 DEF TypeOK, DmarcEvent
<1>3. \A m \in DOMAIN metrics : \A c \in Counter : metrics[m][c] \in Nat
  BY <1>1 DEF TypeOK, IsCounterSet
<1>4. \A m : \A c \in Counter : Tally(m, c, Len(counted)) \in Nat
  BY <1>1, TallyType
<1>5. CASE LockForEvent \/ LockForInvalid \/ IncrementRaises
  <2>1. UNCHANGED <<metrics, invalid, counted>>
    BY <1>5 DEF LockForEvent, LockForInvalid, IncrementRaises, countVars
  <2>2. \A m \in DOMAIN metrics : \A c \in Counter :
           Rest(m, c)' = Rest(m, c) /\ Pending(m, c)' = Pending(m, c)
    BY <1>5 DEF Rest, Pending, LockForEvent, LockForInvalid, IncrementRaises, Raise
  <2> QED
    BY <1>1, <2>1, <2>2, TalliedSame
<1>6. CASE NewLabels
  <2>1. /\ pc = "update" /\ at = 0 /\ pc' = "update" /\ at' = 1
        /\ UNCHANGED <<event, invalid, counted>>
        /\ DOMAIN metrics' = DOMAIN metrics \cup {event.meta}
        /\ \A m \in DOMAIN metrics' :
              metrics'[m] = IF m \in DOMAIN metrics THEN metrics[m] ELSE Zero
    BY <1>6 DEF NewLabels
  <2>2. ASSUME NEW m \in DOMAIN metrics', NEW c \in Counter
        PROVE  metrics'[m][c] + Rest(m, c)' = Tally(m, c, Len(counted))' + Pending(m, c)'
    <3>1. Rest(m, c)' = Pending(m, c)' /\ Pending(m, c)' \in Nat
      BY <1>2, <2>1, StepType DEF Rest, Pending
    <3>2. Tally(m, c, Len(counted))' = Tally(m, c, Len(counted))
      BY <2>1 DEF Tally, CountFor
    <3>3. metrics'[m][c] = Tally(m, c, Len(counted))
      <4>1. CASE m \in DOMAIN metrics
        <5>1. Rest(m, c) = 0 /\ Pending(m, c) = 0
          BY <2>1 DEF Rest, Pending
        <5>2. metrics[m][c] + 0 = Tally(m, c, Len(counted)) + 0
          BY <1>1, <4>1, <5>1 DEF Tallied
        <5> QED
          BY <1>3, <1>4, <2>1, <4>1, <5>2
      <4>2. CASE m \notin DOMAIN metrics
        <5>1. CountFor(m, c, Len(counted)) = {}
          BY <1>1, <4>2 DEF CountFor, Known
        <5>2. Tally(m, c, Len(counted)) = 0
          BY <5>1, TallyZero
        <5> QED
          BY <2>1, <4>2, <5>2 DEF Zero
      <4> QED
        BY <4>1, <4>2
    <3> QED
      BY <3>1, <3>2, <3>3
  <2>3. Tallied'
    BY <2>2 DEF Tallied
  <2>4. InvalidTallied' /\ Known'
    BY <1>1, <2>1 DEF InvalidTallied, InvalidFrom, Known
  <2> QED
    BY <2>3, <2>4
<1>7. CASE Increment
  <2>1. /\ pc = "update" /\ at \in 1 .. 7 /\ pc' = "update" /\ at' = at + 1
        /\ UNCHANGED <<event, invalid, counted>>
        /\ DOMAIN metrics' = DOMAIN metrics
    BY <1>7 DEF Increment
  <2>2. ASSUME NEW m \in DOMAIN metrics, NEW c \in Counter
        PROVE  metrics'[m][c] + Rest(m, c)' = Tally(m, c, Len(counted))' + Pending(m, c)'
    <3>1. Settled(m)'[c] = Settled(m)[c]
      BY <1>1, <1>7, IncrementSettles
    <3>2. metrics'[m][c] + Rest(m, c)' = metrics[m][c] + Rest(m, c)
      BY <3>1 DEF Settled
    <3>3. Pending(m, c)' = Pending(m, c)
      BY <2>1 DEF Pending
    <3>4. Tally(m, c, Len(counted))' = Tally(m, c, Len(counted))
      BY <2>1 DEF Tally, CountFor
    <3> QED
      BY <1>1, <3>2, <3>3, <3>4 DEF Tallied
  <2>3. Tallied'
    BY <2>1, <2>2 DEF Tallied
  <2>4. InvalidTallied' /\ Known'
    BY <1>1, <2>1 DEF InvalidTallied, InvalidFrom, Known
  <2> QED
    BY <2>3, <2>4
<1>8. CASE Release
  <2> DEFINE e == [invalid |-> FALSE, event |-> event]
  <2>1. /\ pc = "update" /\ at = 8 /\ pc' = "records"
        /\ counted' = Append(counted, e)
        /\ UNCHANGED <<event, metrics, invalid>>
    BY <1>8 DEF Release
  <2>2. event.count \in Nat
    BY <1>1, <1>2, <2>1 DEF Countable
  <2>3. e \in Entry /\ ~e.invalid /\ e.event = event
    BY <1>2, <2>2 DEF Entry
  <2>4. event.meta \in DOMAIN metrics
    BY <1>1, <2>1 DEF HasLabels
  <2>5. /\ Len(counted) \in Nat
        /\ Len(counted') = Len(counted) + 1
        /\ counted'[Len(counted) + 1] = e
        /\ \A i \in 1 .. Len(counted) : counted'[i] = counted[i]
    BY <1>1, <2>1, <2>3, AppendProperties
  <2> HIDE DEF e
  <2>6. ASSUME NEW m \in DOMAIN metrics, NEW c \in Counter
        PROVE  metrics'[m][c] + Rest(m, c)' = Tally(m, c, Len(counted))' + Pending(m, c)'
    <3>1. Rest(m, c) = 0 /\ Rest(m, c)' = 0 /\ Pending(m, c)' = 0
      BY <2>1, StepType DEF Rest, Pending
    <3>2. Pending(m, c) = IF event.meta = m /\ Concerns(event.result, c) THEN event.count ELSE 0
      BY <1>1, <2>1 DEF Pending, Countable
    <3>3. Tally(m, c, Len(counted))' = Tally(m, c, Len(counted)) + Pending(m, c)
      BY <1>1, <2>1, <2>3, <3>2, TallyAppend
    <3>4. metrics[m][c] + Rest(m, c) = Tally(m, c, Len(counted)) + Pending(m, c)
      BY <1>1 DEF Tallied
    <3>5. Pending(m, c) \in Nat /\ metrics'[m][c] = metrics[m][c]
      BY <2>1, <2>2, <3>2
    <3> QED
      BY <1>3, <1>4, <3>1, <3>3, <3>4, <3>5
  <2>7. Tallied'
    BY <2>1, <2>6 DEF Tallied
  <2>8. InvalidTallied'
    <3> SUFFICES ASSUME NEW f \in DOMAIN invalid
                 PROVE  invalid[f] = Cardinality(InvalidFrom(f, Len(counted)))'
      BY <2>1 DEF InvalidTallied
    <3>1. /\ Cardinality(InvalidFrom(f, Len(counted)))' = Cardinality(InvalidFrom(f, Len(counted))) + 0
          /\ Cardinality(InvalidFrom(f, Len(counted))) \in Nat
      BY <1>1, <2>1, <2>3, InvalidAppend
    <3> QED
      BY <1>1, <3>1 DEF InvalidTallied
  <2>9. Known'
    <3> SUFFICES ASSUME NEW i \in 1 .. Len(counted')
                 PROVE  IF counted'[i].invalid THEN counted'[i].from \in DOMAIN invalid
                                               ELSE counted'[i].event.meta \in DOMAIN metrics
      BY <2>1 DEF Known
    <3>1. i \in 1 .. Len(counted) \/ i = Len(counted) + 1
      BY <2>5
    <3> QED
      BY <1>1, <2>3, <2>4, <2>5, <3>1 DEF Known
  <2> QED
    BY <2>7, <2>8, <2>9
<1>9. CASE IncInvalid
  <2> DEFINE sender == inbox[handled + 1].from
             e == [invalid |-> TRUE, from |-> sender]
  <2>1. /\ pc = "invalid" /\ pc' = "idle"
        /\ counted' = Append(counted, e)
        /\ UNCHANGED metrics
        /\ invalid' = [f \in DOMAIN invalid \cup {sender} |->
                          (IF f \in DOMAIN invalid THEN invalid[f] ELSE 0)
                          + (IF f = sender THEN 1 ELSE 0)]
    BY <1>9 DEF IncInvalid
  <2>2. sender \in Optional(Name)
    <3>1. handled \in 0 .. Len(inbox) /\ handled < Len(inbox) /\ inbox \in Inboxes
      BY <1>1, <2>1 DEF TypeOK
    <3> QED
      BY <3>1, MessageType
  <2>3. e \in Entry /\ e.invalid /\ e.from = sender
    BY <2>2 DEF Entry
  <2> HIDE DEF e, sender
  <2>4. /\ Len(counted) \in Nat
        /\ Len(counted') = Len(counted) + 1
        /\ counted'[Len(counted) + 1] = e
        /\ \A i \in 1 .. Len(counted) : counted'[i] = counted[i]
    BY <1>1, <2>1, <2>3, AppendProperties
  <2>5. ASSUME NEW m \in DOMAIN metrics, NEW c \in Counter
        PROVE  metrics'[m][c] + Rest(m, c)' = Tally(m, c, Len(counted))' + Pending(m, c)'
    <3>1. Rest(m, c) = 0 /\ Rest(m, c)' = 0 /\ Pending(m, c) = 0 /\ Pending(m, c)' = 0
      BY <2>1, StepType DEF Rest, Pending
    <3>2. Tally(m, c, Len(counted))' = Tally(m, c, Len(counted)) + 0
      BY <1>1, <2>1, <2>3, TallyAppend
    <3>3. metrics[m][c] + Rest(m, c) = Tally(m, c, Len(counted)) + Pending(m, c)
      BY <1>1 DEF Tallied
    <3> QED
      BY <1>3, <1>4, <2>1, <3>1, <3>2, <3>3
  <2>6. Tallied'
    BY <2>1, <2>5 DEF Tallied
  <2>7. InvalidTallied'
    <3> SUFFICES ASSUME NEW f \in DOMAIN invalid'
                 PROVE  invalid'[f] = Cardinality(InvalidFrom(f, Len(counted)))'
      BY DEF InvalidTallied
    <3>1. /\ Cardinality(InvalidFrom(f, Len(counted)))' =
                Cardinality(InvalidFrom(f, Len(counted))) + (IF f = sender THEN 1 ELSE 0)
          /\ Cardinality(InvalidFrom(f, Len(counted))) \in Nat
      BY <1>1, <2>1, <2>3, InvalidAppend
    <3>2. CASE f \in DOMAIN invalid
      <4>1. invalid[f] = Cardinality(InvalidFrom(f, Len(counted)))
        BY <1>1, <3>2 DEF InvalidTallied
      <4>2. invalid'[f] = invalid[f] + (IF f = sender THEN 1 ELSE 0)
        BY <2>1, <3>2
      <4> QED
        BY <3>1, <4>1, <4>2
    <3>3. CASE f \notin DOMAIN invalid
      <4>1. InvalidFrom(f, Len(counted)) = {}
        BY <1>1, <3>3 DEF InvalidFrom, Known
      <4>2. Cardinality(InvalidFrom(f, Len(counted))) = 0
        BY <4>1, FS_EmptySet
      <4>3. invalid'[f] = 0 + (IF f = sender THEN 1 ELSE 0)
        BY <2>1, <3>3
      <4> QED
        BY <3>1, <4>2, <4>3
    <3> QED
      BY <3>2, <3>3
  <2>8. Known'
    <3> SUFFICES ASSUME NEW i \in 1 .. Len(counted')
                 PROVE  IF counted'[i].invalid THEN counted'[i].from \in DOMAIN invalid'
                                               ELSE counted'[i].event.meta \in DOMAIN metrics
      BY <2>1 DEF Known
    <3>1. i \in 1 .. Len(counted) \/ i = Len(counted) + 1
      BY <2>4
    <3>2. sender \in DOMAIN invalid' /\ DOMAIN invalid \subseteq DOMAIN invalid'
      BY <2>1
    <3> QED
      BY <1>1, <2>3, <2>4, <3>1, <3>2 DEF Known
  <2> QED
    BY <2>6, <2>7, <2>8
<1> QED
  BY <1>5, <1>6, <1>7, <1>8, <1>9 DEF Update

-----------------------------------------------------------------------------
(* Every scrape is a moment *)

\* A count that is a text does not get past the first counter.
LEMMA CountableNext == Countable /\ [Next]_vars => Countable'
<1> SUFFICES ASSUME Countable, [Next]_vars PROVE Countable'
  OBVIOUS
<1>1. CASE Extract
  BY <1>1 DEF Countable, Extract, Call, SkipPart, OpenPart, PartRaises, Return, NothingFound,
       ParsePayload, PayloadRaises, ClosePart, SkipRecord, ConvertRecord, ConversionRaises,
       EndReport, Raise
<1>2. CASE Update
  BY <1>2 DEF Countable, Update, LockForEvent, NewLabels, Increment,
       IncrementRaises, Release, LockForInvalid, IncInvalid, Raise
<1>3. CASE Serve \/ UNCHANGED vars
  <2>1. UNCHANGED <<pc, at, event>>
    BY <1>3 DEF Serve, OpenServer, CloseServer, Unregister, Request, Collect, CollectLock,
       CollectLabels, CollectReturns, ServerStep, CollectStep, vars, loopVars
  <2> QED
    BY <2>1 DEF Countable
<1> QED
  BY <1>1, <1>2, <1>3 DEF Next, ProcessEmail, Serve

\* What is counted grows by entries, and only at the end of an update.
LEMMA CountedNext ==
    ASSUME TypeOK, Countable, counted \in Seq(Entry), [Next]_vars
    PROVE  counted' = counted \/ \E e \in Entry : counted' = Append(counted, e)
<1>1. CASE Release
  <2>1. [invalid |-> FALSE, event |-> event] \in Entry
    BY <1>1 DEF Release, Entry, Countable, TypeOK, DmarcEvent
  <2> QED
    BY <1>1, <2>1 DEF Release
<1>2. CASE IncInvalid
  <2>1. handled \in 0 .. Len(inbox) /\ handled < Len(inbox) /\ inbox \in Inboxes
    BY <1>2 DEF TypeOK, IncInvalid
  <2>2. inbox[handled + 1].from \in Optional(Name)
    BY <2>1, MessageType
  <2>3. [invalid |-> TRUE, from |-> inbox[handled + 1].from] \in Entry
    BY <2>2 DEF Entry
  <2> QED
    BY <1>2, <2>3 DEF IncInvalid
<1>3. CASE ~Release /\ ~IncInvalid
  BY <1>3 DEF Next, ProcessEmail, Extract, Call, SkipPart, OpenPart, PartRaises, Return,
     NothingFound, ParsePayload, PayloadRaises, ClosePart, SkipRecord, ConvertRecord,
     ConversionRaises, EndReport, ReadStep, Update, LockForEvent, NewLabels, Increment,
     IncrementRaises, LockForInvalid, OpenServer, CloseServer, Unregister, Request, Collect,
     CollectLock, CollectLabels, CollectReturns, ServerStep, CollectStep, vars, countVars
<1> QED
  BY <1>1, <1>2, <1>3

\* A request has been made before what is counted now.
LEMMA EarlierNext ==
    ASSUME TypeOK, Countable, counted \in Seq(Entry), Earlier, [Next]_vars
    PROVE  counted' \in Seq(Entry) /\ Earlier'
<1>1. counted' \in Seq(Entry) /\ Len(counted) \in Nat /\ Len(counted') \in Nat
      /\ Len(counted) <= Len(counted')
  BY CountedNext, AppendProperties
<1>2. CASE \E s \in Scraper : Request(s)
  <2>1. PICK s \in Scraper : Request(s)
    BY <1>2
  <2>2. counted' = counted
    BY <2>1 DEF Request, ServerStep, countVars
  <2>3. /\ DOMAIN since' = Scraper
        /\ \A t \in Scraper : since'[t] = IF t = s THEN Len(counted) ELSE since[t]
    BY <2>1 DEF Request, Earlier
  <2> QED
    BY <1>1, <2>2, <2>3 DEF Earlier
<1>3. CASE ~ \E s \in Scraper : Request(s)
  <2>1. since' = since
    BY <1>3 DEF Next, ProcessEmail, Extract, Call, SkipPart, OpenPart, PartRaises, Return,
     NothingFound, ParsePayload, PayloadRaises, ClosePart, SkipRecord, ConvertRecord,
     ConversionRaises, EndReport, ReadStep, Update, LockForEvent, NewLabels, Increment,
     IncrementRaises, Release, LockForInvalid, IncInvalid, OpenServer, CloseServer, Unregister,
     Collect, CollectLock, CollectLabels, CollectReturns, CollectStep, vars, scrapeVars
  <2> QED
    BY <1>1, <2>1 DEF Earlier
<1> QED
  BY <1>2, <1>3

\* While a request has the lock, nothing changes what it reads.
LEMMA SeenIsNowNext ==
    ASSUME TypeOK, Exclusive, SeenIsNow, [Next]_vars
    PROVE  SeenIsNow'
<1>1. scrape \in [Scraper -> {"idle", "lock", "read"}] /\ DOMAIN seen = Scraper
  BY DEF TypeOK
<1>2. CASE UNCHANGED <<scrape, seen>>
  <2>1. CASE UNCHANGED metrics
    BY <1>2, <2>1 DEF SeenIsNow
  <2>2. CASE metrics' # metrics
    <3>1. pc = "update"
      BY <2>2 DEF Next, ProcessEmail, Extract, Call, SkipPart, OpenPart, PartRaises, Return,
         NothingFound, ParsePayload, PayloadRaises, ClosePart, SkipRecord, ConvertRecord,
         ConversionRaises, EndReport, ReadStep, Update, LockForEvent, NewLabels, Increment,
         IncrementRaises, Release, LockForInvalid, IncInvalid, OpenServer, CloseServer,
         Unregister, Request, Collect, CollectLock, CollectLabels, CollectReturns, ServerStep,
         CollectStep, vars, countVars
    <3>2. \A s \in Scraper : scrape[s] # "read"
      BY <3>1, ScraperAssumption DEF Exclusive
    <3> QED
      BY <1>2, <3>2 DEF SeenIsNow
  <2> QED
    BY <2>1, <2>2
<1>3. ASSUME NEW s \in Scraper, Request(s) \/ CollectLock(s) PROVE SeenIsNow'
  <2>1. UNCHANGED <<seen, metrics>> /\ scrape[s] # "read"
    BY <1>3 DEF Request, CollectLock, ServerStep, CollectStep, countVars
  <2>2. \A t \in Scraper \ {s} : scrape'[t] = scrape[t]
    BY <1>1, <1>3 DEF Request, CollectLock
  <2> QED
    BY <2>1, <2>2 DEF SeenIsNow
<1>4. ASSUME NEW s \in Scraper, NEW m \in DOMAIN metrics, CollectLabels(s, m) PROVE SeenIsNow'
  <2>1. UNCHANGED <<scrape, metrics>> /\ scrape[s] = "read"
    BY <1>4 DEF CollectLabels, CollectStep, countVars
  <2>2. \A t \in Scraper \ {s} : seen'[t] = seen[t]
    BY <1>1, <1>4 DEF CollectLabels
  <2>3. seen'[s] = [n \in DOMAIN seen[s] \cup {m} |->
                      IF n = m THEN [c \in Exposed |-> metrics[m][c]] ELSE seen[s][n]]
    BY <1>1, <1>4 DEF CollectLabels
  <2>4. ASSUME NEW n \in DOMAIN seen'[s]
        PROVE  n \in DOMAIN metrics /\ \A c \in Exposed : seen'[s][n][c] = metrics[n][c]
    BY <2>3 DEF SeenIsNow
  <2> QED
    BY <2>1, <2>2, <2>4 DEF SeenIsNow
<1>5. ASSUME NEW s \in Scraper, CollectReturns(s) PROVE SeenIsNow'
  <2>1. UNCHANGED metrics
    BY <1>5 DEF CollectReturns, CollectStep, countVars
  <2>2. \A t \in Scraper \ {s} : seen'[t] = seen[t] /\ scrape'[t] = scrape[t]
    BY <1>1, <1>5 DEF CollectReturns
  <2>3. DOMAIN seen'[s] = {}
    BY <1>1, <1>5 DEF CollectReturns
  <2> QED
    BY <2>1, <2>2, <2>3 DEF SeenIsNow
<1>6. CASE ~ UNCHANGED <<scrape, seen>>
  <2>1. \E s \in Scraper : \/ Request(s) \/ CollectLock(s) \/ CollectReturns(s)
                           \/ \E m \in DOMAIN metrics : CollectLabels(s, m)
    BY <1>6 DEF Next, vars, scrapeVars, ProcessEmail, Extract, Call, SkipPart, OpenPart,
       PartRaises, Return, NothingFound, ParsePayload, PayloadRaises, ClosePart, SkipRecord,
       ConvertRecord, ConversionRaises, EndReport, ReadStep, Update, LockForEvent, NewLabels,
       Increment, IncrementRaises, Release, LockForInvalid, IncInvalid, OpenServer,
       CloseServer, Unregister, ServerStep, Collect
  <2> QED
    BY <1>3, <1>4, <1>5, <2>1
<1> QED
  BY <1>2, <1>6

\* Nothing is counted at the start.
LEMMA MomentInit == Init => MomentInv
<1> SUFFICES ASSUME Init PROVE MomentInv
  OBVIOUS
<1>1. IInv
  BY IInvInit
<1>2. counted = <<>> /\ counted \in Seq(Entry) /\ Len(counted) = 0
  BY DEF Init
<1>3. Countable /\ Tallied /\ InvalidTallied /\ SeenIsNow
  BY DEF Init, Countable, Tallied, InvalidTallied, SeenIsNow
<1>4. Known /\ Earlier
  BY <1>2 DEF Init, Known, Earlier
<1> QED
  BY <1>1, <1>2, <1>3, <1>4 DEF MomentInv

\* Every step keeps what is known of the counters.
LEMMA MomentNext == MomentInv /\ [Next]_vars => MomentInv'
<1> SUFFICES ASSUME MomentInv, [Next]_vars PROVE MomentInv'
  OBVIOUS
<1>1. IInv' /\ Countable'
  BY IInvNext, CountableNext DEF MomentInv
<1>2. counted' \in Seq(Entry) /\ Earlier'
  BY EarlierNext DEF MomentInv, IInv
<1>3. SeenIsNow'
  BY SeenIsNowNext DEF MomentInv, IInv
<1>4. Tallied' /\ InvalidTallied' /\ Known'
  BY TalliedExtract, TalliedUpdate, TalliedServe DEF MomentInv, Next, ProcessEmail, Serve
<1> QED
  BY <1>1, <1>2, <1>3, <1>4 DEF MomentInv

\* An answer shows what has been counted when it is given.
LEMMA AnswerShowsMoment ==
    ASSUME MomentInv, NEW s \in Scraper, CollectReturns(s)
    PROVE  \E n \in since[s] .. Len(counted) : ShowsMoment(last'[s], n)
<1> DEFINE n == Len(counted)
<1>1. n \in since[s] .. Len(counted)
  BY DEF MomentInv, Earlier
<1>2. pc # "update"
  BY ScraperAssumption DEF MomentInv, IInv, Exclusive, CollectReturns
<1>3. last'[s].metrics = seen[s] /\ last'[s].invalid = invalid
  BY DEF MomentInv, IInv, TypeOK, CollectReturns
<1>4. DOMAIN seen[s] = DOMAIN metrics
  BY DEF MomentInv, SeenIsNow, CollectReturns
<1>5. ASSUME NEW m \in DOMAIN metrics, NEW c \in Exposed
      PROVE  seen[s][m][c] = Tally(m, c, n)
  <2>1. c \in Counter /\ metrics[m][c] \in Nat /\ Tally(m, c, n) \in Nat
    BY TallyType DEF Exposed, MomentInv, IInv, TypeOK, IsCounterSet
  <2>2. Rest(m, c) = 0 /\ Pending(m, c) = 0
    BY <1>2 DEF Rest, Pending
  <2>3. metrics[m][c] + Rest(m, c) = Tally(m, c, n) + Pending(m, c)
    BY <2>1 DEF MomentInv, Tallied
  <2>4. seen[s][m][c] = metrics[m][c]
    BY <1>4 DEF MomentInv, SeenIsNow
  <2> QED
    BY <2>1, <2>2, <2>3, <2>4
<1>6. \A f \in DOMAIN invalid : invalid[f] = Cardinality(InvalidFrom(f, n))
  BY DEF MomentInv, InvalidTallied
<1>7. \A i \in 1 .. n : IF counted[i].invalid THEN counted[i].from \in DOMAIN invalid
                                              ELSE counted[i].event.meta \in DOMAIN metrics
  BY DEF MomentInv, Known
<1> HIDE DEF n
<1>8. ShowsMoment(last'[s], n)
  BY <1>3, <1>4, <1>5, <1>6, <1>7 DEF ShowsMoment
<1> QED
  BY <1>1, <1>8

(***************************************************************************)
(* Every scrape shows the metrics as they are at one moment between the    *)
(* request and the answer, after so many whole events: for all messages,   *)
(* and however many requests are under way.                                *)
(***************************************************************************)
THEOREM EveryScrapeIsAMoment == Spec => ScrapeIsAMoment
<1> DEFINE A == \A s \in Scraper :
                   scrape[s] # "idle" /\ scrape'[s] = "idle" =>
                       \E n \in since[s] .. Len(counted) : ShowsMoment(last'[s], n)
<1>1. MomentInv /\ [Next]_vars => [A]_vars
  <2> SUFFICES ASSUME MomentInv, [Next]_vars, NEW s \in Scraper,
                      scrape[s] # "idle", scrape'[s] = "idle"
               PROVE  \E n \in since[s] .. Len(counted) : ShowsMoment(last'[s], n)
    OBVIOUS
  <2>1. scrape \in [Scraper -> {"idle", "lock", "read"}]
    BY DEF MomentInv, IInv, TypeOK
  <2>2. scrape'[s] # scrape[s]
    OBVIOUS
  <2>3. \E t \in Scraper : Request(t) \/ CollectLock(t) \/ CollectReturns(t)
    BY <2>2 DEF Next, vars, scrapeVars, ProcessEmail, Extract, Call, SkipPart, OpenPart,
       PartRaises, Return, NothingFound, ParsePayload, PayloadRaises, ClosePart, SkipRecord,
       ConvertRecord, ConversionRaises, EndReport, ReadStep, Update, LockForEvent, NewLabels,
       Increment, IncrementRaises, Release, LockForInvalid, IncInvalid, OpenServer,
       CloseServer, Unregister, ServerStep, Collect, CollectLabels
  <2>4. CollectReturns(s)
    BY <2>1, <2>2, <2>3 DEF Request, CollectLock, CollectReturns
  <2> QED
    BY <2>4, AnswerShowsMoment
<1> QED
  BY <1>1, MomentInit, MomentNext, PTL DEF Spec, ScrapeIsAMoment
=============================================================================
