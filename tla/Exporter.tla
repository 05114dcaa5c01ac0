------------------------------ MODULE Exporter ------------------------------
(***************************************************************************)
(* The metrics between the two that use them (app.py, dmarc_metrics.py,    *)
(* prometheus_exporter.py): process_email, which walks through the parts   *)
(* of a message, the payloads of a part and the records of a report, and   *)
(* updates the metrics event by event, one counter after the other; and    *)
(* the scrapes of the HTTP server, which read them one label set after the *)
(* other.  Both take PrometheusExporter's lock.                            *)
(*                                                                         *)
(* Which reports are duplicates, and what is persisted, is in App.  The    *)
(* process starts without a metrics file.                                  *)
(***************************************************************************)
EXTENDS Reports, FiniteSetsExt

CONSTANTS
    Inboxes,    \* what process_email may be called with, message by message
    Scraper     \* the requests that can be under way at the same time

ASSUME InboxesAssumption == Inboxes \subseteq Seq(Message)

ASSUME ScraperAssumption == "free" \notin Scraper /\ "loop" \notin Scraper

VARIABLES
    inbox,      \* the messages, in the order of their calls
    handled,    \* how many of the calls have ended
    pc,         \* where process_email is
    parts,      \* msg.walk(): the parts still to come
    found,      \* has_found_a_report
    docs,       \* the payloads of the part still to come
    feedback,   \* the report, with the records still to come
    event,      \* the event that metrics.update was last called with
    at,         \* the step of metrics.update that comes next
    lock,       \* _metrics_lock
    metrics,    \* DmarcMetricsCollection.metrics
    invalid,    \* DmarcMetricsCollection.invalid_reports
    server,     \* Server: down, up, closing, closed
    scrape,     \* where each request is: idle, lock, read
    seen,       \* the labels and counters it has read
    since,      \* history: how much was counted when it was made
    last,       \* the last answers
    counted,    \* history: the events and invalid messages, as counted so far
    raised      \* history: process_email has raised an exception

loopVars == <<inbox, handled, pc, parts, found, docs, feedback, event, at, raised>>
countVars == <<metrics, invalid, counted>>
scrapeVars == <<server, scrape, seen, since, last>>
vars == <<loopVars, lock, countVars, scrapeVars>>

\* The counters of DmarcMetrics, by the step of update that increments them.
Step == [total |-> 1,
         none |-> 2, quarantine |-> 2, reject |-> 2,
         compliant |-> 3, dkim_pass |-> 4, spf_pass |-> 5,
         dkim_aligned |-> 6, spf_aligned |-> 7]

Counter == {"total", "none", "quarantine", "reject", "compliant",
            "dkim_pass", "spf_pass", "dkim_aligned", "spf_aligned"}

\* There is no metric for the messages with disposition "none".
Exposed == Counter \ {"none"}

Zero == [c \in Counter |-> 0]

Concerns(result, c) ==
    CASE c = "total" -> TRUE
      [] c \in Disposition -> result.disposition = c
      [] c = "compliant" -> dmarc_compliant(result)
      [] c = "dkim_pass" -> result.dkim_pass
      [] c = "spf_pass" -> result.spf_pass
      [] c = "dkim_aligned" -> result.dkim_aligned
      [] c = "spf_aligned" -> result.spf_aligned

NoAnswer == [metrics |-> <<>>, invalid |-> <<>>]

NoEvent ==
    [count |-> 1,
     meta |-> [reporter |-> "", from_domain |-> "", dkim_domain |-> "", spf_domain |-> ""],
     result |-> [disposition |-> "none", dkim_pass |-> FALSE, spf_pass |-> FALSE,
                 dkim_aligned |-> FALSE, spf_aligned |-> FALSE]]

Init ==
    /\ inbox \in Inboxes
    /\ handled = 0
    /\ pc = "idle"
    /\ parts = <<>>
    /\ found = FALSE
    /\ docs = <<>>
    /\ feedback = EmptyFeedback
    /\ event = NoEvent
    /\ at = 0
    /\ raised = FALSE
    /\ lock = "free"
    /\ metrics = <<>>
    /\ invalid = <<>>
    /\ counted = <<>>
    /\ server = "down"
    /\ scrape = [s \in Scraper |-> "idle"]
    /\ seen = [s \in Scraper |-> <<>>]
    /\ since = [s \in Scraper |-> 0]
    /\ last = [s \in Scraper |-> NoAnswer]

-----------------------------------------------------------------------------
(* process_email up to an event *)

ReadStep == UNCHANGED <<inbox, event, at, lock, countVars, scrapeVars>>

Call ==
    /\ pc = "idle"
    /\ handled < Len(inbox)
    /\ pc' = "parts"
    /\ parts' = inbox[handled + 1].parts
    /\ found' = FALSE
    /\ ReadStep
    /\ UNCHANGED <<handled, docs, feedback, raised>>

\* The exception leaves process_email, which the poll task handles.
Raise ==
    /\ pc' = "idle"
    /\ handled' = handled + 1
    /\ parts' = <<>>
    /\ docs' = <<>>
    /\ feedback' = EmptyFeedback
    /\ raised' = TRUE
    /\ UNCHANGED found

SkipPart ==
    /\ pc = "parts"
    /\ parts # <<>>
    /\ ~IsPayload(Head(parts))
    /\ parts' = Tail(parts)
    /\ ReadStep
    /\ UNCHANGED <<handled, pc, found, docs, feedback, raised>>

OpenPart ==
    /\ pc = "parts"
    /\ parts # <<>>
    /\ IsPayload(Head(parts))
    /\ HasHandler(Head(parts))
    /\ pc' = "docs"
    /\ found' = TRUE
    /\ docs' = Head(parts).docs
    /\ parts' = Tail(parts)
    /\ ReadStep
    /\ UNCHANGED <<handled, feedback, raised>>

PartRaises ==
    /\ pc = "parts"
    /\ parts # <<>>
    /\ IsPayload(Head(parts))
    /\ ~HasHandler(Head(parts))
    /\ Raise
    /\ ReadStep

Return ==
    /\ pc = "parts"
    /\ parts = <<>>
    /\ found
    /\ pc' = "idle"
    /\ handled' = handled + 1
    /\ ReadStep
    /\ UNCHANGED <<parts, found, docs, feedback, raised>>

\* ReportExtractionError, caught in process_email
NothingFound ==
    /\ pc = "parts"
    /\ parts = <<>>
    /\ ~found
    /\ pc' = "lock_invalid"
    /\ ReadStep
    /\ UNCHANGED <<handled, parts, found, docs, feedback, raised>>

ParsePayload ==
    /\ pc = "docs"
    /\ docs # <<>>
    /\ Parses(Head(docs))
    /\ pc' = "records"
    /\ feedback' = Parse(Head(docs))
    /\ docs' = Tail(docs)
    /\ ReadStep
    /\ UNCHANGED <<handled, parts, found, raised>>

PayloadRaises ==
    /\ pc = "docs"
    /\ docs # <<>>
    /\ ~Parses(Head(docs))
    /\ Raise
    /\ ReadStep

ClosePart ==
    /\ pc = "docs"
    /\ docs = <<>>
    /\ pc' = "parts"
    /\ ReadStep
    /\ UNCHANGED <<handled, parts, found, docs, feedback, raised>>

\* Variant: a record without a row ends the report.
SkipRecordAndRest ==
    /\ pc = "records"
    /\ feedback.record # <<>>
    /\ Head(feedback.record).row = None
    /\ feedback' = [feedback EXCEPT !.record = <<>>]
    /\ ReadStep
    /\ UNCHANGED <<handled, pc, parts, found, docs, raised>>

SkipRecord ==
    /\ pc = "records"
    /\ feedback.record # <<>>
    /\ Head(feedback.record).row = None
    /\ feedback' = [feedback EXCEPT !.record = Tail(@)]
    /\ ReadStep
    /\ UNCHANGED <<handled, pc, parts, found, docs, raised>>

ConvertRecord ==
    /\ pc = "records"
    /\ feedback.record # <<>>
    /\ Head(feedback.record).row # None
    /\ MapsDisposition(Head(feedback.record))
    /\ event' = EventOf(feedback, Head(feedback.record))
    /\ feedback' = [feedback EXCEPT !.record = Tail(@)]
    /\ pc' = "lock"
    /\ UNCHANGED <<inbox, handled, parts, found, docs, at, raised, lock, countVars, scrapeVars>>

ConversionRaises ==
    /\ pc = "records"
    /\ feedback.record # <<>>
    /\ Head(feedback.record).row # None
    /\ ~MapsDisposition(Head(feedback.record))
    /\ Raise
    /\ ReadStep

EndReport ==
    /\ pc = "records"
    /\ feedback.record = <<>>
    /\ pc' = "docs"
    /\ ReadStep
    /\ UNCHANGED <<handled, parts, found, docs, feedback, raised>>

Extract ==
    \/ Call \/ SkipPart \/ OpenPart \/ PartRaises \/ Return \/ NothingFound
    \/ ParsePayload \/ PayloadRaises \/ ClosePart
    \/ SkipRecord \/ ConvertRecord \/ ConversionRaises \/ EndReport

-----------------------------------------------------------------------------
(* metrics.update and metrics.inc_invalid, under the lock *)

LockForEvent ==
    /\ pc = "lock"
    /\ lock = "free"
    /\ lock' = "loop"
    /\ pc' = "update"
    /\ at' = 0
    /\ UNCHANGED <<inbox, handled, parts, found, docs, feedback, event, raised,
                   countVars, scrapeVars>>

NewLabels ==
    /\ pc = "update"
    /\ at = 0
    /\ metrics' = [m \in DOMAIN metrics \cup {event.meta} |->
                      IF m \in DOMAIN metrics THEN metrics[m] ELSE Zero]
    /\ at' = 1
    /\ UNCHANGED <<inbox, handled, pc, parts, found, docs, feedback, event, raised,
                   lock, invalid, counted, scrapeVars>>

\* Is counter c incremented at this step, for the event?
Due(c) == Step[c] = at /\ Concerns(event.result, c)

Increment ==
    /\ pc = "update"
    /\ at \in 1 .. 7
    /\ event.count # Text
    /\ metrics' = [metrics EXCEPT ![event.meta] =
                      [c \in Counter |-> IF Due(c) THEN @[c] + event.count ELSE @[c]]]
    /\ at' = at + 1
    /\ UNCHANGED <<inbox, handled, pc, parts, found, docs, feedback, event, raised,
                   lock, invalid, counted, scrapeVars>>

\* Variant: the lock is not released on an exception.
IncrementRaisesHolding ==
    /\ pc = "update"
    /\ at = 1
    /\ event.count = Text
    /\ Raise
    /\ UNCHANGED <<inbox, event, at, lock, countVars, scrapeVars>>

\* A number and a text do not add: the new labels stay, with zeros.
IncrementRaises ==
    /\ pc = "update"
    /\ at = 1
    /\ event.count = Text
    /\ Raise
    /\ lock' = "free"
    /\ UNCHANGED <<inbox, event, at, countVars, scrapeVars>>

Release ==
    /\ pc = "update"
    /\ at = 8
    /\ lock' = "free"
    /\ pc' = "records"
    /\ at' = 0
    /\ counted' = Append(counted, [invalid |-> FALSE, event |-> event])
    /\ UNCHANGED <<inbox, handled, parts, found, docs, feedback, event, raised,
                   metrics, invalid, scrapeVars>>

LockForInvalid ==
    /\ pc = "lock_invalid"
    /\ lock = "free"
    /\ lock' = "loop"
    /\ pc' = "invalid"
    /\ UNCHANGED <<inbox, handled, parts, found, docs, feedback, event, at, raised,
                   countVars, scrapeVars>>

IncInvalid ==
    LET sender == inbox[handled + 1].from
    IN  /\ pc = "invalid"
        /\ invalid' = [f \in DOMAIN invalid \cup {sender} |->
                          (IF f \in DOMAIN invalid THEN invalid[f] ELSE 0)
                          + (IF f = sender THEN 1 ELSE 0)]
        /\ lock' = "free"
        /\ pc' = "idle"
        /\ handled' = handled + 1
        /\ counted' = Append(counted, [invalid |-> TRUE, from |-> sender])
        /\ UNCHANGED <<inbox, parts, found, docs, feedback, event, at, raised, metrics, scrapeVars>>

Update ==
    \/ LockForEvent \/ NewLabels \/ Increment \/ IncrementRaises \/ Release
    \/ LockForInvalid \/ IncInvalid

ProcessEmail == Extract \/ Update

-----------------------------------------------------------------------------
(* The HTTP server: the event loop accepts requests, when it is not in         *)
(* process_email, and other threads may answer them.                           *)

ServerStep ==
    /\ pc = "idle"
    /\ UNCHANGED <<loopVars, lock, countVars, last>>

OpenServer ==
    /\ server = "down"
    /\ server' = "up"
    /\ ServerStep
    /\ UNCHANGED <<scrape, seen, since>>

\* should_exit is set: uvicorn takes no further request ...
CloseServer ==
    /\ server = "up"
    /\ server' = "closing"
    /\ ServerStep
    /\ UNCHANGED <<scrape, seen, since>>

\* ... and shuts down when those under way are answered.
Unregister ==
    /\ server = "closing"
    /\ \A s \in Scraper : scrape[s] = "idle"
    /\ server' = "closed"
    /\ ServerStep
    /\ UNCHANGED <<scrape, seen, since>>

Request(s) ==
    /\ server = "up"
    /\ scrape[s] = "idle"
    /\ scrape' = [scrape EXCEPT ![s] = "lock"]
    /\ since' = [since EXCEPT ![s] = Len(counted)]
    /\ ServerStep
    /\ UNCHANGED <<server, seen>>

CollectStep == UNCHANGED <<loopVars, countVars, server, since>>

\* Variant: collect does not take the lock.
CollectNoLock(s) ==
    /\ scrape[s] = "lock"
    /\ scrape' = [scrape EXCEPT ![s] = "read"]
    /\ CollectStep
    /\ UNCHANGED <<lock, seen, last>>

CollectLock(s) ==
    /\ scrape[s] = "lock"
    /\ lock = "free"
    /\ lock' = s
    /\ scrape' = [scrape EXCEPT ![s] = "read"]
    /\ CollectStep
    /\ UNCHANGED <<seen, last>>

CollectLabels(s, m) ==
    /\ scrape[s] = "read"
    /\ m \in DOMAIN metrics \ DOMAIN seen[s]
    /\ seen' = [seen EXCEPT ![s] =
                   [n \in DOMAIN @ \cup {m} |->
                       IF n = m THEN [c \in Exposed |-> metrics[m][c]] ELSE @[n]]]
    /\ CollectStep
    /\ UNCHANGED <<lock, scrape, last>>

CollectReturns(s) ==
    /\ scrape[s] = "read"
    /\ DOMAIN metrics \subseteq DOMAIN seen[s]
    /\ last' = [last EXCEPT ![s] = [metrics |-> seen[s], invalid |-> invalid]]
    /\ lock' = "free"
    /\ scrape' = [scrape EXCEPT ![s] = "idle"]
    /\ seen' = [seen EXCEPT ![s] = <<>>]
    /\ CollectStep

Collect(s) ==
    \/ CollectLock(s)
    \/ \E m \in DOMAIN metrics : CollectLabels(s, m)
    \/ CollectReturns(s)

-----------------------------------------------------------------------------
Next ==
    \/ ProcessEmail
    \/ OpenServer \/ CloseServer \/ Unregister
    \/ \E s \in Scraper : Request(s) \/ Collect(s)

Spec == Init /\ [][Next]_vars

(***************************************************************************)
(* The event loop and the threads are scheduled, and the one that waits    *)
(* for a lock that is released again and again gets it in the end.         *)
(***************************************************************************)
Fairness ==
    /\ SF_vars(ProcessEmail)
    /\ WF_vars(Unregister)
    /\ \A s \in Scraper : SF_vars(Collect(s))

FairSpec == Spec /\ Fairness

-----------------------------------------------------------------------------
(* Properties *)

IsCounterSet(counters, names) ==
    /\ DOMAIN counters = names
    /\ \A c \in names : counters[c] \in Nat

TypeOK ==
    /\ inbox \in Inboxes
    /\ handled \in 0 .. Len(inbox)
    /\ pc \in {"idle", "parts", "docs", "records", "lock", "update", "lock_invalid", "invalid"}
    /\ pc # "idle" => handled < Len(inbox)
    /\ parts \in Seq(Part)
    /\ found \in BOOLEAN
    /\ docs \in Seq(Document)
    /\ \E v \in Version : feedback \in Feedback(v)
    /\ event \in DmarcEvent
    /\ at \in 0 .. 8
    /\ raised \in BOOLEAN
    /\ lock \in {"free", "loop"} \cup Scraper
    /\ DOMAIN metrics \subseteq Meta
    /\ \A m \in DOMAIN metrics : IsCounterSet(metrics[m], Counter)
    /\ DOMAIN invalid \subseteq Optional(Name)
    /\ \A f \in DOMAIN invalid : invalid[f] \in Nat
    /\ server \in {"down", "up", "closing", "closed"}
    /\ scrape \in [Scraper -> {"idle", "lock", "read"}]
    /\ DOMAIN seen = Scraper /\ DOMAIN last = Scraper
    /\ \A s \in Scraper :
          /\ DOMAIN seen[s] \subseteq Meta
          /\ \A m \in DOMAIN seen[s] : IsCounterSet(seen[s][m], Exposed)

(***************************************************************************)
(* The counters of a label set fit together.  Each message has one         *)
(* disposition, so those quarantined and those rejected are no more than   *)
(* all of them, and a compliant message has passed, and is aligned, by one *)
(* of the two methods (dmarc_event.py:28-31, dmarc_metrics.py:23-37).      *)
(***************************************************************************)
Fits(counters) ==
    /\ counters["quarantine"] + counters["reject"] <= counters["total"]
    /\ \A c \in Exposed : counters[c] <= counters["total"]
    /\ counters["compliant"] <= counters["dkim_pass"] + counters["spf_pass"]
    /\ counters["compliant"] <= counters["dkim_aligned"] + counters["spf_aligned"]

(***************************************************************************)
(* Every answer fits together: the scrape takes the lock for all label     *)
(* sets and the update for the whole of an event (app.py:139,              *)
(* prometheus_exporter.py:111), so that no scrape sees the total of an     *)
(* event without the rest.                                                 *)
(***************************************************************************)
AnswersFit ==
    \A s \in Scraper : \A m \in DOMAIN last[s].metrics : Fits(last[s].metrics[m])

\* Those of the first n events that count for counter c of the labels m ...
CountFor(m, c, n) ==
    {i \in 1 .. n : /\ ~counted[i].invalid
                    /\ counted[i].event.meta = m
                    /\ Concerns(counted[i].event.result, c)}

\* ... and what the counter is after them.
Tally(m, c, n) == SumFunction([i \in CountFor(m, c, n) |-> counted[i].event.count])

\* The messages without a payload among the first n events.
InvalidFrom(f, n) == {i \in 1 .. n : counted[i].invalid /\ counted[i].from = f}

ShowsMoment(answer, n) ==
    /\ \A i \in 1 .. n :
          IF counted[i].invalid THEN counted[i].from \in DOMAIN answer.invalid
                                ELSE counted[i].event.meta \in DOMAIN answer.metrics
    /\ \A m \in DOMAIN answer.metrics : \A c \in Exposed :
          answer.metrics[m][c] = Tally(m, c, n)
    /\ \A f \in DOMAIN answer.invalid :
          answer.invalid[f] = Cardinality(InvalidFrom(f, n))

(***************************************************************************)
(* A scrape shows the metrics as they are at one moment between the        *)
(* request and the answer, for all label sets together: after so many      *)
(* whole events.  Counters therefore never go back from one scrape to a    *)
(* later one.                                                              *)
(***************************************************************************)
ScrapeIsAMoment ==
    [][\A s \in Scraper :
          scrape[s] # "idle" /\ scrape'[s] = "idle" =>
              \E n \in since[s] .. Len(counted) : ShowsMoment(last'[s], n)]_vars

\* The rows in the messages handled so far, as they are written there, whatever the
\* parser makes of them: <<message, part, payload, record>>.
PartAt(p) == inbox[p[1]].parts[p[2]]
DocAt(p) == PartAt(p).docs[p[3]]
RecordAt(p) == DocAt(p).feedback.record[p[4]]
Row ==
    {p \in UNION {UNION {UNION {{<<i, j, k, r>> :
          r \in DOMAIN inbox[i].parts[j].docs[k].feedback.record} :
              k \in DOMAIN inbox[i].parts[j].docs} :
                  j \in DOMAIN inbox[i].parts} :
                      i \in 1 .. handled} :
        IsPayload(PartAt(p)) /\ RecordAt(p).row # None}

\* The rows of 2.0 documents with an element that the schema does not know, which
\* neither parser reads.
Overlooked == {p \in Row : DocAt(p).schema = "2.0" /\ DocAt(p).unknown}

RowHas(p, disposition) ==
    Evaluated(RecordAt(p)) # None /\ Evaluated(RecordAt(p)).disposition = disposition

RowCount(p) == IF RecordAt(p).row.count \in Nat \ {0} THEN RecordAt(p).row.count ELSE 1

CountOf(rows) == SumFunction([p \in rows |-> RowCount(p)])

Sum(c) == SumFunction([m \in DOMAIN metrics |-> metrics[m][c]])

\* The messages handled so far that have no payload.
WithoutPayload ==
    {i \in 1 .. handled : \A j \in DOMAIN inbox[i].parts : ~IsPayload(inbox[i].parts[j])}

(***************************************************************************)
(* No row is lost or counted twice on its way through parts, payloads and  *)
(* records into label sets, those of Overlooked excepted: as long as       *)
(* process_email raises no exception, the counters add up to the other     *)
(* rows that are written in the messages, and each message without a       *)
(* payload is counted as invalid once (deserialization.py:79-91, 114-116,  *)
(* app.py:138-143).  That the rows of Overlooked are lost, and the message *)
(* archived, is against the changelog: see ReportsAreSupported.            *)
(***************************************************************************)
EveryRowCounts ==
    pc = "idle" /\ ~raised =>
        /\ Sum("total") = CountOf(Row \ Overlooked)
        /\ \A d \in {"quarantine", "reject"} :
              Sum(d) = CountOf({p \in Row \ Overlooked : RowHas(p, d)})
        /\ SumFunction(invalid) = Cardinality(WithoutPayload)

\* What process_email cannot count: a record with a disposition that does not map,
\* or a count that is text; a payload that holds one, or is not a report; a part
\* that holds one, or has no handler; a message that has one.
Uncountable(record) ==
    /\ record.row # None
    /\ \/ record.row.count = Text
       \/ /\ Evaluated(record) # None
          /\ Evaluated(record).disposition \notin {None, "none", "quarantine", "reject"}

Unreadable(doc) == ~Parses(doc) \/ \E r \in Range(Parse(doc).record) : Uncountable(r)

Unopenable(part) ==
    IsPayload(part) /\ (~HasHandler(part) \/ \E d \in Range(part.docs) : Unreadable(d))

Troubled(message) == \E part \in Range(message.parts) : Unopenable(part)

(***************************************************************************)
(* process_email raises for the messages that hold something it cannot     *)
(* count, wherever in them, and for no other (duplicates aside): these are *)
(* the ones that the poll task files in the error folder                   *)
(* (deserialization.py:79-91, 101, 119, dmarc_metrics.py:24).              *)
(***************************************************************************)
RaisesForCause == raised <=> \E i \in 1 .. handled : Troubled(inbox[i])

\* Every request is answered: whatever process_email raises, it leaves the lock
\* free (app.py:139, prometheus_exporter.py:54-57).
RequestsAreAnswered == \A s \in Scraper : scrape[s] = "lock" ~> scrape[s] = "idle"

\* A server that is closed while it answers requests comes to its end, and the
\* exporter is unregistered (prometheus_exporter.py:35-40).
ServerCloses == server = "closing" ~> server = "closed"

-----------------------------------------------------------------------------
(* What the changelog says of the program and the code does not do. *)

\* The record has what its schema requires.
FollowsSchema(record) ==
    /\ record.row # None
    /\ record.row.count \in Nat
    /\ Evaluated(record) # None
    /\ Evaluated(record).disposition \notin {None, Text}
    /\ Evaluated(record).dkim \notin {None, Text}
    /\ Evaluated(record).spf \notin {None, Text}

(***************************************************************************)
(* DMARC 2.0 reports are supported (CHANGELOG.rst:15), and unknown         *)
(* properties within a report are handled gracefully (CHANGELOG.rst:136):  *)
(* the rows of the messages handled so far are counted if their records    *)
(* have what the schema requires, of either version, and also if there are *)
(* elements in the document that the schema does not know.                 *)
(***************************************************************************)
ReportsAreSupported ==
    pc = "idle" => CountOf({p \in Row : FollowsSchema(RecordAt(p))}) <= Sum("total")
=============================================================================
