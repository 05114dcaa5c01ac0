# A specification of dmarc-metrics-exporter

TLA+ modules of the exporter in `../src/dmarc_metrics_exporter`, the TLC runs that
check them on small instances, and theorems about them that TLAPS checks for every
value of the constants. `PROJECT.json` maps every definition to the lines it models
and lists the runs, the hazards, the findings and the theorems.

File names without a directory are those of `dmarc_metrics_exporter/`.

## The system

The exporter polls an IMAP inbox for mails with DMARC aggregate reports, adds up
what the reports say in Prometheus counters, and moves each mail to an archive
folder, or to an error folder if its handler raises. Reports that were seen before
(`org_name`, `report_id`) are skipped. Counters and seen reports are written to two
files every minute and at the end, and loaded at the start.

| Component | State | Operations | Interacts with | What makes it correct |
| --- | --- | --- | --- | --- |
| `App` (`app.py`) | exporter with metrics, `_seen_reports` | `__init__`, `run`, `_save_metrics`, `process_email` | called back by the poll task; writes both files; starts and stops the queue | a report is counted once; what is counted gets into the file; what is archived was counted |
| `ExpiringSet` (`expiring_set.py`) | `_items`, `_expiry_queue`, the wall clock, `seen-reports.db` | `add`, `in`, `persist`, `load`, `_expire` | called by `App` only | `in` is exact; item set and queue agree; a restart changes nothing |
| `ImapQueue` (`imap_queue.py`) | `_stop`, `_poll_task`; per round a client, its `fetched_queue`, the fetch task | `consume`, `_poll_imap`, `_process_new_messages`, `stop_consumer` | a fresh `ImapClient` per round; the handler | every response is handled; no mail is lost; every round ends; `stop_consumer` returns |
| `ImapClient` (`imap_client.py`) | connection, tags under way, command lock, commands in use, `_server_ready`, `fetched_queue`, `_last_response` | connect and close, one method per IMAP command, reader task | the server; the tasks of the queue | a command ends with its own answer, an error or a timeout; writers do not mix |
| response grammar (`imap_parser.py`) | none | parse | reader task | text only |
| extraction and conversion (`deserialization.py`) | none | mail to reports, report to events | `process_email` | every record becomes one event with the values it states |
| `DmarcMetrics(Collection)` | the counters | `update`, `inc_invalid` | `process_email`, scrape, save | counters only grow and fit together |
| `MetricsPersister` | `metrics.db` | `load`, `save` | `App` | what was saved is loaded |
| `PrometheusExporter`, `Server` | the lock, the registry | `collect`, `get_metrics`, start, stop | scrapes in a worker thread | a scrape never sees half an event |
| generated report classes, logging, command line, deployment | - | - | - | not part of this project's subject |

Three kinds of concurrency meet here. The main coroutine and the poll task share an
event loop, so they interleave at awaits only; `process_email` and `_save_metrics`
contain none and exclude each other. Inside a round the poll task, the task of the
FETCH and the reader take turns. The server, the mailbox, the clock and the death of
the process keep to no await at all. What is hard to test is therefore: a shutdown
in the middle of a round, a crash between two files or between COPY and STORE, a
command that fails after the server has carried it out, the same report again around
the moment it expires, a FETCH whose responses and whose end are seen in any order, a command that overlaps
another one whose literal the server has not asked for yet, a scrape in another thread
in the middle of a report.
`PROJECT.json` lists these under `hazards` with the line where each one bites.

## The modules

| Module | Models | Role |
| --- | --- | --- |
| `TimedEntries` | the (timestamp, item) pairs of `ExpiringSet` | shared operators |
| `ReportMemory` | what `App` relies on | abstract specification: one step per call |
| `ExpiringSet` | `expiring_set.py` and how `App` calls it | implements `ReportMemory` |
| `ExpiringSetProofs` | | theorems about `ExpiringSet` |
| `Round` | what a poll round promises | abstract specification: take, handle, file, one message at a time |
| `Mailbox` | the IMAP account, external | actions on inbox, archive, error folder |
| `App` | `app.py`, the poll task, `uid_move_graceful`, both files | the composition; extends `Mailbox`, uses the memory of `ReportMemory`, implements `Round` |
| `AppProofs` | | theorems about `App` |
| `ImapQueue` | the inside of `_process_new_messages` | the race of poll task, fetch task and reader; implements `Round` |
| `ImapQueueProofs` | | theorems about `ImapQueue` |
| `ImapClient` | `imap_client.py`, a session from connect to close, with a server | commands, writers, reader |
| `ImapClientProofs` | | theorems about `ImapClient` |
| `Reports` | the report classes, `dmarc_event.py`, the rules of `deserialization.py` | operators without a state |
| `Exporter` | `process_email` event by event, `dmarc_metrics.py`, `prometheus_exporter.py` | the lock between updates and scrapes; extends `Reports` |
| `SumProofs` | | lemmas about sums over finite sets |
| `ExporterProofs` | | theorems about `Exporter`: types, and what a scrape shows |
| `RowProofs` | | theorems about `Exporter`: what becomes of every message |
| `MCExpiringSet`, `MCApp`, `MCImapQueue`, `MCImapClient`, `MCExporter` | | instances for TLC |

`App` does not contain the detailed expiring set: `ExpiringSet` is proved to implement
`ReportMemory`, and `App` works with the entries of the latter, which vanish at the
tick at which they expire. Nor does it contain the queue of FETCH responses:
`ImapQueue` is about whether a round comes to its end and misses no response, and
`App` takes a round as a sequence of messages that may be cut off anywhere. What the two
have in common is `Round`, which both implement: `App` by the steps of the poll task
between any steps of the main coroutine, `ImapQueue` by the loop over the responses.

`ImapClient` is below `ImapQueue`: it knows nothing of FETCH responses and rounds, and its
user is anyone who issues the commands of a session in any order. `Exporter` is beside
`App`: `App` tells apart which report is counted when, `Exporter` what a report does to
the counters and what a scrape sees of it. `Exporter` therefore leaves duplicates and
files to `App`, and starts without a metrics file.

Definitions whose comment begins with *Variant* are not part of any specification:
each is a plausible slip in the code, stated as an alternative to the definition that
follows it, and a property of a passing run fails when it takes that one's place.

### How `App` corresponds to the code

- `main` is the point of `App.run`: `up` (line 109-112, between autosaves), the four
  steps of `_save_metrics` (`SaveBegin`: `metrics.db` is opened and thereby emptied;
  `SaveMetrics`: it is written; `OpenSeen`, `SaveSeen`: likewise; in between the file is
  `torn`, and what was in it is gone), `closing` (leaving
  `start_server` after a cancellation or an exception), `stopping` (line 117), `exited`,
  `down` (the process has died) and `broken` (a start met a torn file). `closing` says
  which of the two calls of `_save_metrics` is under way.
- `poll` is the point of the poll task: `sleep`, `next` (the loop over the responses),
  `handle` (in `process_email`), `file` (in `uid_move_graceful`; `store` and `expunge`
  are its later commands when the server has no MOVE), `ended`.
- `process_email` is one action per payload and one for its end, because the payloads
  come from a generator: what precedes a payload that raises has been counted. No
  other coroutine moves meanwhile (`LoopFree`, and `poll # "handle"` in the guards of
  the main coroutine); the clock, the mailbox and a crash do.
- A message is the sequence of its payloads; a payload has the identity of its report
  and an outcome: `ok`, `unconvertible` (`convert_to_events` raises at some row, so
  that the rows before it may have been counted), `unparseable` (both parsers raise),
  `empty` (a ZIP file without entries). A message without payload is the one for which
  `ReportExtractionError` is raised; `process_email` catches it, so that the message is
  counted as invalid and archived.
- `metrics` maps each report to the *times* at which it was counted, which is enough to
  say that it was counted, how often, and how far apart; the counters of one report are
  not told apart.
- `RoundAbort` is any exception outside the handler, at any await of the round. It may
  leave the mailbox as it was or as the command has made it: the second case is the
  action of the command followed by `RoundAbort`.
- `RoundHangs` is a round that waits for ever, and its poll task with it: for the next
  response after a failed FETCH (`imap_queue.py:85`), or for the continuation of a literal
  in LOGIN, SELECT, CREATE, UID MOVE or UID COPY (`imap_client.py:115`, `254`). Neither
  wait has a timeout. `stop_consumer` then waits too, and so does `App.run` on its way
  out. STORE and EXPUNGE have no literal, so that they end or time out.
- `AutosaveRaises` and `LastSaveRaises` are `OSError`s at either file, before or after
  it was truncated. In the first case the finally block saves again; in the second
  `stop_consumer` is skipped and `asyncio.run` cancels the poll task wherever it is.
- `Crash` is every other end, SIGTERM included, for which the program has no handler.
- `lagged` and `seenLags` are history variables: a process has ended after writing
  `metrics.db` and before having written `seen-reports.db`. So is `stored`: what was in
  `metrics.db` when it was last whole.

### How `ExpiringSet` corresponds to the code

One step per iteration of a loop and per reading of the clock; the last test of
`_expire`, the effect of the call and its return are one step. Calls do not overlap
(they are synchronous, from one thread). `answer` is the knowledge of `process_email`
between `in` and `add`. `load` is modelled entry by entry since `time_fn()` is called
for each. `SteppedSpec` adds a wall clock that may be set back at any time.

### How `ImapQueue` corresponds to the code

`queue` is `fetched_queue`; `Bare` stands for a FETCH response from which
`_extract_uid_and_msg` gets no UID or no message. `fetch` is the fetch task, with
`answered` for the moments between the arrival of the tagged answer and the end of the
task. Faults: any failure up to SELECT, a move that fails, a FETCH that fails, a
message the server skips, an unsolicited FETCH response, and a literal before the FETCH or
in a move that is never continued: it fails nothing, and the poll task is `stalled` from
then on (`SelectStalls`, `MoveStalls`). Two assumptions about what is
outside `imap_queue.py`: the server answers the commands of a connection in order, and
asyncio wakes tasks first in, first out; so the answer to a UID MOVE sent while the
FETCH is under way is seen after the fetch task has ended (`MoveReturns`). `App` in
turn assumes that a FETCH ends or fails; where it does not is `imap_queue_hang`.

### How `ImapClient` corresponds to the code

- `step` is the point of `__aenter__` and `__aexit__`. `failed` tells which of the two
  has raised, so that the properties can say what a session that was left in a regular
  way looks like.
- `pc` is the point of `_command`, for each command: `acquire` (waits for its name in
  `_CommandsInUse`), `lock` (waits for `_command_lock`), `started` (line 254: has the lock
  and waits for its writer or its answer, whichever comes first), `wait` (the loop of line
  259), and then its result. `_tag_completions`, the names in use and the lock follow from
  `pc` (`Registered`, `InUse`, `LockFree`).
- `writer` is the task of `write_command`. A command is written in pieces, one up to each
  literal and one to its end. `Write` is one piece and, before a literal, the `clear` of
  `_server_ready` and the beginning of the wait. The drain of so few bytes does not wait for
  the connection, but on Python 3.10 and 3.11 `wait_for` runs it in a task of its own, so
  that other tasks may come in between. What the reader does then has the effect of the same
  just after the step, since the wait returns at once if the event is set; it would take a
  second `clear` to undo that, and only the writer of another command could do that, which
  gets the lock after this command is answered. A writer is left behind when its command goes
  on without it; nobody looks at its exception.
- `reader` is `_process_responses`. It ends at the end of the stream (`ended`), or with an
  exception, which fails the commands under way: a reset connection, a response the
  grammar does not know, or a tag that is no longer registered.
- `line` is the connection: `eof` is a half-closed one, `closed` one that TLS closes as a
  whole, `ours` one that the client has closed.
- The server is external: it reads the pieces in order, asks for a literal or refuses it,
  and answers the commands it has read in any order. Faults: an untagged OK or garbage at
  any time, silence, the end of the stream or a reset.
- Time is left out. A command may give up at any moment at which it waits in the loop of
  line 259 without an answer, `wait_for` may cancel LOGOUT anywhere; the wait of line 254
  and the wait for the continuation have no timeout, and none here.

### How `Reports` and `Exporter` correspond to the code

- `Reports` has the classes of both versions with the fields the conversion reads. A field
  may be absent (`None`), and an enumeration or number may be `Text`, which is what xsdata
  leaves, with a warning, of text that does not convert. Counts are natural numbers here.
- A document follows a schema version, has unknown elements or not, or is malformed. Bytes
  that cannot be unpacked or decoded are malformed documents: what they raise takes the
  same way. `Parse` is the strict parser and, if it raises, the lenient one: it accepts
  everything that is XML but knows only the elements of 0.1.
- `EventOf` is one turn of `convert_to_events`; only the first DKIM and the first SPF result
  count.
- `Exporter` walks through the parts, payloads and records of a message one step at a time,
  since `get_aggregate_report_from_email` and `convert_to_events` are generators: what
  precedes the element that raises has been counted. `Increment` is one of the additions
  of `DmarcMetrics.update`. `lock` is `_metrics_lock`, held by `"loop"` or by a scrape.
- `collect` reads label set by label set in its own thread; the event loop accepts a
  request, opens and closes the server only between two calls of `process_email`. Where
  prometheus_client runs `collect` in the event loop itself there are fewer interleavings,
  all of which are in the model.
- `counted` is a history of the whole events, against which answers are compared.

## The runs

| Run | Instance | Shows |
| --- | --- | --- |
| `expiring_set` | 3 reports (symmetric), TTL 2, clock to 4; 90,244 states | `TypeOK`, `NeverRaises`, `ImplementsMemory` |
| `app_duplicates` | report r1 in two messages, one of them with an anonymous one; TTL 2, clock to 2, 1 crash or cancellation, 1 fault; about 639,000 states | `NeverDropped`, `CountedOnce`, `SuppressedOnlyIfCounted`, `WholeAtExit`, `FiledOnlyIfCounted`, `FileGrows`, `OneByOne`, `TypeOK` |
| `app_kinds` | a message that is archived and one whose handler raises, fair scheduling, 1 crash or cancellation, 1 fault; about 108,000 states | `EventuallyFiled`, `StopsInTheEnd` |
| `imap_queue` | up to 3 messages, 3 faults of any kind, fair scheduling; 9,832 states | `CompletedIsComplete`, `WaitsForResponse`, `OneByOne`, `RoundEnds`, `StopReturns`, `TypeOK` |
| `imap_client` | sessions with SELECT and FETCH, or with two SELECTs, in any order; 1 fault; 378,008 states | `WritersDoNotMix`, `SuccessIsServed`, `SameNameInTurn`, `LeftIsClosed`, `CommandsEnd`, `TypeOK` |
| `exporter` | 299 inboxes of one or two messages, one scrape at a time; 106,085 states | `AnswersFit`, `EveryRowCounts`, `RaisesForCause`, `ScrapeIsAMoment`, `RequestsAreAnswered`, `ServerCloses`, `TypeOK` |
| `app_shutdown` | 1 cancellation, no fault | `StoredOnShutdown` is violated |
| `app_died_between` | 1 crash | `CountedOnceAlways` is violated |
| `app_failed_report` | no fault but an unconvertible report | `ArchivedIsCounted` is violated |
| `imap_queue_hang` | 1 message, 1 failing FETCH | `NoDeadlock` is violated |
| `imap_client_hang` | 1 SELECT, 1 fault | `NoCommandHangs` is violated |
| `exporter_schema` | one report per version and disposition, with and without unknown elements | `ReportsAreSupported` is violated |

The safety properties in words:

- `NeverDropped`: whatever fails between COPY, STORE and EXPUNGE, a message that has
  left the inbox is in one of the two folders.
- `CountedOnce`: two contributions of a report are at least TTL apart, across messages,
  repeated rounds and restarts, unless a process died between the two files.
- `SuppressedOnlyIfCounted`: what is remembered as seen is in the metrics that go with
  it, in memory and in the files.
- `FiledOnlyIfCounted`: when a message enters the archive each report in it is in the
  metrics, unless some message has it in a form that cannot be converted (the finding
  `ArchivedIsCounted`). It says nothing of messages without a report, which are archived
  too, because `process_email` catches their `ReportExtractionError` (`app.py:141`).
- `FileGrows`: whenever `metrics.db` can be read it has everything it had when it could be
  read before. This does not mean that what is stored survives: while the file is truncated
  (`metrics_persister.py:52`) it has nothing, and a crash or a failing last save leaves it so.
  What is shown is that no later process takes such a file for an empty one, and stores
  less than there was.
- `NeverRaises`, `ImplementsMemory`: the queue and the set of `ExpiringSet` agree, and
  it behaves like `ReportMemory`.
- `CompletedIsComplete`, `WaitsForResponse`: the loop of a round misses no response, and
  does not wait for one that cannot come as long as the server answers in full.
- `OneByOne`: each selected message is taken at most once in a round, and filed before the
  next one is taken.
- `WholeAtExit`: a regular exit leaves two whole files, whichever autosave has failed.
- `WritersDoNotMix`: the pieces of two commands mix on the line only after the server has
  refused a literal or the reader has failed, although any untagged OK lets a writer go on.
- `SuccessIsServed`: a command returns without an error only if the server said OK to it.
- `SameNameInTurn`: the server gets a second command of a name only after the first one is
  answered or given up.
- `LeftIsClosed`: a session that is left has closed its connection and seen the end of its
  reader, unless `__aenter__` or LOGOUT itself has raised.
- `CommandsEnd`: a session that is being left comes to its end, and so does every command
  unless the client is stalled (a silent server, a connection at its end, a failed reader).
- `AnswersFit`, `ScrapeIsAMoment`: a scrape shows all label sets as they were after some
  number of whole events between the request and the answer, and its numbers fit together.
- `EveryRowCounts`: as long as nothing has raised, the counters add up to the rows that are
  written in the messages, those of 2.0 documents with unknown elements excepted: no parser
  reads them, and none is counted (`ReportsAreSupported` is violated by them). What is written is taken from the
  message and not from what the parsers make of it.
- `RaisesForCause`: `process_email` raises for exactly the messages that hold, anywhere in
  their parts, payloads and records, a disposition that does not map, a count that is text,
  a payload that is no report, or a part without a handler.
- `RequestsAreAnswered`, `ServerCloses`: no exception keeps the lock; a scrape is answered,
  and a server that is closed meanwhile ends.

### Bounds

The clock (`MaxTime`) needs one tick more than the TTL in `expiring_set`, so that an
entry can be added, expire and be added again; in `app_duplicates` a report can be
counted at 0 and again at 2, and be met at 1 when it must be suppressed. Two messages
are enough for the same report to arrive twice and for one message to be flagged while
another is expunged. One crash or cancellation and one fault give two interruptions of
any two kinds at any two points: a round aborted between COPY and STORE and a crash before
the next save, an autosave that fails and ends the process and a crash of the next one. That
a third one adds nothing is not a claim of the run but of the theorems, which hold for
every number of them. The liveness run needs no
clock, since expiry is not what progress depends on. Three messages in `ImapQueue` are
one taken, one queued and one not yet sent; three faults let a second FETCH fail after a
spoiled round. In `ImapClient` two commands of the user besides CAPABILITY,
LOGIN (two literals) and LOGOUT give two commands under way at any two points, one in its
literal and one waiting for the lock, the name or an answer; one fault at any point is
enough to leave a writer behind or to end the reader, and a refused literal is not counted
as a fault. In `Exporter` the inboxes vary one thing at a time over every value of every
field, and combine parts, payloads and records of every kind; the second message shows
what the first has left behind. One scrape at a time is enough for the safety properties,
since scrapes exclude each other. The theorems do away with these bounds for the
properties they are about.

### Fairness

- Poll task, handler and saves of `App` get strong fairness: asyncio runs every ready
  callback before it looks at the timers again, so neither coroutine can starve the
  other, although each disables the other now and then.
- Starting (`Start`, `StartFails`) is weakly fair: a supervisor restarts the process
  (`config/dmarc-metrics-exporter.service`, `README.rst:268`).
- Nothing is assumed of mail, faults, crashes, cancellations and the clock; they are
  bounded, so that what follows the last of them must make progress.
- In `ImapQueue` the poll task and the fetch task run when they can, and a FETCH goes on
  or fails, because `_command` gives up after `timeout_seconds` of silence
  (`imap_client.py:259-269`).

- In `ImapClient` the tasks of the client and a server that is not silent go on. One
  weak condition for all tasks is enough, since none of them repeats anything: a session
  has finitely many steps. Timeouts are among these steps, so that a command that waits in
  the loop of line 259 gives up in the end.
- In `Exporter` `process_email` and each scrape get strong fairness: who waits for a lock
  that is released again and again gets it in the end. Nothing forces a request, a message
  or the end of the server.

Nothing forces a poll task that hangs, or a command that waits for the continuation of a
literal: `EventuallyFiled`, `StopsInTheEnd`, `RoundEnds`, `StopReturns` and `CommandsEnd`
exempt them (`hung`, `stalled`), and `RoundEnds` and `StopReturns` also a server that does not
answer a FETCH in full (`spoiled`). That the code does hang there is what `imap_queue_hang` and
`imap_client_hang` show. `EventuallyFiled` also exempts an exporter that finds a torn file: it
never starts again, unless somebody removes the file, which is not modelled. Faults are
finite in number, so that `EventuallyFiled` says nothing of a message whose move is refused
for ever: it aborts every round at the same place, and the messages behind it wait.

## What the violated runs show

1. `app_shutdown`: the final save (`app.py:116`) precedes `stop_consumer` (`app.py:117`);
   what the round under way counts after it is archived and lost.
2. `app_died_between`: metrics and seen reports are two files (`app.py:121-123`); a crash
   between them makes a report count twice.
3. `app_failed_report`: an id is remembered (`app.py:135`) before the report is converted;
   after a failure the corrected report is taken for a duplicate and archived.
4. `imap_queue_hang`: the untimed `get` (`imap_queue.py:85`) outlives a FETCH that fails;
   the round and `stop_consumer` never end.
5. `imap_client_hang`: the wait for the continuation of a literal (`imap_client.py:115`) has
   no timeout, and at a clean end of the stream nothing fails the command: it never ends,
   and it holds the command lock.
6. `exporter_schema`, two ways in which 2.0 reports are not supported. `_map_disposition`
   (`deserialization.py:101`) does not know the disposition `pass`: such a report goes to the
   error folder. That is the trace TLC stops at. With `-continue` it reports in addition the
   2.0 reports with an unknown element: the strict parser refuses them, and they come out
   empty from the lenient one (`deserialization.py:86-89`), which only knows 0.1; their rows
   are lost and their messages archived.

## What is proved

From the assumptions in the modules only (`TTL` a natural number; the special values
distinct, neither numbers nor names, and `None` no disposition; `Parts` a sequence of
payloads for each message; `Inboxes` a set of sequences of messages), for any messages,
reports, TTL and bounds:

- `ExpiringSetProofs`: `TypeCorrect`; `NoKeyError`; `Implementation`. The first two hold
  for `SteppedSpec`, that is for any clock. The invariant behind `NoKeyError` (`SetInv`)
  says that the queue holds each item of the set exactly once, that a pending `add` is of
  an item that is not in the set, and the same of the file and of a `load` under way;
  `NeverRaises` alone is not inductive, because the step that raises comes long after the
  one that spoils the queue. The refinement needs in addition that queue and file are
  ordered by time and never ahead of the clock (`TimeInv`), which is what makes looking
  at the head of the queue enough; this is where a clock that goes back would break it.
- `AppProofs`: `TypeCorrect`; `NothingDropped`, from the invariant that what is flagged
  has been copied, and what is about to be flagged too (`MailInv`); `CountedOnlyOnce`,
  `SuppressedIsCounted` and `FileOnlyGrows` (the latter over `stored`, since the file itself
  is empty while it is written, and may stay so after a crash), from `CountInv`: metrics extend the file
  they were loaded from, every remembered report is backed by a count of its time, every
  count younger than the TTL is remembered, contributions are TTL apart, and each of
  these also for the files with the lag between them; `FiledIsCounted`, from `HandledInv`:
  what the handler has passed is accounted for; `ExitsWhole`, from how far a save has come in
  mending its files (`MendedSoFar`); `ImplementsRound`, step by step, with the fact that
  nothing is selected outside of a round.
- `ImapQueueProofs`: `TypeCorrect`; `CompletedRoundIsComplete` and `NeverWaitsInVain`, for an
  inbox of any size, from an invariant that splits the messages of the inbox into handled,
  current, queued and not yet sent ones, and knows for each point of the loop what the test
  of line 84 has seen; `ImplementsRound` from the same invariant.
- `ExporterProofs`: `TypeCorrect` and `WholeEvents`, for any inboxes and any number of
  scrapes at the same time. That answers fit is inductive only together with what holds the
  lock: while the event loop does, the counters of one label set are those of a whole
  number of events plus the steps of the current one that are done; while it does not, every
  label set fits (`SettledFit`); a scrape that reads holds the lock, so that what it has
  read so far fits too (`SeenFit`). `EveryScrapeIsAMoment` says more, from `MomentInv`: what
  a counter is, and what the update under way still has to add to it, is the sum over the
  events counted so far and the one under way (`Tallied`, `InvalidTallied`); each of these
  events has its labels (`Known`); what a scrape has read is what the metrics still are
  (`SeenIsNow`); and it was requested after no more events than there are now (`Earlier`).
- `RowProofs`: `EveryRowIsCounted` (with the exception that `EveryRowCounts` states), from
  `RowInv`: the walk of `process_email` is at a place
  in the inbox, given by how much has been taken of its message, part and report (`Walk`);
  the counters, as they will be when the update under way is through, add up to the rows
  behind that place (`RowsAddUp`), and the invalid messages to those without a payload
  (`InvalidAddUp`). The property alone speaks of the moments between two messages; the place
  is what connects them. An update that is about to raise is left out (`Doomed`), since its
  row is behind the place and never counted. `OnlyTroubleRaises`, from `RaiseInv`: as long as
  a message is walked through, it has something that raises if and only if what is left of
  it has (`TroubleAhead`).
- `SumProofs`: the community module defines `SumFunction` by a recursion that takes the
  elements of a set in an order of its own. `SumChosen` shows that the order does not matter,
  and `SumSame`, `SumAdd`, `SumGain` what a sum does when its numbers stay, an element comes,
  or one number grows, which is all that the proofs above need. The induction over finite
  subsets is done by hand: a set of counterexamples has one with the fewest elements.
- `ImapClientProofs`: `TypeCorrect`; `LeavingCloses`; `SuccessTold`; `SameNameOrdered`;
  `NoMixing`, for any sessions, that is any commands at the same time, and any number of
  faults. The invariant (`IInv`) has these parts: a writer exists once its command has the
  lock (`WriterInv`); each name and the lock have one holder (`HoldersInv`); the session ends
  in its order, and LOGOUT comes when nothing but a FETCH is under way (`SessionInv`); each
  piece is sent once and each command decided once (`SentInv`), so that what the server has
  told a command never changes and every answer is the server's (`AnswerInv`). That pieces do
  not mix needs the order of what is on the line (`LineInv`): a command that has begun and
  not ended is the last on the line and still holds the lock. A tagged answer in the middle
  of a command would end that, which is why the theorem speaks only of the time before a
  literal is refused or the reader ends; the one command that gives up the lock by itself,
  LOGOUT at its timeout, has only one piece.

Every safety and action property that a passing run checks is also stated by a theorem.
Only model-checked: the liveness properties `EventuallyFiled`, `StopsInTheEnd`, `RoundEnds`,
`StopReturns`, `CommandsEnd`, `RequestsAreAnswered` and `ServerCloses`, which need fairness
and are outside the reach of the prover.

## What is not modelled

- The grammar of IMAP responses: byte strings without a state. `ImapClient` has the kinds of
  responses that the reader tells apart.
- In `ImapClient`: the texts of CAPABILITY and EXISTS (`App` chooses whether there is MOVE,
  `ImapQueue` how many messages there are), `fetched_queue` (in `ImapQueue`), and the order
  of the commands of `create_if_not_exists` and `uid_move_graceful` (the latter is in `App`).
- Of the report classes the fields that nothing reads. Negative counts.
- What xsdata, `zipfile`, `gzip` and `email` do to bytes; their outcomes are in `Reports`.
- A server that cannot be started, and the exposition format: an invalid message without a
  sender has the label `None`.
- File contents are atomic values that are whole or torn; the pickle and JSON formats, their
  versions and the old format are left out.
- Logging, argument parsing and deployment.
- Optional settings `main` never passes (no file of seen reports, no autosave).

## Plan

In the order of importance; all but the last are done.

1. `TimedEntries`, `ReportMemory`, `ExpiringSet` and the refinement between them.
2. `Mailbox`, `App`: the composition, its safety and liveness.
3. `ExpiringSetProofs`, `AppProofs`.
4. `ImapQueue`: the inside of a round; `Round`, and `ImapQueueProofs`.
5. `ImapClient`: commands, writers, reader, connect and close; `ImapClientProofs`.
6. `Reports`, `Exporter`: extraction, conversion, counters and scrapes; `SumProofs`,
   `ExporterProofs`, `RowProofs`.
7. A composition of `ImapClient` and `ImapQueue`: that the assumption of `ImapQueue` about
   the order of the end of the FETCH and the answer to a move follows from the client.
