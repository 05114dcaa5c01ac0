--------------------------------- MODULE App ---------------------------------
(***************************************************************************)
(* The exporter as a whole: App (app.py), the poll task of ImapQueue       *)
(* (imap_queue.py), the mailbox it works on and the two files that survive *)
(* a restart.  The main coroutine and the poll task share one event loop:  *)
(* whatever runs between two awaits is not interrupted by the other one.   *)
(* process_email and _save_metrics contain no await, so the main coroutine *)
(* takes no step while a message is handled, and the poll task takes none  *)
(* while the files are written; only the clock, the mailbox and the death  *)
(* of the process can come in between.                                     *)
(*                                                                         *)
(* The deduplication set is the plain memory of ReportMemory, which        *)
(* ExpiringSet is shown to implement: entries vanish when they expire.     *)
(***************************************************************************)
EXTENDS Mailbox, TimedEntries, Sequences

CONSTANTS Parts,       \* the payloads of each message, in the order of msg.walk()
          Anonymous,   \* a report without org_name or report_id
          Invalid,     \* the key of the invalid report counter
          NoMsg,       \* no message is being processed
          MaxTime,     \* bound on the clock
          MaxStops,    \* how often the process may end, in whatever way
          MaxFaults    \* how often an IMAP round or a write may fail or not come back

ASSUME KeyAssumption ==
    Anonymous \notin Item /\ Invalid \notin Item /\ Anonymous # Invalid /\ NoMsg \notin Msg

\* "empty" is a container without a payload, such as a ZIP file without entries.
Outcome == {"ok", "unparseable", "unconvertible", "empty"}

Part == [id : Item \cup {Anonymous}, outcome : Outcome]

ASSUME PartsAssumption == Parts \in [Msg -> Seq(Part)]
ASSUME BoundAssumption == MaxTime \in Nat /\ MaxStops \in Nat /\ MaxFaults \in Nat

VARIABLES
    now,          \* the clock
    canMove,      \* whether the server announces the capability MOVE
    main,         \* where the main coroutine is, or that there is no process
    closing,      \* whether the save under way is the one of the finally block
    poll,         \* where the poll task is
    hung,         \* whether it waits there for something that does not come any more
    batch,        \* the messages selected and not yet processed in this round
    cur,          \* the message being processed
    part,         \* its next payload
    dest,         \* the folder it goes to
    metrics,      \* for each key of the metrics the times at which it was counted
    seen,         \* App._seen_reports
    fileMetrics,  \* metrics.db, empty from the moment it is opened for writing
    fileSeen,     \* seen-reports.db, likewise
    torn,         \* the files that are truncated or written only in part
    stored,       \* history: the contents of metrics.db when it was last whole
    seenLags,     \* history: metrics.db is from a later save than seen-reports.db
    lagged,       \* history: a process has ended while seenLags
    stops, faults \* what has been used of MaxStops and MaxFaults

pollVars == <<poll, hung, batch, cur, part, dest>>
memoryVars == <<metrics, seen>>
fileVars == <<fileMetrics, fileSeen, torn, stored, seenLags>>
mainVars == <<main, closing>>
countVars == <<lagged, stops, faults>>
vars == <<now, canMove, mailVars, mainVars, pollVars, memoryVars, fileVars, countVars>>

Key == Item \cup {Anonymous, Invalid}

File == {"metrics.db", "seen-reports.db"}

Saving == {"metrics_open", "metrics_saved", "seen_open"}

\* The event loop is there and does not run the main coroutine.
LoopFree == main \in {"up", "closing", "stopping"}

Running == LoopFree \/ main \in Saving

Counted(k) == {metrics[k][i] : i \in DOMAIN metrics[k]}

FileCounted(k) == {fileMetrics[k][i] : i \in DOMAIN fileMetrics[k]}

Remembered(id) == \E e \in seen : e.item = id

\* Types: a message is in the inbox or filed only after it has arrived, and one is being
\* processed while the poll task handles or files it.
TypeOK ==
    /\ MailTypeOK
    /\ now \in Nat
    /\ canMove \in BOOLEAN
    /\ main \in Saving \cup {"down", "up", "closing", "stopping", "exited", "broken"}
    /\ closing \in BOOLEAN
    /\ poll \in {"sleep", "next", "handle", "file", "store", "expunge", "ended"}
    /\ hung \in BOOLEAN
    /\ batch \subseteq arrived
    /\ cur \in arrived \cup {NoMsg}
    /\ (poll \in {"handle", "file", "store"}) => cur \in arrived
    /\ part \in Nat \ {0}
    /\ dest \in Folder
    /\ metrics \in [Key -> Seq(Nat)]
    /\ seen \subseteq Entry
    /\ fileMetrics \in [Key -> Seq(Nat)]
    /\ fileSeen \subseteq Entry
    /\ torn \subseteq File
    /\ stored \in [Key -> Seq(Nat)]
    /\ seenLags \in BOOLEAN
    /\ lagged \in BOOLEAN
    /\ stops \in Nat
    /\ faults \in Nat

Init ==
    /\ MailInit
    /\ now = 0
    /\ canMove \in BOOLEAN
    /\ main = "down"
    /\ closing = FALSE
    /\ poll = "sleep"
    /\ hung = FALSE
    /\ batch = {}
    /\ cur = NoMsg
    /\ part = 1
    /\ dest = "done"
    /\ metrics = [k \in Key |-> <<>>]
    /\ seen = {}
    /\ fileMetrics = [k \in Key |-> <<>>]
    /\ fileSeen = {}
    /\ torn = {}
    /\ stored = fileMetrics
    /\ seenLags = FALSE
    /\ lagged = FALSE
    /\ stops = 0
    /\ faults = 0

-----------------------------------------------------------------------------
(* The environment: time passes and mail arrives. *)

Tick ==
    /\ now < MaxTime
    /\ now' = now + 1
    /\ seen' = Live(seen, now')
    /\ UNCHANGED <<canMove, mailVars, mainVars, pollVars, metrics, fileVars, countVars>>

Arrive(m) ==
    /\ Deliver(m)
    /\ UNCHANGED <<now, canMove, mainVars, pollVars, memoryVars, fileVars, countVars>>

-----------------------------------------------------------------------------
(* App.process_email, once for each message.  A generator yields the reports *)
(* of a message one after the other, so that what precedes a payload which   *)
(* cannot be parsed has been counted.                                        *)

HandlerStep ==
    /\ poll = "handle"
    /\ LoopFree
    /\ UNCHANGED <<now, canMove, mailVars, mainVars, fileVars, countVars, hung, batch, cur>>

\* The next payload has the given outcome, if the handler gets to look at it.
PartIs(outcome) ==
    /\ part <= Len(Parts[cur])
    /\ Parts[cur][part].outcome = outcome

PartId == Parts[cur][part].id

Duplicate == PartId \in Item /\ Remembered(PartId)

Count(k) == [metrics EXCEPT ![k] = Append(@, now)]

Remember(id) == IF id \in Item THEN Live(seen \cup {[item |-> id, at |-> now]}, now)
                               ELSE seen

NextPart == part' = part + 1 /\ UNCHANGED <<poll, dest>>

FileInto(folder) == poll' = "file" /\ dest' = folder /\ UNCHANGED part

\* Variant: `return` for `continue`.
SkipDuplicateReturns ==
    /\ HandlerStep
    /\ PartIs("ok") \/ PartIs("unconvertible")
    /\ Duplicate
    /\ part' = Len(Parts[cur]) + 1
    /\ UNCHANGED <<poll, dest, memoryVars>>

SkipDuplicate ==
    /\ HandlerStep
    /\ PartIs("ok") \/ PartIs("unconvertible")
    /\ Duplicate
    /\ NextPart
    /\ UNCHANGED memoryVars

CountReport ==
    /\ HandlerStep
    /\ PartIs("ok")
    /\ ~Duplicate
    /\ seen' = Remember(PartId)
    /\ metrics' = Count(PartId)
    /\ NextPart

\* convert_to_events raises at some row; the rows before it have been counted.
RaiseInConversion ==
    /\ HandlerStep
    /\ PartIs("unconvertible")
    /\ ~Duplicate
    /\ seen' = Remember(PartId)
    /\ metrics' \in {metrics, Count(PartId)}
    /\ FileInto("error")

SkipEmpty ==
    /\ HandlerStep
    /\ PartIs("empty")
    /\ NextPart
    /\ UNCHANGED memoryVars

RaiseInParser ==
    /\ HandlerStep
    /\ PartIs("unparseable")
    /\ FileInto("error")
    /\ UNCHANGED memoryVars

\* A message without any payload is counted as invalid; that raises nothing.
HandlerReturns ==
    /\ HandlerStep
    /\ part > Len(Parts[cur])
    /\ metrics' = IF Parts[cur] = <<>> THEN Count(Invalid) ELSE metrics
    /\ FileInto("done")
    /\ UNCHANGED seen

ProcessEmail ==
    SkipDuplicate \/ CountReport \/ RaiseInConversion \/ SkipEmpty \/ RaiseInParser
        \/ HandlerReturns

-----------------------------------------------------------------------------
(* A round of the poll task: select the inbox, then handle and file each *)
(* message.  Each of these steps ends in an await.                       *)

PollStep ==
    /\ LoopFree
    /\ ~hung
    /\ UNCHANGED <<now, canMove, hung, mainVars, memoryVars, fileVars>>

RoundBegin ==
    /\ poll = "sleep"
    /\ main # "stopping"
    /\ PollStep
    /\ poll' = "next"
    /\ batch' = inbox
    /\ UNCHANGED <<mailVars, cur, part, dest, countVars>>

\* Variant: the message taken is not crossed off.
TakeMessageAgain(m) ==
    /\ poll = "next"
    /\ PollStep
    /\ m \in batch
    /\ poll' = "handle"
    /\ cur' = m
    /\ part' = 1
    /\ UNCHANGED <<mailVars, batch, dest, countVars>>

\* Variant: payloads are counted from zero.
TakeMessageFromZero(m) ==
    /\ poll = "next"
    /\ PollStep
    /\ m \in batch
    /\ poll' = "handle"
    /\ batch' = batch \ {m}
    /\ cur' = m
    /\ part' = 0
    /\ UNCHANGED <<mailVars, dest, countVars>>

TakeMessage(m) ==
    /\ poll = "next"
    /\ PollStep
    /\ m \in batch
    /\ poll' = "handle"
    /\ batch' = batch \ {m}
    /\ cur' = m
    /\ part' = 1
    /\ UNCHANGED <<mailVars, dest, countVars>>

RoundEnd ==
    /\ poll = "next"
    /\ PollStep
    /\ batch = {}
    /\ poll' = "sleep"
    /\ UNCHANGED <<mailVars, batch, cur, part, dest, countVars>>

\* uid_move_graceful with the capability MOVE
Move ==
    /\ poll = "file"
    /\ PollStep
    /\ canMove
    /\ UidMove(cur, dest)
    /\ poll' = "next"
    /\ UNCHANGED <<batch, cur, part, dest, countVars>>

\* Variant: whether the copy succeeded is not looked at.
CopyUnchecked ==
    /\ poll = "file"
    /\ PollStep
    /\ ~canMove
    /\ UidCopy(cur, dest) \/ UNCHANGED mailVars
    /\ poll' = "store"
    /\ UNCHANGED <<batch, cur, part, dest, countVars>>

\* uid_move_graceful without it: three commands
Copy ==
    /\ poll = "file"
    /\ PollStep
    /\ ~canMove
    /\ UidCopy(cur, dest)
    /\ poll' = "store"
    /\ UNCHANGED <<batch, cur, part, dest, countVars>>

Store ==
    /\ poll = "store"
    /\ PollStep
    /\ UidStoreDeleted(cur)
    /\ poll' = "expunge"
    /\ UNCHANGED <<batch, cur, part, dest, countVars>>

ExpungeFlagged ==
    /\ poll = "expunge"
    /\ PollStep
    /\ Expunge
    /\ poll' = "next"
    /\ UNCHANGED <<batch, cur, part, dest, countVars>>

\* Variant: the exception ends the poll task.
RoundAbortEnds ==
    /\ poll \in {"next", "file", "store", "expunge"}
    /\ PollStep
    /\ faults < MaxFaults
    /\ faults' = faults + 1
    /\ poll' = "ended"
    /\ batch' = {}
    /\ UNCHANGED <<mailVars, cur, part, dest, lagged, stops>>

\* The poll task waits for ever where a wait has no timeout: for the continuation of a
\* literal (the names in LOGIN, CREATE, SELECT, COPY and MOVE), or for the next response
\* after the FETCH has failed.  STORE and EXPUNGE contain no literal.
RoundHangs ==
    /\ LoopFree
    /\ ~hung
    /\ \/ poll = "sleep" /\ main # "stopping"
       \/ poll \in {"next", "file"}
    /\ faults < MaxFaults
    /\ faults' = faults + 1
    /\ hung' = TRUE
    /\ UNCHANGED <<now, canMove, mailVars, mainVars, poll, batch, cur, part, dest,
                   memoryVars, fileVars, lagged, stops>>

\* A command is refused, times out or loses its connection, before or after the
\* server has carried it out: the exception ends the round, not the task.
RoundAbort ==
    /\ poll \in {"next", "file", "store", "expunge"}
    /\ PollStep
    /\ faults < MaxFaults
    /\ faults' = faults + 1
    /\ poll' = "sleep"
    /\ batch' = {}
    /\ UNCHANGED <<mailVars, cur, part, dest, lagged, stops>>

\* Variant: the poll task ends only when there is nothing left to do.
PollEndWhenDrained ==
    /\ poll = "sleep"
    /\ main = "stopping"
    /\ inbox = {}
    /\ PollStep
    /\ poll' = "ended"
    /\ UNCHANGED <<mailVars, batch, cur, part, dest, countVars>>

PollEnd ==
    /\ poll = "sleep"
    /\ main = "stopping"
    /\ PollStep
    /\ poll' = "ended"
    /\ UNCHANGED <<mailVars, batch, cur, part, dest, countVars>>

Poll ==
    \/ RoundBegin
    \/ \E m \in Msg : TakeMessage(m)
    \/ RoundEnd
    \/ Move \/ Copy \/ Store \/ ExpungeFlagged
    \/ PollEnd

-----------------------------------------------------------------------------
(* _save_metrics: two files, each truncated by open and then written. *)

SaveStep ==
    /\ poll # "handle"
    /\ UNCHANGED <<now, canMove, mailVars, pollVars, memoryVars, countVars>>

\* The timer of the autosave has run out, or the finally block is entered; open("w")
\* leaves nothing of what the file has held.
SaveBegin ==
    /\ main \in {"up", "closing"}
    /\ SaveStep
    /\ main' = "metrics_open"
    /\ closing' = (main = "closing")
    /\ torn' = torn \cup {"metrics.db"}
    /\ fileMetrics' = [k \in Key |-> <<>>]
    /\ UNCHANGED <<fileSeen, stored, seenLags>>

SaveMetrics ==
    /\ main = "metrics_open"
    /\ SaveStep
    /\ main' = "metrics_saved"
    /\ fileMetrics' = metrics
    /\ torn' = torn \ {"metrics.db"}
    /\ stored' = metrics
    /\ seenLags' = TRUE
    /\ UNCHANGED <<closing, fileSeen>>

OpenSeen ==
    /\ main = "metrics_saved"
    /\ SaveStep
    /\ main' = "seen_open"
    /\ torn' = torn \cup {"seen-reports.db"}
    /\ fileSeen' = {}
    /\ UNCHANGED <<closing, fileMetrics, stored, seenLags>>

SaveSeen ==
    /\ main = "seen_open"
    /\ SaveStep
    /\ main' = IF closing THEN "stopping" ELSE "up"
    /\ fileSeen' = seen
    /\ torn' = torn \ {"seen-reports.db"}
    /\ seenLags' = FALSE
    /\ UNCHANGED <<closing, fileMetrics, stored>>

\* Variant: the deduplication set is stored before the metrics.
SaveSeenFirst ==
    /\ SaveStep
    /\ \/ /\ main \in {"up", "closing"}
          /\ main' = "metrics_saved"
          /\ closing' = (main = "closing")
          /\ fileSeen' = seen
          /\ UNCHANGED <<fileMetrics, stored, torn, seenLags>>
       \/ /\ main = "metrics_saved"
          /\ main' = IF closing THEN "stopping" ELSE "up"
          /\ fileMetrics' = metrics
          /\ stored' = metrics
          /\ UNCHANGED <<closing, fileSeen, torn, seenLags>>

Save == SaveBegin \/ SaveMetrics \/ OpenSeen \/ SaveSeen

-----------------------------------------------------------------------------
(* The beginning and the end of the process. *)

\* Variant: the deduplication set starts empty.
StartForgetful ==
    /\ main \in {"down", "exited"}
    /\ torn = {}
    /\ main' = "up"
    /\ metrics' = fileMetrics
    /\ seen' = {}
    /\ UNCHANGED <<now, canMove, mailVars, closing, pollVars, fileVars, countVars>>

\* Variant: a file that cannot be parsed is taken for one that is missing.
StartFromTorn ==
    /\ main \in {"down", "exited"}
    /\ main' = "up"
    /\ metrics' = fileMetrics
    /\ seen' = Live(fileSeen, now)
    /\ UNCHANGED <<now, canMove, mailVars, closing, pollVars, fileVars, countVars>>

Start ==
    /\ main \in {"down", "exited"}
    /\ torn = {}
    /\ main' = "up"
    /\ metrics' = fileMetrics
    /\ seen' = Live(fileSeen, now)
    /\ UNCHANGED <<now, canMove, mailVars, closing, pollVars, fileVars, countVars>>

\* json.load and pickle.load raise for a file that was not written to its end.
StartFails ==
    /\ main \in {"down", "exited"}
    /\ torn # {}
    /\ main' = "broken"
    /\ UNCHANGED <<now, canMove, mailVars, closing, pollVars, memoryVars, fileVars, countVars>>

\* The main task is cancelled (asyncio.run does so on SIGINT) and leaves
\* start_server, which awaits the end of the HTTP server.
Cancel ==
    /\ main = "up"
    /\ stops < MaxStops
    /\ poll # "handle"
    /\ main' = "closing"
    /\ stops' = stops + 1
    /\ UNCHANGED <<now, canMove, mailVars, closing, pollVars, memoryVars, fileVars, lagged, faults>>

\* What a process leaves behind in whatever way it ends.
ProcessEnds ==
    /\ closing' = FALSE
    /\ poll' = "sleep"
    /\ hung' = FALSE
    /\ batch' = {}
    /\ cur' = NoMsg
    /\ part' = 1
    /\ dest' = "done"
    /\ metrics' = [k \in Key |-> <<>>]
    /\ seen' = {}
    /\ lagged' = (lagged \/ seenLags)
    /\ seenLags' = FALSE
    /\ UNCHANGED <<now, canMove, mailVars, fileMetrics, fileSeen, torn, stored>>

\* stop_consumer returns: the poll task has ended and the files are closed.
Exit ==
    /\ main = "stopping"
    /\ poll = "ended"
    /\ main' = "exited"
    /\ ProcessEnds
    /\ UNCHANGED <<stops, faults>>

Crash ==
    /\ Running
    /\ stops < MaxStops
    /\ main' = "down"
    /\ stops' = stops + 1
    /\ ProcessEnds
    /\ UNCHANGED faults

\* Variant: an autosave that raises ends the process without a final save.
AutosaveEndsProcess ==
    /\ main \in Saving \cup {"up"}
    /\ ~closing
    /\ poll # "handle"
    /\ faults < MaxFaults
    /\ main' = "stopping"
    /\ faults' = faults + 1
    /\ UNCHANGED <<now, canMove, mailVars, closing, pollVars, memoryVars, fileVars, lagged, stops>>

\* An autosave that raises (the disk is full) takes the way of a cancellation;
\* open may raise before it has truncated the file.
AutosaveRaises ==
    /\ main \in Saving \cup {"up"}
    /\ ~closing
    /\ poll # "handle"
    /\ faults < MaxFaults
    /\ main' = "closing"
    /\ faults' = faults + 1
    /\ UNCHANGED <<now, canMove, mailVars, closing, pollVars, memoryVars, fileVars, lagged, stops>>

\* In the finally block there is no further one: stop_consumer is not called.
LastSaveRaises ==
    /\ main = "closing" \/ (main \in Saving /\ closing)
    /\ poll # "handle"
    /\ faults < MaxFaults
    /\ main' = "down"
    /\ faults' = faults + 1
    /\ ProcessEnds
    /\ UNCHANGED stops

Lifecycle == Start \/ StartFails \/ Cancel \/ Exit \/ Crash \/ AutosaveRaises \/ LastSaveRaises

-----------------------------------------------------------------------------
Next ==
    \/ Tick
    \/ \E m \in Msg : Arrive(m)
    \/ ProcessEmail
    \/ Poll
    \/ RoundAbort
    \/ RoundHangs
    \/ Save
    \/ Lifecycle

Spec == Init /\ [][Next]_vars

(***************************************************************************)
(* asyncio runs every callback that is ready before it looks at the timers *)
(* again, so an autosave cannot keep the poll task from its next step, nor *)
(* a message the main coroutine from its own: both get strong fairness.    *)
(* A supervisor starts the process again (README.rst:268).  Nothing forces *)
(* a crash, a fault, a cancellation, mail, or the clock; and a round that  *)
(* hangs has no step left that fairness could ask for.                     *)
(***************************************************************************)
Fairness ==
    /\ SF_vars(ProcessEmail)
    /\ SF_vars(Poll)
    /\ SF_vars(Save)
    /\ WF_vars(Start)
    /\ WF_vars(StartFails)
    /\ WF_vars(Exit)

FairSpec == Spec /\ Fairness

-----------------------------------------------------------------------------
(* Properties *)

(***************************************************************************)
(* No message is lost: whatever the interleaving of copy, store and        *)
(* expunge with failing commands, restarts and other messages, a message   *)
(* that has left the inbox is in the archive or in the error folder.       *)
(* EXPUNGE removes every flagged message, those of earlier and of aborted  *)
(* rounds included (imap_client.py:369-371).                               *)
(***************************************************************************)
NeverDropped == arrived \subseteq inbox \cup filed["done"] \cup filed["error"]

(***************************************************************************)
(* A report is counted at most once per TTL: two contributions of the same *)
(* (org_name, report_id) to the metrics are at least TTL apart, whichever  *)
(* messages carry it and however often they are processed again, also      *)
(* across restarts, unless a process died between the two files of a save  *)
(* (app.py:121-123).                                                       *)
(***************************************************************************)
CountedOnce ==
    \A id \in Item : \A i, j \in DOMAIN metrics[id] :
        i < j /\ ~lagged => metrics[id][j] - metrics[id][i] >= TTL

\* Every message that carries the report lets it be converted.
Convertible(id) ==
    \A m \in Msg : \A i \in DOMAIN Parts[m] :
        Parts[m][i].id = id => Parts[m][i].outcome # "unconvertible"

(***************************************************************************)
(* A report is only suppressed as a duplicate if it has been counted: what *)
(* a running process remembers is in its metrics, and what the next        *)
(* process will remember, if it finds two whole files, is in the metrics   *)
(* it will load.  This rests on the order of the two files in              *)
(* _save_metrics (app.py:119-123) and on the absence of an await between   *)
(* add and update (app.py:135-140).                                        *)
(***************************************************************************)
SuppressedOnlyIfCounted ==
    /\ \A e \in seen : Convertible(e.item) => e.at \in Counted(e.item)
    /\ \A e \in fileSeen :
          torn = {} /\ Convertible(e.item) => e.at \in FileCounted(e.item)

MustCount(p) == p.outcome = "ok" /\ (p.id \in Item => Convertible(p.id))

Accounted(p) == MustCount(p) => metrics[p.id] # <<>>

(***************************************************************************)
(* The archive only receives messages the metrics account for: at the      *)
(* moment a message gets into the folder "done", each of its reports is in *)
(* the metrics, those skipped as duplicates and those without an id        *)
(* included, unless some message has the report in a form that cannot be   *)
(* converted (the finding ArchivedIsCounted).                              *)
(***************************************************************************)
FiledOnlyIfCounted ==
    [][\A m \in filed'["done"] \ filed["done"] :
          \A i \in DOMAIN Parts[m] : Accounted(Parts[m][i])]_vars

(***************************************************************************)
(* Persisted counts do not decrease, as a Prometheus counter must not: if  *)
(* metrics.db can be read, it has every contribution that it has ever had  *)
(* while it could be read, whatever failing saves, crashes and restarts    *)
(* came in between (app.py:105, 119-121).  This is not to say that what is *)
(* stored survives: a process that ends while the file is truncated        *)
(* (metrics_persister.py:52) leaves nothing of it.  But no later process   *)
(* continues from that as if nothing had ever been counted; none starts.   *)
(***************************************************************************)
FileGrows ==
    [][\A k \in Key : \A i \in DOMAIN stored[k] :
          "metrics.db" \notin torn'
              => i \in DOMAIN fileMetrics'[k] /\ fileMetrics'[k][i] = stored[k][i]]_vars

(***************************************************************************)
(* A regular exit leaves two whole files: an autosave that fails in the    *)
(* middle of one of them is made up for by the final save (app.py:115-116),*)
(* and the process only exits in the regular way after it.                 *)
(***************************************************************************)
WholeAtExit == main = "exited" => torn = {}

\* The round as Round has it.
Phase ==
    CASE poll \in {"sleep", "ended"} -> "idle"
      [] poll \in {"store", "expunge"} -> "file"
      [] OTHER -> poll

Rounds ==
    INSTANCE Round WITH
        Message <- Msg,
        NoMessage <- NoMsg,
        phase <- Phase,
        left <- batch,
        cur <- IF Phase \in {"handle", "file"} THEN cur ELSE NoMsg

(***************************************************************************)
(* The rounds of App are those that ImapQueue implements: each selected    *)
(* message is handled and filed before the next one is taken, and none is  *)
(* taken twice in a round, whatever saves, failures and ends of the        *)
(* process come in between (imap_queue.py:84-107).                         *)
(***************************************************************************)
OneByOne == Rounds!Spec

(***************************************************************************)
(* Every message that arrives is filed in the end, also if its handler     *)
(* raises each time (imap_queue.py:101-107), or a round is aborted.        *)
(* Exempt is an exporter that a torn file keeps from running (StartFails)  *)
(* and one with a round that hangs (the findings                           *)
(* NoDeadlock of ImapQueue and NoCommandHangs of ImapClient).  Commands    *)
(* fail a finite number of times: a message whose move is refused for ever *)
(* aborts every round at the same place, and those behind it wait with it. *)
(***************************************************************************)
EventuallyFiled ==
    \A m \in Msg :
        m \in inbox ~> m \in filed["done"] \cup filed["error"] \/ main = "broken" \/ hung

(***************************************************************************)
(* A cancelled exporter comes to an end unless a round hangs: the final    *)
(* save does not wait for the round under way, stop_consumer waits for its *)
(* end and for no later one, and a last save that fails ends the process   *)
(* as well (app.py:115-117, imap_queue.py:130-134).                        *)
(***************************************************************************)
StopsInTheEnd == main = "closing" ~> main \in {"exited", "down"} \/ hung

-----------------------------------------------------------------------------
(* What a doc or a test says of the program and the code does not do. *)

(***************************************************************************)
(* The metrics are stored on shutdown: when the process has ended in the   *)
(* regular way, everything it counted is in metrics.db                     *)
(* (tests/test_app.py:59).                                                 *)
(***************************************************************************)
StoredOnShutdown == [][main' = "exited" /\ main # "exited" => fileMetrics' = metrics]_vars

(***************************************************************************)
(* Duplicate reports are only counted once (CHANGELOG.rst:353) within the  *)
(* TTL, wherever the process died in between.                              *)
(***************************************************************************)
CountedOnceAlways ==
    \A id \in Item : \A i, j \in DOMAIN metrics[id] :
        i < j => metrics[id][j] - metrics[id][i] >= TTL

(***************************************************************************)
(* Successfully processed reports go to the folder "done", what could not  *)
(* be processed goes to "error" (README.rst:114-115): in a process that    *)
(* has not ended since, each report in the archive has been counted.       *)
(***************************************************************************)
ArchivedIsCounted ==
    \A m \in filed["done"] : \A i \in DOMAIN Parts[m] :
        stops = 0 => metrics[Parts[m][i].id] # <<>>
=============================================================================
