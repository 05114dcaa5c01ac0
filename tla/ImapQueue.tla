------------------------------ MODULE ImapQueue ------------------------------
(***************************************************************************)
(* The inside of a poll round: ImapQueue._poll_imap and                    *)
(* _process_new_messages (imap_queue.py).  Three parties take turns on the *)
(* event loop: the poll task, which takes responses from fetched_queue,    *)
(* handles and moves messages; the task of client.fetch; and the reader,   *)
(* which puts the FETCH responses of the server into the queue and wakes   *)
(* the fetch task when the tagged answer arrives.  App sees a round as a   *)
(* sequence of messages taken and filed; this module is about whether a    *)
(* round comes to its end.                                                 *)
(*                                                                         *)
(* The server answers the commands of one connection in their order, and   *)
(* asyncio wakes tasks first in, first out.  So the answer to a UID MOVE,  *)
(* sent while the FETCH is under way, is seen after the fetch task is done.*)
(***************************************************************************)
EXTENDS Naturals, Sequences

CONSTANTS MaxCount,   \* bound on the messages in the inbox
          MaxFaults,  \* bound on the misbehaviour of server and connection
          Faults      \* the kinds of misbehaviour that may occur

ASSUME BoundAssumption == MaxCount \in Nat /\ MaxFaults \in Nat
ASSUME FaultAssumption == Faults \subseteq {"select", "move", "stall", "fetch", "skip", "update"}

VARIABLES
    poll,      \* where the poll task is
    stop,      \* _stop is set
    count,     \* msg_count, what SELECT has reported
    sent,      \* how many responses to the FETCH the server has sent
    fetch,     \* the fetch task; "answered": the tagged answer is there, the task not done
    queue,     \* fetched_queue
    cur,       \* the response taken last
    offered,   \* the messages that got into the queue in this round
    handled,   \* the messages given to the handler in this round
    outcome,   \* how the last round ended
    faults,    \* what has been used of MaxFaults
    stalled,   \* the poll task waits for a continuation that never comes
    spoiled    \* history: a FETCH has failed, or was answered with too little or too much

roundVars == <<count, sent, fetch, queue, cur, offered, handled>>
vars == <<poll, stop, roundVars, outcome, faults, stalled, spoiled>>

\* A response without a UID or without the text of a message.
Bare == 0

FetchDone == fetch \in {"ok", "failed"}

\* Types: whatever is in the queue, sent, offered or handled is a message of this round.
TypeOK ==
    /\ poll \in {"sleep", "test", "get", "handle", "file", "await", "leave", "ended"}
    /\ stop \in BOOLEAN
    /\ count \in Nat
    /\ sent \in 0..count
    /\ fetch \in {"none", "pending", "answered", "ok", "failed"}
    /\ queue \in Seq(0..count)
    /\ cur \in 0..count
    /\ offered \subseteq 1..count
    /\ handled \subseteq offered
    /\ outcome \in {"none", "completed", "aborted"}
    /\ faults \in 0..MaxFaults
    /\ stalled \in BOOLEAN
    /\ spoiled \in BOOLEAN

\* Variant: the client is used again, with what is left in its queue.
NewRoundSameClient ==
    /\ count' = 0
    /\ sent' = 0
    /\ fetch' = "none"
    /\ cur' = Bare
    /\ offered' = {}
    /\ handled' = {}
    /\ UNCHANGED queue

NewRound ==
    /\ count' = 0
    /\ sent' = 0
    /\ fetch' = "none"
    /\ queue' = <<>>
    /\ cur' = Bare
    /\ offered' = {}
    /\ handled' = {}

Init ==
    /\ poll = "sleep"
    /\ stop = FALSE
    /\ count = 0
    /\ sent = 0
    /\ fetch = "none"
    /\ queue = <<>>
    /\ cur = Bare
    /\ offered = {}
    /\ handled = {}
    /\ outcome = "none"
    /\ faults = 0
    /\ stalled = FALSE
    /\ spoiled = FALSE

-----------------------------------------------------------------------------
(* The poll task *)

\* Variant: the loop does not look at _stop.
SelectAlways(n) ==
    /\ poll = "sleep"
    /\ ~stalled
    /\ count' = n
    /\ fetch' = IF n > 0 THEN "pending" ELSE "none"
    /\ poll' = IF n > 0 THEN "test" ELSE "leave"
    /\ outcome' = "completed"
    /\ UNCHANGED <<stop, sent, queue, cur, offered, handled, faults, stalled, spoiled>>

\* Connect, create the folders, select; then create the fetch task, if there is mail.
Select(n) ==
    /\ poll = "sleep"
    /\ ~stalled
    /\ ~stop
    /\ count' = n
    /\ fetch' = IF n > 0 THEN "pending" ELSE "none"
    /\ poll' = IF n > 0 THEN "test" ELSE "leave"
    /\ outcome' = "completed"
    /\ UNCHANGED <<stop, sent, queue, cur, offered, handled, faults, stalled, spoiled>>

Fault(kind) ==
    /\ kind \in Faults
    /\ faults < MaxFaults
    /\ faults' = faults + 1

\* A command up to the SELECT raises: it is refused or runs into its timeout, or the
\* reader fails and with it every command.
SelectFails ==
    /\ poll = "sleep"
    /\ ~stalled
    /\ ~stop
    /\ Fault("select")
    /\ poll' = "leave"
    /\ outcome' = "aborted"
    /\ UNCHANGED <<stop, roundVars, stalled, spoiled>>

\* LOGIN, CREATE or SELECT wait for the continuation of a literal, which has no timeout,
\* and no exception wakes them: the server is silent, or the stream has come to its end.
SelectStalls ==
    /\ poll = "sleep"
    /\ ~stop
    /\ ~stalled
    /\ Fault("stall")
    /\ stalled' = TRUE
    /\ UNCHANGED <<poll, stop, roundVars, outcome, spoiled>>

\* Variant: while not fetch_task.done()
TestFetchOnly ==
    /\ poll = "test"
    /\ poll' = IF ~FetchDone THEN "get" ELSE "await"
    /\ UNCHANGED <<stop, roundVars, outcome, faults, stalled, spoiled>>

\* Variant: while True
TestNothing ==
    /\ poll = "test"
    /\ poll' = "get"
    /\ UNCHANGED <<stop, roundVars, outcome, faults, stalled, spoiled>>

\* while not fetch_task.done() or not client.fetched_queue.empty()
Test ==
    /\ poll = "test"
    /\ poll' = IF ~FetchDone \/ queue # <<>> THEN "get" ELSE "await"
    /\ UNCHANGED <<stop, roundVars, outcome, faults, stalled, spoiled>>

\* Variant: the response stays in the queue.
Peek ==
    /\ poll = "get"
    /\ queue # <<>>
    /\ cur' = Head(queue)
    /\ poll' = IF Head(queue) = Bare THEN "test" ELSE "handle"
    /\ UNCHANGED <<stop, count, sent, fetch, queue, offered, handled, outcome, faults,
                   stalled, spoiled>>

\* await client.fetched_queue.get(), which has no timeout
Get ==
    /\ poll = "get"
    /\ queue # <<>>
    /\ cur' = Head(queue)
    /\ queue' = Tail(queue)
    /\ poll' = IF Head(queue) = Bare THEN "test" ELSE "handle"
    /\ UNCHANGED <<stop, count, sent, fetch, offered, handled, outcome, faults,
                   stalled, spoiled>>

\* The handler returns or raises; either way the message is moved.
Handle ==
    /\ poll = "handle"
    /\ handled' = handled \cup {cur}
    /\ poll' = "file"
    /\ UNCHANGED <<stop, count, sent, fetch, queue, cur, offered, outcome, faults,
                   stalled, spoiled>>

MoveReturns ==
    /\ poll = "file"
    /\ ~stalled
    /\ FetchDone
    /\ poll' = "test"
    /\ UNCHANGED <<stop, roundVars, outcome, faults, stalled, spoiled>>

\* As SelectFails: UID MOVE, or one of the commands that stand for it.
MoveFails ==
    /\ poll = "file"
    /\ ~stalled
    /\ Fault("move")
    /\ poll' = "leave"
    /\ outcome' = "aborted"
    /\ UNCHANGED <<stop, roundVars, stalled, spoiled>>

\* As SelectStalls: the literal is the folder that UID MOVE or UID COPY names.
MoveStalls ==
    /\ poll = "file"
    /\ ~stalled
    /\ Fault("stall")
    /\ stalled' = TRUE
    /\ UNCHANGED <<poll, stop, roundVars, outcome, spoiled>>

\* await fetch_task raises what the FETCH has raised.
AwaitFetch ==
    /\ poll = "await"
    /\ FetchDone
    /\ poll' = "leave"
    /\ outcome' = IF fetch = "ok" THEN "completed" ELSE "aborted"
    /\ UNCHANGED <<stop, roundVars, faults, stalled, spoiled>>

\* The client is left behind with its queue; an exception is logged.
Leave ==
    /\ poll = "leave"
    /\ poll' = "sleep"
    /\ NewRound
    /\ UNCHANGED <<stop, outcome, faults, stalled, spoiled>>

PollEnds ==
    /\ poll = "sleep"
    /\ ~stalled
    /\ stop
    /\ poll' = "ended"
    /\ UNCHANGED <<stop, roundVars, outcome, faults, stalled, spoiled>>

Poll ==
    \/ \E n \in 0..MaxCount : Select(n)
    \/ Test \/ Get \/ Handle
    \/ MoveReturns
    \/ AwaitFetch \/ Leave \/ PollEnds

PollFails == SelectFails \/ SelectStalls \/ MoveFails \/ MoveStalls

\* stop_consumer; it then waits until poll = "ended".
StopConsumer ==
    /\ ~stop
    /\ stop' = TRUE
    /\ UNCHANGED <<poll, roundVars, outcome, faults, stalled, spoiled>>

-----------------------------------------------------------------------------
(* The answer to FETCH 1:count, as the reader passes it on *)

AnswerStep == UNCHANGED <<poll, stop, count, cur, handled, outcome, stalled>>

SendMessage ==
    /\ fetch = "pending"
    /\ sent < count
    /\ AnswerStep
    /\ sent' = sent + 1
    /\ queue' = Append(queue, sent')
    /\ offered' = offered \cup {sent'}
    /\ UNCHANGED <<fetch, faults, spoiled>>

AnswerOk ==
    /\ fetch = "pending"
    /\ sent = count
    /\ AnswerStep
    /\ fetch' = "answered"
    /\ UNCHANGED <<sent, queue, offered, faults, spoiled>>

FetchTaskReturns ==
    /\ fetch = "answered"
    /\ AnswerStep
    /\ fetch' = "ok"
    /\ UNCHANGED <<sent, queue, offered, faults, spoiled>>

Spoil(kind) ==
    /\ Fault(kind)
    /\ spoiled' = TRUE
    /\ AnswerStep

\* NO, a timeout, or the end of the connection before the tagged answer
FetchFails ==
    /\ fetch = "pending"
    /\ Spoil("fetch")
    /\ fetch' = "failed"
    /\ UNCHANGED <<sent, queue, offered>>

\* The server skips a message, which another client has removed.
SkipMessage ==
    /\ fetch = "pending"
    /\ sent < count
    /\ Spoil("skip")
    /\ sent' = sent + 1
    /\ UNCHANGED <<fetch, queue, offered>>

\* It sends an unsolicited FETCH response, as when the flags of a message change.
SendUpdate ==
    /\ fetch # "none"
    /\ Spoil("update")
    /\ queue' = Append(queue, Bare)
    /\ UNCHANGED <<fetch, sent, offered>>

Answer == SendMessage \/ AnswerOk \/ FetchFails

Next ==
    \/ Poll
    \/ PollFails
    \/ StopConsumer
    \/ Answer
    \/ FetchTaskReturns
    \/ SkipMessage
    \/ SendUpdate

Spec == Init /\ [][Next]_vars

(***************************************************************************)
(* The poll task and the fetch task run when they can.  A FETCH goes on or *)
(* fails, as _command gives up timeout_seconds after the last response     *)
(* (imap_client.py:260-269).  Nothing forces stop_consumer to be called or *)
(* the server to misbehave, and a poll task that is stalled has no step.   *)
(***************************************************************************)
FairSpec ==
    /\ Spec
    /\ WF_vars(Poll)
    /\ WF_vars(FetchTaskReturns)
    /\ WF_vars(Answer)

-----------------------------------------------------------------------------
(* Properties *)

(***************************************************************************)
(* A round that ends without an error has handled every message the server *)
(* sent: the two conditions of the loop (imap_queue.py:84) let no response *)
(* slip through, whichever of the fetch task and the poll task is faster,  *)
(* and the final await (imap_queue.py:109) reports a FETCH that failed.    *)
(***************************************************************************)
CompletedIsComplete ==
    poll = "leave" /\ outcome = "completed" => fetch # "failed" /\ handled = offered

(***************************************************************************)
(* The poll task never waits for a response that cannot come any more, as  *)
(* long as the server has answered every FETCH fully and with nothing      *)
(* else: after the first message the fetch task is done, so that the loop  *)
(* condition looks at the queue alone.                                     *)
(***************************************************************************)
WaitsForResponse ==
    poll = "get" /\ queue = <<>> /\ FetchDone => spoiled

\* The round as Round has it.
Phase ==
    CASE poll \in {"test", "get", "await"} -> "next"
      [] poll = "handle" -> "handle"
      [] poll = "file" -> "file"
      [] OTHER -> "idle"

Taken == IF poll = "handle" THEN handled \cup {cur} ELSE handled

Rounds ==
    INSTANCE Round WITH
        Message <- Nat \ {Bare},
        NoMessage <- Bare,
        phase <- Phase,
        left <- IF Phase = "idle" THEN {} ELSE (1..count) \ Taken,
        cur <- IF poll \in {"handle", "file"} THEN cur ELSE Bare

(***************************************************************************)
(* The loop implements a round: whatever the order in which responses, bare*)
(* responses and the end of the FETCH arrive, each selected message is     *)
(* taken at most once, and filed before the next one is taken              *)
(* (imap_queue.py:84-107).                                                 *)
(***************************************************************************)
OneByOne == Rounds!Spec

(***************************************************************************)
(* With a server that answers every FETCH fully and with nothing else      *)
(* every round ends: the untimed get (imap_queue.py:85) is never the last  *)
(* thing it does, whatever else is refused.  A literal that is never       *)
(* continued stalls the round (imap_client.py:115, 254); that it does, and *)
(* should not, is the finding NoCommandHangs of ImapClient.                *)
(***************************************************************************)
RoundEnds == poll = "test" ~> poll = "leave" \/ spoiled \/ stalled

(***************************************************************************)
(* With such a server, and unless a literal is never continued,            *)
(* stop_consumer returns (imap_queue.py:130-134), although it waits for    *)
(* the round under way and for nothing shorter.                            *)
(***************************************************************************)
StopReturns == stop ~> poll = "ended" \/ spoiled \/ stalled

-----------------------------------------------------------------------------
(***************************************************************************)
(* "Prevent deadlock if IMAP connection terminates abnormally"             *)
(* (CHANGELOG.rst:121): every round ends, also if its FETCH fails.         *)
(***************************************************************************)
NoDeadlock == poll = "test" ~> poll = "leave"
=============================================================================
