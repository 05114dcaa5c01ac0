------------------------------ MODULE ImapClient ------------------------------
(***************************************************************************)
(* A session with the IMAP server: ImapClient (imap_client.py), from       *)
(* __aenter__ to __aexit__.  Commands are issued by tasks that share the   *)
(* client; the reader task takes the responses and wakes them.  A command  *)
(* with a string literal is written in pieces: before each literal its     *)
(* writer task waits until the server is ready.                            *)
(*                                                                         *)
(* The user of the client is anyone: inside the session some commands are  *)
(* issued in any order and at the same time, as the tests of the client do *)
(* and, in a certain order, the poll task of ImapQueue with the task of    *)
(* its FETCH.  The server is external.  It reads what it gets in order,    *)
(* and may answer the commands it has read in any order.  Time is not      *)
(* modelled: a timeout may run out whenever something waits for it.        *)
(***************************************************************************)
EXTENDS Naturals, Sequences

CONSTANTS Sessions,   \* the sets of commands a user may issue, each of them once
          MaxFaults   \* bound on the misbehaviour of server and connection

\* The commands, that is the methods of the client; "SELECT inbox" is a second SELECT.
WithLiteral == {"SELECT", "SELECT inbox", "CREATE", "DELETE", "UID COPY", "UID MOVE"}

WithoutLiteral == {"FETCH", "STORE", "EXPUNGE"}

ASSUME SessionAssumption == Sessions \subseteq SUBSET (WithLiteral \cup WithoutLiteral)
ASSUME BoundAssumption == MaxFaults \in Nat

Command == (UNION Sessions) \cup {"CAPABILITY", "LOGIN", "LOGOUT"}

\* The name under which a command is in use.
Name(c) == IF c = "SELECT inbox" THEN "SELECT" ELSE c

\* How many literals a command has; it is written in one piece more.
Literals(c) == IF c = "LOGIN" THEN 2 ELSE IF c \in WithLiteral THEN 1 ELSE 0

VARIABLES
    session,    \* the commands the user may issue, chosen at the beginning
    step,       \* where the task is that enters and leaves the session
    failed,     \* which part of entering or leaving has raised
    pc,         \* where each command is, or how it has ended
    answer,     \* the state of its _ImapTag
    writer,     \* its writer task
    pieces,     \* how many pieces it has written
    ready,      \* _server_ready
    reader,     \* the reader task
    line,       \* the connection
    toServer,   \* pieces on their way to the server
    toClient,   \* responses on their way to the client
    serving,    \* the piece read last of a command that is not complete
    executing,  \* the commands the server has read and not yet answered
    told,       \* what the server has answered to each command
    silent,     \* the server does not answer any more
    refused,    \* history: the server has refused a literal
    mixed,      \* history: a piece reached the server in the middle of another command
    faults      \* what has been used of MaxFaults

commandVars == <<pc, answer, writer, pieces>>
serverVars == <<serving, executing, told, silent, refused, mixed, faults>>
vars == <<session, step, failed, commandVars, ready, reader, line, toServer, toClient, serverVars>>

\* The reader task has ended, with the stream, a reset connection, or at a response.
ReaderDone == {"ended", "reset", "failed"}

Nothing == <<"", 0>>

Piece == Command \X (1..3)

Response ==
    [type : {"CONTINUE_REQ", "UNTAGGED", "GARBAGE"}]
        \cup [type : {"TAGGED"}, tag : Command, state : {"OK", "NO"}]

\* _tag_completions: the commands that are under way.
Registered(c) == pc[c] \in {"acquire", "lock", "started", "wait"}

\* Variant: a command that times out does not release its name.
InUseAfterTimeout ==
    {Name(c) : c \in {d \in Command : pc[d] \in {"lock", "started", "wait", "timeout"}}}

\* _CommandsInUse
InUse == {Name(c) : c \in {d \in Command : pc[d] \in {"lock", "started", "wait"}}}

\* The holder of _command_lock is in the first wait of _command.
LockFree == \A c \in Command : pc[c] # "started"

\* writer.is_closing()
IsClosing == line \in {"closed", "reset", "ours"}

\* Types: a command has returned with its answer or, but for LOGOUT, given up without one.
TypeOK ==
    /\ session \in Sessions
    /\ step \in {"connect", "greeting", "CAPABILITY", "LOGIN", "inside", "LOGOUT", "closing",
                 "joining", "left"}
    /\ failed \in {"nothing", "enter", "logout", "close"}
    /\ pc \in [Command -> {"idle", "acquire", "lock", "started", "wait", "ok", "no", "timeout"}]
    /\ answer \in [Command -> {"none", "OK", "NO"}]
    /\ \A c \in Command : pc[c] \in {"ok", "no"} => answer[c] # "none"
    /\ \A c \in Command \ {"LOGOUT"} : pc[c] = "timeout" => answer[c] = "none"
    /\ writer \in [Command -> {"none", "ready", "waiting", "done", "failed"}]
    /\ pieces \in [Command -> 0..3]
    /\ ready \in BOOLEAN
    /\ reader \in {"none", "run", "cancelled"} \cup ReaderDone
    /\ line \in {"none", "open", "eof", "closed", "reset", "ours"}
    /\ toServer \in Seq(Piece)
    /\ toClient \in Seq(Response)
    /\ serving \in Piece \cup {Nothing}
    /\ executing \subseteq Command
    /\ told \in [Command -> {"none", "OK", "NO"}]
    /\ silent \in BOOLEAN
    /\ refused \in BOOLEAN
    /\ mixed \in BOOLEAN
    /\ faults \in 0..MaxFaults

Init ==
    /\ session \in Sessions
    /\ step = "connect"
    /\ failed = "nothing"
    /\ pc = [c \in Command |-> "idle"]
    /\ answer = [c \in Command |-> "none"]
    /\ writer = [c \in Command |-> "none"]
    /\ pieces = [c \in Command |-> 0]
    /\ ready = FALSE
    /\ reader = "none"
    /\ line = "none"
    /\ toServer = <<>>
    /\ toClient = <<>>
    /\ serving = Nothing
    /\ executing = {}
    /\ told = [c \in Command |-> "none"]
    /\ silent = FALSE
    /\ refused = FALSE
    /\ mixed = FALSE
    /\ faults = 0

Become(f, c, from, to) == f[c] \in from /\ f' = [f EXCEPT ![c] = to]

-----------------------------------------------------------------------------
(* __aenter__ and __aexit__ *)

SessionStep(from, to) ==
    /\ step = from
    /\ step' = to
    /\ UNCHANGED <<session, answer, writer, pieces, toServer, serverVars>>

\* The server greets whoever connects.
Connect ==
    /\ SessionStep("connect", "greeting")
    /\ reader' = "run"
    /\ line' = "open"
    /\ toClient' = <<[type |-> "UNTAGGED"]>>
    /\ UNCHANGED <<failed, pc, ready>>

Greeted ==
    /\ SessionStep("greeting", "CAPABILITY")
    /\ ready
    /\ Become(pc, "CAPABILITY", {"idle"}, "acquire")
    /\ UNCHANGED <<failed, ready, reader, line, toClient>>

CapabilitiesKnown ==
    /\ SessionStep("CAPABILITY", "LOGIN")
    /\ pc["CAPABILITY"] = "ok"
    /\ Become(pc, "LOGIN", {"idle"}, "acquire")
    /\ UNCHANGED <<failed, ready, reader, line, toClient>>

LoggedIn ==
    /\ SessionStep("LOGIN", "inside")
    /\ pc["LOGIN"] = "ok"
    /\ UNCHANGED <<failed, pc, ready, reader, line, toClient>>

\* The greeting does not come in time, or a command raises: the reader is
\* cancelled, and the connection stays as it is.
EnterFails ==
    /\ \/ step = "greeting"
       \/ step \in {"CAPABILITY", "LOGIN"} /\ pc[step] \in {"no", "timeout"}
    /\ SessionStep(step, "left")
    /\ failed' = "enter"
    /\ reader' = IF reader = "run" THEN "cancelled" ELSE reader
    /\ UNCHANGED <<pc, ready, line, toClient>>

Use(c) ==
    /\ c \in session
    /\ SessionStep("inside", "inside")
    /\ Become(pc, c, {"idle"}, "acquire")
    /\ UNCHANGED <<failed, ready, reader, line, toClient>>

\* The body of the session ends or raises; only the task of a FETCH is not awaited.
Leave ==
    /\ \A c \in Command \ {"FETCH"} : ~Registered(c)
    /\ IF IsClosing
       THEN SessionStep("inside", "joining") /\ UNCHANGED pc
       ELSE SessionStep("inside", "LOGOUT") /\ Become(pc, "LOGOUT", {"idle"}, "acquire")
    /\ UNCHANGED <<failed, ready, reader, line, toClient>>

\* wait_for cancels _command wherever it is, possibly with an answer not yet noticed.
LogoutTimesOut ==
    /\ SessionStep("LOGOUT", "closing")
    /\ Become(pc, "LOGOUT", {"acquire", "lock", "started", "wait"}, "timeout")
    /\ UNCHANGED <<failed, ready, reader, line, toClient>>

\* Variant: the timeout of LOGOUT is raised.
LogoutRaisesTimeout ==
    /\ pc["LOGOUT"] \in {"ok", "no", "timeout"}
    /\ SessionStep("LOGOUT", IF pc["LOGOUT"] = "ok" THEN "closing" ELSE "left")
    /\ failed' = IF pc["LOGOUT"] = "no" THEN "logout" ELSE failed
    /\ UNCHANGED <<pc, ready, reader, line, toClient>>

\* Of what LOGOUT may raise only the timeout is suppressed.
LogoutReturns ==
    /\ pc["LOGOUT"] \in {"ok", "no", "timeout"}
    /\ SessionStep("LOGOUT", IF pc["LOGOUT"] = "no" THEN "left" ELSE "closing")
    /\ failed' = IF pc["LOGOUT"] = "no" THEN "logout" ELSE failed
    /\ UNCHANGED <<pc, ready, reader, line, toClient>>

\* writer.close; wait_closed raises what has broken the connection.
Close ==
    /\ SessionStep("closing", IF line = "reset" THEN "left" ELSE "joining")
    /\ failed' = IF line = "reset" THEN "close" ELSE failed
    /\ line' = CASE line = "open" -> "ours" [] line = "eof" -> "closed" [] OTHER -> line
    /\ UNCHANGED <<pc, ready, reader, toClient>>

Join ==
    /\ SessionStep("joining", "left")
    /\ reader \in ReaderDone
    /\ ready' = FALSE
    /\ UNCHANGED <<failed, pc, reader, line, toClient>>

Enter == Connect \/ Greeted \/ CapabilitiesKnown \/ LoggedIn \/ EnterFails

Exit == Leave \/ LogoutTimesOut \/ LogoutReturns \/ Close \/ Join

-----------------------------------------------------------------------------
(* _command and the writer tasks *)

CommandStep == UNCHANGED <<session, step, failed, reader, line, toClient, serverVars>>

\* Variant: acquire does not look at the names in use.
AcquireAnyName(c) ==
    /\ CommandStep
    /\ Become(pc, c, {"acquire"}, "lock")
    /\ UNCHANGED <<answer, writer, pieces, ready, toServer>>

AcquireName(c) ==
    /\ CommandStep
    /\ Name(c) \notin InUse
    /\ Become(pc, c, {"acquire"}, "lock")
    /\ UNCHANGED <<answer, writer, pieces, ready, toServer>>

\* Variant: the commands are written without a lock.
AcquireNoLock(c) ==
    /\ CommandStep
    /\ Become(pc, c, {"lock"}, "started")
    /\ writer' = [writer EXCEPT ![c] = "ready"]
    /\ UNCHANGED <<answer, pieces, ready, toServer>>

\* The command starts its writer task.
AcquireLock(c) ==
    /\ CommandStep
    /\ LockFree
    /\ Become(pc, c, {"lock"}, "started")
    /\ writer' = [writer EXCEPT ![c] = "ready"]
    /\ UNCHANGED <<answer, pieces, ready, toServer>>

\* The first wait of _command ends with the writer, unless the answer has ended it; it
\* has no timeout.  The lock is free again.
WriterDone(c, how) ==
    /\ Become(writer, c, {"ready"}, how)
    /\ pc' = IF pc[c] = "started" THEN [pc EXCEPT ![c] = "wait"] ELSE pc
    /\ UNCHANGED ready

\* All up to the next literal, or to the end of the command.  The announcement of a
\* literal comes after _server_ready.clear() and before the wait, in one step.  drain has
\* too little to write to wait for the connection; wait_for still suspends the writer for
\* a moment on Python 3.10 and 3.11, where it runs drain in a task.  A continuation or an
\* answer that comes then has the effect of one that comes just after the step: the
\* wait finds the event set.  Only a further clear in between could undo that, and no
\* other writer clears the event before this command has been answered.
Write(c) ==
    /\ CommandStep
    /\ ~IsClosing
    /\ pieces' = [pieces EXCEPT ![c] = @ + 1]
    /\ toServer' = IF line = "open" THEN Append(toServer, <<c, pieces[c] + 1>>) ELSE toServer
    /\ IF pieces[c] = Literals(c)
       THEN WriterDone(c, "done")
       ELSE Become(writer, c, {"ready"}, "waiting") /\ ready' = FALSE /\ UNCHANGED pc
    /\ UNCHANGED answer

\* drain raises; nobody looks at the exception of the writer task.
WriteFails(c) ==
    /\ CommandStep
    /\ IsClosing
    /\ WriterDone(c, "failed")
    /\ UNCHANGED <<answer, pieces, toServer>>

\* The answer ends either wait.  A writer that still waits is left behind.
Return(c) ==
    /\ CommandStep
    /\ answer[c] # "none"
    /\ Become(pc, c, {"started", "wait"}, IF answer[c] = "NO" THEN "no" ELSE "ok")
    /\ UNCHANGED <<answer, writer, pieces, ready, toServer>>

\* Variant: whether the answer has come in the meantime is not looked at.
GiveUpAnswered(c) ==
    /\ CommandStep
    /\ Become(pc, c, {"wait"}, "timeout")
    /\ UNCHANGED <<answer, writer, pieces, ready, toServer>>

\* timeout_seconds have passed since the last response, to whichever command.
GiveUp(c) ==
    /\ CommandStep
    /\ answer[c] = "none"
    /\ Become(pc, c, {"wait"}, "timeout")
    /\ UNCHANGED <<answer, writer, pieces, ready, toServer>>

Run(c) ==
    AcquireName(c) \/ AcquireLock(c) \/ Write(c) \/ WriteFails(c) \/ Return(c) \/ GiveUp(c)

-----------------------------------------------------------------------------
(* _process_responses *)

ReaderStep ==
    /\ reader = "run"
    /\ UNCHANGED <<session, step, failed, pc, pieces, line, toServer, serverVars>>

\* Variant: the commands under way are woken without a state, which passes for OK.
AllWoken == [c \in Command |-> IF Registered(c) /\ answer[c] = "none" THEN "OK" ELSE answer[c]]

AllFailed == [c \in Command |-> IF Registered(c) /\ answer[c] = "none" THEN "NO" ELSE answer[c]]

\* An exception ends the reader and fails every command under way.
ReaderFails ==
    /\ reader' = IF line = "reset" THEN "reset" ELSE "failed"
    /\ answer' = AllFailed
    /\ UNCHANGED <<ready, writer>>

\* _server_ready.set() wakes the writers that wait.
ServerReady ==
    /\ ready' = TRUE
    /\ writer' = [c \in Command |-> IF writer[c] = "waiting" THEN "ready" ELSE writer[c]]
    /\ UNCHANGED <<reader, answer>>

\* A tag that is not registered any more is a KeyError.
TaggedResponse(c, state) ==
    IF Registered(c)
    THEN answer' = [answer EXCEPT ![c] = state] /\ UNCHANGED <<reader, ready, writer>>
    ELSE ReaderFails

Receive ==
    /\ ReaderStep
    /\ line # "reset"
    /\ toClient # <<>>
    /\ toClient' = Tail(toClient)
    /\ LET r == Head(toClient) IN
       \/ r.type \in {"CONTINUE_REQ", "UNTAGGED"} /\ ServerReady
       \/ r.type = "TAGGED" /\ TaggedResponse(r.tag, r.state)
       \/ r.type = "GARBAGE" /\ ReaderFails

\* Reading raises, whatever has been received before.
ReaderReset ==
    /\ ReaderStep
    /\ line = "reset"
    /\ ReaderFails
    /\ UNCHANGED toClient

\* The stream ends after what has been received; the commands under way are not failed.
ReaderEnds ==
    /\ ReaderStep
    /\ line \in {"eof", "closed", "ours"}
    /\ toClient = <<>>
    /\ reader' = "ended"
    /\ UNCHANGED <<answer, ready, writer, toClient>>

Reader == Receive \/ ReaderReset \/ ReaderEnds

-----------------------------------------------------------------------------
(* The server *)

ServerStep ==
    /\ line = "open"
    /\ ~silent
    /\ UNCHANGED <<session, step, failed, commandVars, ready, reader>>

\* What nobody will read is left out.
Send(r) == toClient' = IF reader = "run" THEN Append(toClient, r) ELSE <<>>

Tagged(c, state) == [type |-> "TAGGED", tag |-> c, state |-> state]

\* The next piece continues what the server is reading.
InOrder(c, k) == IF k = 1 THEN serving = Nothing ELSE serving = <<c, k - 1>>

NextPiece(c, k) ==
    /\ ServerStep
    /\ toServer # <<>>
    /\ Head(toServer) = <<c, k>>
    /\ toServer' = Tail(toServer)
    /\ UNCHANGED <<line, silent, faults>>

ReadEnd(c) ==
    /\ NextPiece(c, Literals(c) + 1)
    /\ InOrder(c, Literals(c) + 1)
    /\ serving' = Nothing
    /\ executing' = executing \cup {c}
    /\ UNCHANGED <<toClient, told, refused, mixed>>

ReadLiteral(c, k) ==
    /\ k <= Literals(c)
    /\ NextPiece(c, k)
    /\ InOrder(c, k)
    /\ serving' = <<c, k>>
    /\ Send([type |-> "CONTINUE_REQ"])
    /\ UNCHANGED <<executing, told, refused, mixed>>

RefuseLiteral(c, k) ==
    /\ k <= Literals(c)
    /\ NextPiece(c, k)
    /\ InOrder(c, k)
    /\ serving' = Nothing
    /\ Send(Tagged(c, "NO"))
    /\ told' = [told EXCEPT ![c] = "NO"]
    /\ refused' = TRUE
    /\ UNCHANGED <<executing, mixed>>

\* What the server makes of a piece of another command is its own affair: it may
\* answer with a tag nobody has given, or with a response that is ignored.
ReadMixed(c, k) ==
    /\ NextPiece(c, k)
    /\ ~InOrder(c, k)
    /\ serving' = Nothing
    /\ Send([type |-> "GARBAGE"]) \/ UNCHANGED toClient
    /\ mixed' = TRUE
    /\ UNCHANGED <<executing, told, refused>>

Answer(c) ==
    /\ ServerStep
    /\ c \in executing
    /\ executing' = executing \ {c}
    /\ \E state \in {"OK", "NO"} :
          Send(Tagged(c, state)) /\ told' = [told EXCEPT ![c] = state]
    /\ UNCHANGED <<line, toServer, serving, silent, refused, mixed, faults>>

Serve ==
    \E c \in Command :
        \/ ReadEnd(c)
        \/ Answer(c)
        \/ \E k \in 1..3 : ReadLiteral(c, k) \/ RefuseLiteral(c, k) \/ ReadMixed(c, k)

Fault ==
    /\ faults < MaxFaults
    /\ faults' = faults + 1
    /\ ServerStep
    /\ UNCHANGED <<executing, told, refused, mixed>>

\* "* OK" with a text the client does not look at, or what the grammar does not know
Unsolicited ==
    /\ Fault
    /\ \E type \in {"UNTAGGED", "GARBAGE"} : Send([type |-> type])
    /\ UNCHANGED <<line, toServer, serving, silent>>

FallSilent ==
    /\ Fault
    /\ silent' = TRUE
    /\ UNCHANGED <<line, toServer, toClient, serving>>

\* The stream ends and can still be written to, or with TLS is closed as a whole; or the
\* connection is reset.
HangUp ==
    /\ Fault
    /\ line' \in {"eof", "closed", "reset"}
    /\ toServer' = <<>>
    /\ serving' = Nothing
    /\ UNCHANGED <<toClient, silent>>

Misbehave == Unsolicited \/ FallSilent \/ HangUp

-----------------------------------------------------------------------------
Client == Enter \/ Exit \/ Reader \/ \E c \in Command : Run(c)

Next ==
    \/ Client
    \/ \E c \in UNION Sessions : Use(c)
    \/ Serve
    \/ Misbehave

Spec == Init /\ [][Next]_vars

(***************************************************************************)
(* The tasks of the event loop run when they can, timers included; a       *)
(* server that is not silent reads and answers.  One condition for all     *)
(* tasks is enough: none of them repeats anything, so that none can keep   *)
(* the others waiting for ever.  Nothing forces the user to issue a        *)
(* command, or a fault.                                                    *)
(***************************************************************************)
FairSpec == Spec /\ WF_vars(Client) /\ WF_vars(Serve)

-----------------------------------------------------------------------------
(* Properties *)

(***************************************************************************)
(* The pieces of two commands never mix on their way to the server, also   *)
(* if commands overlap, time out or go on too early because of an untagged *)
(* OK.  Only a command that is answered in the middle of its literal gives *)
(* the lock away too early: if the server refuses the literal, or if the   *)
(* reader fails (imap_client.py:212-214, 254-257).                         *)
(***************************************************************************)
WritersDoNotMix == mixed => refused \/ reader # "run"

(***************************************************************************)
(* A command returns without an error only if the server has executed it   *)
(* and said OK; the end of the reader, late answers to other commands and  *)
(* timeouts are never taken for that (imap_client.py:207-214, 271).        *)
(***************************************************************************)
SuccessIsServed == \A c \in Command : pc[c] = "ok" => told[c] = "OK"

(***************************************************************************)
(* Commands of the same name are executed one after the other              *)
(* (tests/test_imap_client.py:211): the server only gets to see a second   *)
(* one after it has answered the first, or after the client has given the  *)
(* first one up.                                                           *)
(***************************************************************************)
SameNameInTurn ==
    \A c, d \in Command :
        c # d /\ Name(c) = Name(d) /\ pieces[c] > 0 /\ pieces[d] > 0 =>
            \E e \in {c, d} : told[e] # "none" \/ pc[e] \in {"timeout", "no"}

(***************************************************************************)
(* A session that is left has closed its connection and seen its reader    *)
(* end, also if commands were pending, LOGOUT timed out or the server hung *)
(* up first, unless entering it or the LOGOUT itself has raised            *)
(* (imap_client.py:172-174, 180-190).                                      *)
(***************************************************************************)
LeftIsClosed ==
    step = "left" /\ failed \in {"nothing", "close"} =>
        line \notin {"none", "open"} /\ (failed = "nothing" => reader \in ReaderDone)

\* Nothing will wake a writer that waits: the server does not answer, or the reader has
\* ended in another way than by a reset.
Stalled ==
    \/ silent
    \/ line \in {"eof", "closed"}
    \/ reader = "failed"

UnderWay == \E c \in Command : Registered(c)

Leaving == step \in {"LOGOUT", "closing", "joining"}

(***************************************************************************)
(* Leaving a session comes to its end whatever the server does and         *)
(* whatever is pending: LOGOUT has a time limit of its own                 *)
(* (imap_client.py:177-192).  And every command comes to an end, answered, *)
(* refused, timed out or cut off by a reset: the lock, the names in use    *)
(* and the writers left behind never block commands for ever, unless the   *)
(* client is stalled (imap_client.py:238-277).                             *)
(***************************************************************************)
CommandsEnd == UnderWay \/ Leaving ~> (~UnderWay \/ Stalled) /\ ~Leaving

-----------------------------------------------------------------------------
(***************************************************************************)
(* "Prevent deadlock if IMAP connection terminates abnormally"             *)
(* (CHANGELOG.rst:121): when the connection has come to an end, so does    *)
(* every command.                                                          *)
(***************************************************************************)
NoCommandHangs == UnderWay /\ line \in {"eof", "closed", "reset"} ~> ~UnderWay
=============================================================================
