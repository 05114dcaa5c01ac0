--------------------------- MODULE ImapClientProofs ---------------------------
(***************************************************************************)
(* Theorems about ImapClient, for any sessions and any number of faults.   *)
(***************************************************************************)
EXTENDS ImapClient, TLAPS

Items(s) == {s[i] : i \in 1..Len(s)}

Distinct(s) == \A i, j \in 1..Len(s) : i < j => s[i] # s[j]

-----------------------------------------------------------------------------
(* The invariants *)

\* A writer exists once its command has the lock, and writes no more than there is.
WriterInv ==
    \A c \in Command :
        /\ pieces[c] <= Literals(c) + 1
        /\ writer[c] = "none" => pieces[c] = 0
        /\ writer[c] # "none" => pc[c] \notin {"idle", "acquire", "lock"}
        /\ writer[c] \in {"ready", "waiting"} => pieces[c] <= Literals(c)

\* One holder for each name, and one for the lock.
HoldersInv ==
    \A c, d \in Command : c # d =>
        /\ Name(c) = Name(d) =>
              ~(pc[c] \in {"lock", "started", "wait"} /\ pc[d] \in {"lock", "started", "wait"})
        /\ ~(pc[c] = "started" /\ pc[d] = "started")

\* The session ends in its order.
SessionInv ==
    /\ step = "connect" => \A c \in Command : pc[c] = "idle"
    /\ step = "connect" <=> line = "none"
    /\ step # "left" => failed = "nothing"
    /\ step = "joining" => line \notin {"none", "open"}
    /\ pc["LOGOUT"] # "idle" =>
          /\ step \in {"LOGOUT", "closing", "joining", "left"}
          /\ \A c \in Command \ {"FETCH", "LOGOUT"} : ~Registered(c)
    /\ LeftIsClosed

\* The server has got to the end of c, or refused it.
Decided(c) == told[c] # "none" \/ c \in executing

\* Each piece is sent once, and each command decided once.
SentInv ==
    /\ Distinct(toServer)
    /\ \A p \in Items(toServer) : p[2] <= pieces[p[1]]
    /\ \A c \in Command :
          /\ Decided(c) \/ serving[1] = c => <<c, 1>> \notin Items(toServer) /\ pieces[c] > 0
          /\ Decided(c) => serving[1] # c
          /\ c \in executing => told[c] = "none"

\* Every answer is the server's.
AnswerInv ==
    /\ \A c \in Command : /\ answer[c] = "OK" => told[c] = "OK"
                          /\ pc[c] = "ok" => answer[c] = "OK"
    /\ \A r \in Items(toClient) : r.type = "TAGGED" => told[r.tag] = r.state

\* The server waits for the next piece of a command only if there is one.
ServingInv == serving # Nothing => serving[2] <= Literals(serving[1])

\* Nothing has disturbed the order of the pieces so far.
Orderly == ~refused /\ reader \in {"none", "run"} /\ line \in {"none", "open"}

Complete(p) == p = Nothing \/ p[2] = Literals(p[1]) + 1

Follows(p, q) == IF q[2] = 1 THEN Complete(p) ELSE p = <<q[1], q[2] - 1>>

Before(i) == IF i = 1 THEN serving ELSE toServer[i - 1]

Last == IF toServer = <<>> THEN serving ELSE toServer[Len(toServer)]

\* The pieces on the line are in order.
LineInOrder == \A i \in 1..Len(toServer) : Follows(Before(i), toServer[i])

\* A command that has begun and not ended is the last one on the line, and has the lock.
CommandInOrder(c) ==
    /\ pieces[c] \in 1..Literals(c) => Last = <<c, pieces[c]>> /\ pc[c] = "started"
    /\ writer[c] \in {"ready", "waiting"} =>
          pc[c] = "started" \/ (c = "LOGOUT" /\ pc[c] = "timeout")
    /\ Decided(c) => pieces[c] = Literals(c) + 1
    /\ answer[c] # "none" => told[c] # "none"

LineInv ==
    Orderly =>
        /\ LineInOrder
        /\ ~Complete(Last) => pieces[Last[1]] = Last[2]
        /\ \A c \in Command : CommandInOrder(c)

MixedInv ==
    /\ step = "connect" => reader = "none" /\ ~mixed
    /\ mixed => refused \/ reader \notin {"none", "run"}

IInv ==
    /\ TypeOK /\ WriterInv
    /\ SessionInv /\ HoldersInv
    /\ SentInv /\ ServingInv /\ AnswerInv
    /\ LineInv /\ MixedInv

-----------------------------------------------------------------------------
(* Facts about sequences and commands *)

\* What Append does to the content of a sequence.
LEMMA AppendItems ==
    ASSUME NEW S, NEW s \in Seq(S), NEW e \in S
    PROVE  /\ Append(s, e) \in Seq(S)
           /\ Append(s, e) # <<>>
           /\ Len(Append(s, e)) = Len(s) + 1
           /\ Append(s, e)[Len(s) + 1] = e
           /\ \A i \in 1..Len(s) : Append(s, e)[i] = s[i]
           /\ Items(Append(s, e)) = Items(s) \cup {e}
           /\ Distinct(s) /\ e \notin Items(s) => Distinct(Append(s, e))
  <1>1. /\ Append(s, e) \in Seq(S)
        /\ Len(Append(s, e)) = Len(s) + 1
        /\ Append(s, e)[Len(s) + 1] = e
        /\ \A i \in 1..Len(s) : Append(s, e)[i] = s[i]
        /\ Len(s) \in Nat
    OBVIOUS
  <1>2. Append(s, e) # <<>>
    BY <1>1
  <1>3. Items(Append(s, e)) \subseteq Items(s) \cup {e}
    BY <1>1 DEF Items
  <1>4. Items(s) \cup {e} \subseteq Items(Append(s, e))
    BY <1>1 DEF Items
  <1>5. ASSUME Distinct(s), e \notin Items(s), NEW i \in 1..(Len(s) + 1),
               NEW j \in 1..(Len(s) + 1), i < j
        PROVE  Append(s, e)[i] # Append(s, e)[j]
    <2>1. i \in 1..Len(s) /\ s[i] \in Items(s)
      BY <1>1, <1>5 DEF Items
    <2>2. CASE j \in 1..Len(s)
      BY <1>1, <1>5, <2>1, <2>2 DEF Distinct
    <2>3. CASE j = Len(s) + 1
      BY <1>1, <1>5, <2>1, <2>3
    <2> QED BY <1>1, <2>2, <2>3
  <1> QED BY <1>1, <1>2, <1>3, <1>4, <1>5 DEF Distinct

\* What Head and Tail do to the content of a sequence.
LEMMA TailItems ==
    ASSUME NEW S, NEW s \in Seq(S), s # <<>>
    PROVE  /\ Head(s) \in S
           /\ Head(s) \in Items(s)
           /\ Tail(s) \in Seq(S)
           /\ Len(s) \in Nat \ {0}
           /\ Len(Tail(s)) = Len(s) - 1
           /\ Head(s) = s[1]
           /\ \A i \in 1..(Len(s) - 1) : Tail(s)[i] = s[i + 1]
           /\ Items(Tail(s)) \subseteq Items(s)
           /\ Distinct(s) => Distinct(Tail(s)) /\ Head(s) \notin Items(Tail(s))
  <1>1. /\ Tail(s) \in Seq(S)
        /\ Head(s) \in S
        /\ Head(s) = s[1]
        /\ Len(s) \in Nat \ {0}
        /\ Len(Tail(s)) = Len(s) - 1
        /\ \A i \in 1..(Len(s) - 1) : Tail(s)[i] = s[i + 1]
    OBVIOUS
  <1>2. Items(Tail(s)) \subseteq Items(s) /\ Head(s) \in Items(s)
    BY <1>1 DEF Items
  <1>3. Distinct(s) => Distinct(Tail(s)) /\ Head(s) \notin Items(Tail(s))
    BY <1>1 DEF Distinct, Items
  <1> QED BY <1>1, <1>2, <1>3

\* There is nothing in an empty sequence.
LEMMA EmptyItems == Items(<<>>) = {} /\ Distinct(<<>>)
  BY DEF Items, Distinct

\* No command has more than two literals.
LEMMA LiteralCount == \A c \in Command : Literals(c) \in 0..2
  BY DEF Literals

\* Which commands there are.
LEMMA Commands ==
    /\ "CAPABILITY" \in Command /\ "LOGIN" \in Command /\ "LOGOUT" \in Command
    /\ UNION Sessions \subseteq Command \ {"CAPABILITY", "LOGIN", "LOGOUT"}
    /\ "" \notin Command
    /\ Literals("LOGOUT") = 0 /\ Literals("FETCH") = 0
  <1>1. UNION Sessions \subseteq WithLiteral \cup WithoutLiteral
    BY SessionAssumption
  <1>2. /\ "CAPABILITY" \notin WithLiteral \cup WithoutLiteral
        /\ "LOGIN" \notin WithLiteral \cup WithoutLiteral
        /\ "LOGOUT" \notin WithLiteral \cup WithoutLiteral
        /\ "" \notin WithLiteral \cup WithoutLiteral
        /\ "FETCH" \notin WithLiteral
    BY DEF WithLiteral, WithoutLiteral
  <1>4. Literals("LOGOUT") = 0 /\ Literals("FETCH") = 0
    BY <1>2 DEF Literals
  <1>5. "CAPABILITY" \in Command /\ "LOGIN" \in Command /\ "LOGOUT" \in Command
    BY DEF Command
  <1>6. UNION Sessions \subseteq Command \ {"CAPABILITY", "LOGIN", "LOGOUT"}
    BY <1>1, <1>2 DEF Command
  <1>7. "" \notin Command
    BY <1>1, <1>2 DEF Command
  <1> QED BY <1>4, <1>5, <1>6, <1>7

\* The responses, by their types.
LEMMA Responses ==
    /\ [type |-> "UNTAGGED"] \in Response
    /\ [type |-> "GARBAGE"] \in Response
    /\ [type |-> "CONTINUE_REQ"] \in Response
    /\ \A c \in Command, state \in {"OK", "NO"} :
          /\ Tagged(c, state) \in Response
          /\ Tagged(c, state).type = "TAGGED"
          /\ Tagged(c, state).tag = c
          /\ Tagged(c, state).state = state
    /\ \A r \in Response : r.type = "TAGGED" => r.tag \in Command /\ r.state \in {"OK", "NO"}
  BY DEF Response, Tagged

-----------------------------------------------------------------------------
(* Types *)

Phases == {"idle", "acquire", "lock", "started", "wait", "ok", "no", "timeout"}

\* The part of the types that is about the commands ...
CommandTypes ==
    /\ pc \in [Command -> Phases]
    /\ answer \in [Command -> {"none", "OK", "NO"}]
    /\ writer \in [Command -> {"none", "ready", "waiting", "done", "failed"}]
    /\ pieces \in [Command -> 0..3]
    /\ \A c \in Command : pc[c] \in {"ok", "no"} => answer[c] # "none"
    /\ \A c \in Command \ {"LOGOUT"} : pc[c] = "timeout" => answer[c] = "none"
    /\ WriterInv

\* ... and the rest.
OtherTypes ==
    /\ session \in Sessions
    /\ step \in {"connect", "greeting", "CAPABILITY", "LOGIN", "inside", "LOGOUT", "closing",
                 "joining", "left"}
    /\ failed \in {"nothing", "enter", "logout", "close"}
    /\ ready \in BOOLEAN
    /\ reader \in {"none", "run", "cancelled"} \cup ReaderDone
    /\ line \in {"none", "open", "eof", "closed", "reset", "ours"}
    /\ toServer \in Seq(Piece)
    /\ toClient \in Seq(Response)
    /\ serving \in Piece \cup {Nothing}
    /\ executing \subseteq Command
    /\ told \in [Command -> {"none", "OK", "NO"}]
    /\ silent \in BOOLEAN
    /\ refused \in BOOLEAN
    /\ mixed \in BOOLEAN
    /\ faults \in 0..MaxFaults

TypeInv == CommandTypes /\ OtherTypes

\* The two parts and the invariant of the writers are the types and that invariant.
LEMMA TypeInvIsTypeOK == TypeInv <=> TypeOK /\ WriterInv
  BY DEF TypeInv, CommandTypes, OtherTypes, TypeOK, Phases

\* The types hold initially.
LEMMA TypeInit == Init => TypeInv
  <1> SUFFICES ASSUME Init PROVE TypeInv
    OBVIOUS
  <1>1. CommandTypes
    <2>1. \A c \in Command : /\ pc[c] = "idle" /\ answer[c] = "none"
                             /\ writer[c] = "none" /\ pieces[c] = 0
      BY DEF Init
    <2>2. WriterInv
      <3>1. \A c \in Command : 0 <= Literals(c) + 1
        BY LiteralCount
      <3> QED BY <2>1, <3>1 DEF WriterInv
    <2>3. /\ pc \in [Command -> Phases]
          /\ answer \in [Command -> {"none", "OK", "NO"}]
          /\ writer \in [Command -> {"none", "ready", "waiting", "done", "failed"}]
          /\ pieces \in [Command -> 0..3]
      BY DEF Init, Phases
    <2> QED BY <2>1, <2>2, <2>3 DEF CommandTypes
  <1>2. OtherTypes
    <2>1. toServer \in Seq(Piece) /\ toClient \in Seq(Response)
      BY DEF Init
    <2>2. told \in [Command -> {"none", "OK", "NO"}] /\ faults \in 0..MaxFaults
      BY BoundAssumption DEF Init
    <2> QED BY <2>1, <2>2 DEF Init, OtherTypes
  <1> QED BY <1>1, <1>2 DEF TypeInv

\* A command goes on to where its answer and its writer allow it to be.
LEMMA MoveTypes ==
    ASSUME CommandTypes, NEW c \in Command, NEW to \in Phases, pc' = [pc EXCEPT ![c] = to],
           UNCHANGED <<answer, writer, pieces>>,
           to \in {"ok", "no"} => answer[c] # "none",
           to = "timeout" /\ c # "LOGOUT" => answer[c] = "none",
           to \in {"idle", "acquire", "lock"} => writer[c] = "none"
    PROVE  CommandTypes'
  <1>1. pc' \in [Command -> Phases]
    BY DEF CommandTypes
  <1>2. \A d \in Command : pc'[d] = IF d = c THEN to ELSE pc[d]
    BY DEF CommandTypes
  <1>3. WriterInv'
    BY <1>2 DEF CommandTypes, WriterInv
  <1> QED BY <1>1, <1>2, <1>3 DEF CommandTypes

-----------------------------------------------------------------------------
(* Entering, using and leaving a session keeps the types *)

\* Which command a step of the session moves, and how.
LEMMA SessionMoves ==
    ASSUME TypeInv, Enter \/ Exit \/ \E c \in UNION Sessions : Use(c)
    PROVE  /\ UNCHANGED <<session, answer, writer, pieces, toServer, serverVars>>
           /\ \/ UNCHANGED pc
              \/ \E c \in Command :
                    pc[c] = "idle" /\ pc' = [pc EXCEPT ![c] = "acquire"] /\ step # "connect"
              \/ /\ pc["LOGOUT"] \in {"acquire", "lock", "started", "wait"}
                 /\ pc' = [pc EXCEPT !["LOGOUT"] = "timeout"]
                 /\ step # "connect"
  <1> USE Commands DEF SessionStep, Become
  <1>1. CASE Connect \/ LoggedIn \/ EnterFails \/ LogoutReturns \/ Close \/ Join
    BY <1>1 DEF Connect, LoggedIn, EnterFails, LogoutReturns, Close, Join
  <1>2. CASE Greeted
    BY <1>2 DEF Greeted
  <1>3. CASE CapabilitiesKnown
    BY <1>3 DEF CapabilitiesKnown
  <1>4. CASE Leave
    BY <1>4 DEF Leave
  <1>5. CASE LogoutTimesOut
    BY <1>5 DEF LogoutTimesOut
  <1>6. ASSUME NEW c \in UNION Sessions, Use(c)
        PROVE  /\ UNCHANGED <<session, answer, writer, pieces, toServer, serverVars>>
               /\ c \in Command
               /\ pc[c] = "idle" /\ pc' = [pc EXCEPT ![c] = "acquire"] /\ step # "connect"
    BY <1>6 DEF Use
  <1> QED
    BY <1>1, <1>2, <1>3, <1>4, <1>5, <1>6 DEF Enter, Exit

\* The session keeps the types.
LEMMA TypeSession ==
    ASSUME TypeInv, Enter \/ Exit \/ \E c \in UNION Sessions : Use(c)
    PROVE  TypeInv'
  <1>1. UNCHANGED <<session, answer, writer, pieces, toServer, serverVars>>
    BY SessionMoves
  <1>2. CommandTypes'
    <2>1. CASE UNCHANGED pc
      BY <1>1, <2>1 DEF TypeInv, CommandTypes, WriterInv
    <2>2. ASSUME NEW c \in Command, pc[c] = "idle", pc' = [pc EXCEPT ![c] = "acquire"]
          PROVE  CommandTypes'
      <3>1. writer[c] = "none"
        BY <2>2 DEF TypeInv, CommandTypes, WriterInv
      <3> QED BY <1>1, <2>2, <3>1, MoveTypes DEF TypeInv, Phases
    <2>3. CASE pc' = [pc EXCEPT !["LOGOUT"] = "timeout"]
      BY <1>1, <2>3, Commands, MoveTypes DEF TypeInv, Phases
    <2> QED BY SessionMoves, <2>1, <2>2, <2>3
  <1> DEFINE Good ==
        /\ step \in {"connect", "greeting", "CAPABILITY", "LOGIN", "inside", "LOGOUT",
                     "closing", "joining", "left"}
        /\ failed \in {"nothing", "enter", "logout", "close"}
        /\ ready \in BOOLEAN
        /\ reader \in {"none", "run", "cancelled"} \cup ReaderDone
        /\ line \in {"none", "open", "eof", "closed", "reset", "ours"}
        /\ toClient \in Seq(Response)
  <1>3. Good'
    <2> USE DEF SessionStep, TypeInv, OtherTypes
    <2>1. CASE Connect
      <3>1. toClient' \in Seq(Response)
        BY <2>1, Responses DEF Connect
      <3> QED BY <2>1, <3>1 DEF Connect
    <2>2. CASE Greeted \/ CapabilitiesKnown \/ LoggedIn \/ EnterFails
      BY <2>2 DEF Greeted, CapabilitiesKnown, LoggedIn, EnterFails
    <2>3. ASSUME NEW c \in UNION Sessions, Use(c) PROVE Good'
      BY <2>3 DEF Use
    <2>4. CASE Leave \/ LogoutTimesOut \/ LogoutReturns \/ Join
      BY <2>4 DEF Leave, LogoutTimesOut, LogoutReturns, Join
    <2>5. CASE Close
      BY <2>5 DEF Close
    <2> QED BY <2>1, <2>2, <2>3, <2>4, <2>5 DEF Enter, Exit
  <1> QED BY <1>1, <1>2, <1>3 DEF TypeInv, OtherTypes, serverVars

-----------------------------------------------------------------------------
(* A command keeps the types *)

\* A command keeps the types, whatever it does next.
LEMMA TypeCommand ==
    ASSUME TypeInv, NEW c \in Command, Run(c)
    PROVE  TypeInv'
  <1> USE DEF CommandStep, Become
  <1>0. CommandTypes /\ OtherTypes
    BY DEF TypeInv
  <1>1. CASE AcquireName(c)
    <2>1. CommandTypes'
      <3>1. writer[c] = "none" /\ pc' = [pc EXCEPT ![c] = "lock"]
        BY <1>0, <1>1 DEF AcquireName, CommandTypes, WriterInv
      <3> QED BY <1>0, <1>1, <3>1, MoveTypes DEF AcquireName, Phases
    <2> QED BY <1>0, <1>1, <2>1 DEF AcquireName, OtherTypes, TypeInv, serverVars
  <1>2. CASE AcquireLock(c)
    <2>1. CommandTypes'
      <3>1. writer[c] = "none" /\ pieces[c] = 0
        BY <1>0, <1>2 DEF AcquireLock, CommandTypes, WriterInv
      <3>2. /\ pc' \in [Command -> Phases]
            /\ writer' \in [Command -> {"none", "ready", "waiting", "done", "failed"}]
            /\ UNCHANGED <<answer, pieces>>
            /\ pc'[c] = "started" /\ writer'[c] = "ready"
            /\ \A d \in Command \ {c} : pc'[d] = pc[d] /\ writer'[d] = writer[d]
        BY <1>0, <1>2 DEF AcquireLock, CommandTypes, Phases
      <3>3. WriterInv'
        BY <1>0, <3>1, <3>2, LiteralCount DEF CommandTypes, WriterInv
      <3> QED BY <1>0, <3>2, <3>3 DEF CommandTypes
    <2> QED BY <1>0, <1>2, <2>1 DEF AcquireLock, OtherTypes, TypeInv, serverVars
  <1>3. CASE Write(c)
    <2>1. /\ pieces[c] \in 0..3 /\ Literals(c) \in 0..2 /\ pieces[c] <= Literals(c)
          /\ pieces' = [pieces EXCEPT ![c] = pieces[c] + 1]
          /\ writer[c] = "ready"
      BY <1>0, <1>3, LiteralCount DEF Write, WriterDone, CommandTypes, WriterInv
    <2>2. toServer' \in Seq(Piece)
      <3>1. <<c, pieces[c] + 1>> \in Piece
        BY <2>1 DEF Piece
      <3> QED BY <1>0, <1>3, <3>1, AppendItems DEF Write, OtherTypes
    <2>3. CommandTypes'
      <3>1. /\ pc' \in [Command -> Phases]
            /\ writer' \in [Command -> {"none", "ready", "waiting", "done", "failed"}]
            /\ pieces' \in [Command -> 0..3]
            /\ UNCHANGED answer
            /\ pieces'[c] = pieces[c] + 1
            /\ pieces[c] = Literals(c) => writer'[c] = "done"
            /\ pieces[c] # Literals(c) => writer'[c] = "waiting"
            /\ pc'[c] = pc[c] \/ (pc[c] = "started" /\ pc'[c] = "wait")
            /\ \A d \in Command \ {c} :
                  pc'[d] = pc[d] /\ writer'[d] = writer[d] /\ pieces'[d] = pieces[d]
        <4>1. CASE pieces[c] = Literals(c)
          BY <1>0, <1>3, <2>1, <4>1 DEF Write, WriterDone, CommandTypes, Phases
        <4>2. CASE pieces[c] # Literals(c)
          BY <1>0, <1>3, <2>1, <4>2 DEF Write, WriterDone, CommandTypes, Phases
        <4> QED BY <4>1, <4>2
      <3>2. WriterInv'
        BY <1>0, <2>1, <3>1 DEF CommandTypes, WriterInv
      <3> QED BY <1>0, <3>1, <3>2 DEF CommandTypes
    <2>4. ready' \in BOOLEAN
      BY <1>0, <1>3 DEF Write, WriterDone, OtherTypes
    <2> QED BY <1>0, <1>3, <2>2, <2>3, <2>4 DEF Write, OtherTypes, TypeInv, serverVars
  <1>4. CASE WriteFails(c)
    <2>1. CommandTypes'
      <3>1. /\ pc' \in [Command -> Phases]
            /\ writer' \in [Command -> {"none", "ready", "waiting", "done", "failed"}]
            /\ UNCHANGED <<answer, pieces>>
            /\ writer[c] = "ready" /\ writer'[c] = "failed"
            /\ pc'[c] = pc[c] \/ (pc[c] = "started" /\ pc'[c] = "wait")
            /\ \A d \in Command \ {c} : pc'[d] = pc[d] /\ writer'[d] = writer[d]
        BY <1>0, <1>4 DEF WriteFails, WriterDone, CommandTypes, Phases
      <3>2. WriterInv'
        BY <1>0, <3>1 DEF CommandTypes, WriterInv
      <3> QED BY <1>0, <3>1, <3>2 DEF CommandTypes
    <2> QED BY <1>0, <1>4, <2>1 DEF WriteFails, WriterDone, OtherTypes, TypeInv, serverVars
  <1>5. CASE Return(c)
    <2>1. CommandTypes'
      BY <1>0, <1>5, MoveTypes DEF Return, Phases
    <2> QED BY <1>0, <1>5, <2>1 DEF Return, OtherTypes, TypeInv, serverVars
  <1>6. CASE GiveUp(c)
    <2>1. CommandTypes'
      BY <1>0, <1>6, MoveTypes DEF GiveUp, Phases
    <2> QED BY <1>0, <1>6, <2>1 DEF GiveUp, OtherTypes, TypeInv, serverVars
  <1> QED BY <1>1, <1>2, <1>3, <1>4, <1>5, <1>6 DEF Run

-----------------------------------------------------------------------------
(* The reader keeps the types *)

\* What the reader does to a command: it answers one under way, or wakes its writer.
LEMMA ReaderMoves ==
    ASSUME TypeInv, Reader
    PROVE  /\ UNCHANGED <<session, step, failed, pc, pieces, line, toServer, serverVars>>
           /\ reader = "run" /\ reader' \in {"run"} \cup ReaderDone
           /\ answer' \in [Command -> {"none", "OK", "NO"}]
           /\ writer' \in [Command -> {"none", "ready", "waiting", "done", "failed"}]
           /\ \A c \in Command :
                 /\ \/ answer'[c] = answer[c]
                    \/ Registered(c) /\ answer'[c] = "NO" /\ reader' # "run"
                    \/ /\ Registered(c)
                       /\ toClient # <<>>
                       /\ Head(toClient).type = "TAGGED"
                       /\ Head(toClient).tag = c
                       /\ answer'[c] = Head(toClient).state
                       /\ answer'[c] # "none"
                 /\ \/ writer'[c] = writer[c]
                    \/ writer[c] = "waiting" /\ writer'[c] = "ready"
  <1>0. CommandTypes /\ OtherTypes
    BY DEF TypeInv
  <1>1. /\ UNCHANGED <<session, step, failed, pc, pieces, line, toServer, serverVars>>
        /\ reader = "run"
    BY DEF Reader, Receive, ReaderReset, ReaderEnds, ReaderStep
  <1> DEFINE Good ==
        /\ reader' \in {"run"} \cup ReaderDone
        /\ answer' \in [Command -> {"none", "OK", "NO"}]
        /\ writer' \in [Command -> {"none", "ready", "waiting", "done", "failed"}]
        /\ \A c \in Command :
              /\ \/ answer'[c] = answer[c]
                 \/ Registered(c) /\ answer'[c] = "NO" /\ reader' # "run"
                 \/ /\ Registered(c)
                    /\ toClient # <<>>
                    /\ Head(toClient).type = "TAGGED"
                    /\ Head(toClient).tag = c
                    /\ answer'[c] = Head(toClient).state
                    /\ answer'[c] # "none"
              /\ \/ writer'[c] = writer[c]
                 \/ writer[c] = "waiting" /\ writer'[c] = "ready"
  <1>2. ASSUME ReaderFails PROVE Good
    BY <1>0, <1>2 DEF ReaderFails, AllFailed, CommandTypes, ReaderDone
  <1>3. ASSUME ServerReady PROVE Good
    BY <1>0, <1>1, <1>3 DEF ServerReady, CommandTypes
  <1>4. ASSUME Receive, Head(toClient).type = "TAGGED",
               TaggedResponse(Head(toClient).tag, Head(toClient).state)
        PROVE  Good
    <2>1. /\ Head(toClient).tag \in Command
          /\ Head(toClient).state \in {"OK", "NO"}
          /\ toClient # <<>>
      <3>1. toClient # <<>> /\ Head(toClient) \in Response
        BY <1>0, <1>4, TailItems DEF Receive, OtherTypes
      <3> QED BY <1>4, <3>1, Responses
    <2>2. CASE Registered(Head(toClient).tag)
      BY <1>0, <1>1, <1>4, <2>1, <2>2 DEF TaggedResponse, CommandTypes
    <2>3. CASE ~Registered(Head(toClient).tag)
      BY <1>2, <1>4, <2>3 DEF TaggedResponse
    <2> QED BY <2>2, <2>3
  <1>5. ASSUME ReaderEnds PROVE Good
    <2>1. answer' = answer /\ writer' = writer /\ reader' = "ended"
      BY <1>5 DEF ReaderEnds
    <2> QED BY <1>0, <2>1 DEF CommandTypes, ReaderDone
  <1> QED
    BY <1>1, <1>2, <1>3, <1>4, <1>5 DEF Reader, Receive, ReaderReset

\* The reader keeps the types.
LEMMA TypeReader ==
    ASSUME TypeInv, Reader
    PROVE  TypeInv'
  <1>0. CommandTypes /\ OtherTypes
    BY DEF TypeInv
  <1>1. CommandTypes'
    <2>1. WriterInv'
      BY <1>0, ReaderMoves DEF CommandTypes, WriterInv
    <2>2. /\ \A c \in Command : pc'[c] \in {"ok", "no"} => answer'[c] # "none"
          /\ \A c \in Command \ {"LOGOUT"} : pc'[c] = "timeout" => answer'[c] = "none"
      BY <1>0, ReaderMoves DEF CommandTypes, Registered
    <2> QED BY <1>0, <2>1, <2>2, ReaderMoves DEF CommandTypes
  <1>2. toClient' \in Seq(Response) /\ ready' \in BOOLEAN
    <2>1. toClient' = toClient \/ (toClient # <<>> /\ toClient' = Tail(toClient))
      BY DEF Reader, Receive, ReaderReset, ReaderEnds
    <2>2. toClient' \in Seq(Response)
      BY <1>0, <2>1, TailItems DEF OtherTypes
    <2>3. ready' = ready \/ ready' = TRUE
      BY DEF Reader, Receive, ReaderReset, ReaderEnds, ReaderFails, ServerReady, TaggedResponse
    <2> QED BY <1>0, <2>2, <2>3 DEF OtherTypes
  <1> QED BY <1>0, <1>1, <1>2, ReaderMoves DEF TypeInv, OtherTypes, serverVars

-----------------------------------------------------------------------------
(* The server keeps the types *)

\* What the server leaves alone.
LEMMA ServerMoves ==
    ASSUME Serve \/ Misbehave
    PROVE  /\ UNCHANGED <<session, step, failed, commandVars, ready, reader>>
           /\ line = "open"
  <1> QED
    BY DEF Serve, Misbehave, ReadEnd, ReadLiteral, RefuseLiteral, ReadMixed, NextPiece, Answer,
           Unsolicited, FallSilent, HangUp, Fault, ServerStep

\* The server sends responses only.
LEMMA SendTypes ==
    ASSUME OtherTypes, NEW r \in Response, Send(r)
    PROVE  toClient' \in Seq(Response)
  BY AppendItems DEF Send, OtherTypes

\* The server reads pieces only.
LEMMA NextPieceTypes ==
    ASSUME OtherTypes, NEW c \in Command, NEW k, NextPiece(c, k)
    PROVE  /\ toServer' \in Seq(Piece)
           /\ <<c, k>> \in Piece
           /\ UNCHANGED <<line, silent, faults>>
  <1>1. toServer # <<>> /\ Head(toServer) = <<c, k>> /\ toServer' = Tail(toServer)
    BY DEF NextPiece
  <1>2. toServer \in Seq(Piece)
    BY DEF OtherTypes
  <1> QED BY <1>1, <1>2, TailItems DEF NextPiece

\* The server keeps the types.
LEMMA TypeServer ==
    ASSUME TypeInv, Serve \/ Misbehave
    PROVE  TypeInv'
  <1>0. CommandTypes /\ OtherTypes
    BY DEF TypeInv
  <1>1. CommandTypes'
    BY <1>0, ServerMoves DEF CommandTypes, WriterInv, commandVars
  <1> DEFINE Good ==
        /\ line \in {"none", "open", "eof", "closed", "reset", "ours"}
        /\ toServer \in Seq(Piece)
        /\ toClient \in Seq(Response)
        /\ serving \in Piece \cup {Nothing}
        /\ executing \subseteq Command
        /\ told \in [Command -> {"none", "OK", "NO"}]
        /\ silent \in BOOLEAN
        /\ refused \in BOOLEAN
        /\ mixed \in BOOLEAN
        /\ faults \in 0..MaxFaults
  <1>2. Good
    BY <1>0 DEF OtherTypes
  <1>3. ASSUME NEW c \in Command, ReadEnd(c) PROVE Good'
    <2>1. NextPiece(c, Literals(c) + 1)
      BY <1>3 DEF ReadEnd
    <2> QED BY <1>0, <1>2, <1>3, <2>1, NextPieceTypes DEF ReadEnd
  <1>4. ASSUME NEW c \in Command, NEW k \in 1..3, ReadLiteral(c, k) PROVE Good'
    <2>1. NextPiece(c, k) /\ Send([type |-> "CONTINUE_REQ"])
      BY <1>4 DEF ReadLiteral
    <2>2. toClient' \in Seq(Response)
      BY <1>0, <2>1, SendTypes, Responses
    <2> QED BY <1>0, <1>2, <1>4, <2>1, <2>2, NextPieceTypes DEF ReadLiteral
  <1>5. ASSUME NEW c \in Command, NEW k \in 1..3, RefuseLiteral(c, k) PROVE Good'
    <2>1. NextPiece(c, k) /\ Send(Tagged(c, "NO"))
      BY <1>5 DEF RefuseLiteral
    <2>2. toClient' \in Seq(Response)
      BY <1>0, <2>1, SendTypes, Responses
    <2> QED BY <1>0, <1>2, <1>5, <2>1, <2>2, NextPieceTypes DEF RefuseLiteral
  <1>6. ASSUME NEW c \in Command, NEW k \in 1..3, ReadMixed(c, k) PROVE Good'
    <2>1. NextPiece(c, k) /\ (Send([type |-> "GARBAGE"]) \/ UNCHANGED toClient)
      BY <1>6 DEF ReadMixed
    <2>2. toClient' \in Seq(Response)
      BY <1>0, <1>2, <2>1, SendTypes, Responses
    <2> QED BY <1>0, <1>2, <1>6, <2>1, <2>2, NextPieceTypes DEF ReadMixed
  <1>7. ASSUME NEW c \in Command, Answer(c) PROVE Good'
    <2>1. PICK state \in {"OK", "NO"} :
             Send(Tagged(c, state)) /\ told' = [told EXCEPT ![c] = state]
      BY <1>7 DEF Answer
    <2>2. toClient' \in Seq(Response)
      BY <1>0, <2>1, SendTypes, Responses
    <2> QED BY <1>2, <1>7, <2>1, <2>2 DEF Answer, ServerStep
  <1>8. ASSUME Unsolicited PROVE Good'
    <2>1. PICK type \in {"UNTAGGED", "GARBAGE"} : Send([type |-> type])
      BY <1>8 DEF Unsolicited
    <2>2. toClient' \in Seq(Response)
      BY <1>0, <2>1, SendTypes, Responses
    <2> QED BY <1>2, <1>8, <2>2, BoundAssumption DEF Unsolicited, Fault
  <1>9. ASSUME FallSilent PROVE Good'
    BY <1>2, <1>9, BoundAssumption DEF FallSilent, Fault
  <1>10. ASSUME HangUp PROVE Good'
    <2>1. toServer' \in Seq(Piece)
      BY <1>10 DEF HangUp
    <2> QED BY <1>2, <1>10, <2>1, BoundAssumption DEF HangUp, Fault
  <1>11. Good'
    BY <1>3, <1>4, <1>5, <1>6, <1>7, <1>8, <1>9, <1>10 DEF Serve, Misbehave
  <1> QED BY <1>0, <1>1, <1>11, ServerMoves DEF TypeInv, OtherTypes

-----------------------------------------------------------------------------
(* The types are kept *)

\* Every step keeps the types.
LEMMA TypeStep == TypeInv /\ [Next]_vars => TypeInv'
  <1> SUFFICES ASSUME TypeInv, [Next]_vars PROVE TypeInv'
    OBVIOUS
  <1>1. CASE UNCHANGED vars
    BY <1>1 DEF TypeInv, CommandTypes, OtherTypes, WriterInv, vars, commandVars, serverVars
  <1>2. CASE Next
    BY <1>2, TypeSession, TypeCommand, TypeReader, TypeServer DEF Next, Client
  <1> QED BY <1>1, <1>2

(***************************************************************************)
(* ImapClient keeps its types, for any sessions and any number of faults:  *)
(* no command returns without an answer, and none but LOGOUT gives up with *)
(* one (imap_client.py:262-271).                                           *)
(***************************************************************************)
THEOREM TypeCorrect == Spec => []TypeOK
  <1>1. TypeInv => TypeOK
    BY TypeInvIsTypeOK
  <1> QED BY <1>1, TypeInit, TypeStep, PTL DEF Spec

-----------------------------------------------------------------------------
(* The order of a session *)

\* Nothing has begun before the session.
LEMMA SessionInit == Init => SessionInv
  <1> SUFFICES ASSUME Init PROVE SessionInv
    OBVIOUS
  <1>1. \A c \in Command : pc[c] = "idle"
    BY DEF Init
  <1> QED BY <1>1, Commands DEF Init, SessionInv, LeftIsClosed

\* Entering, using and leaving keep the order of the session ...
LEMMA SessionSession ==
    ASSUME TypeInv, SessionInv, Enter \/ Exit \/ \E c \in UNION Sessions : Use(c)
    PROVE  SessionInv'
  <1>0. /\ pc \in [Command -> Phases]
        /\ line \in {"none", "open", "eof", "closed", "reset", "ours"}
    BY DEF TypeInv, CommandTypes, OtherTypes
  <1>1. ASSUME NEW c \in Command \ {"LOGOUT"}, pc' = [pc EXCEPT ![c] = "acquire"],
               UNCHANGED <<line, failed>>,
               step \notin {"connect", "LOGOUT", "closing", "joining", "left"},
               step' \notin {"connect", "LOGOUT", "closing", "joining", "left"}
        PROVE  SessionInv'
    <2>1. pc["LOGOUT"] = "idle"
      BY <1>1 DEF SessionInv
    <2>2. pc'["LOGOUT"] = "idle"
      BY <1>0, <1>1, <2>1, Commands
    <2> QED BY <1>1, <2>2 DEF SessionInv, LeftIsClosed
  <1>2. CASE Connect
    <2>1. pc' = pc /\ line' = "open" /\ step' = "greeting" /\ failed' = failed /\ step = "connect"
      BY <1>2 DEF Connect, SessionStep
    <2> QED BY <2>1, Commands DEF SessionInv, LeftIsClosed
  <1>3. CASE Greeted
    BY <1>1, <1>3, Commands DEF Greeted, SessionStep, Become
  <1>4. CASE CapabilitiesKnown
    BY <1>1, <1>4, Commands DEF CapabilitiesKnown, SessionStep, Become
  <1>5. CASE LoggedIn
    BY <1>5 DEF LoggedIn, SessionStep, SessionInv, LeftIsClosed, Registered
  <1>6. CASE EnterFails
    BY <1>6 DEF EnterFails, SessionStep, SessionInv, LeftIsClosed, Registered
  <1>7. ASSUME NEW c \in UNION Sessions, Use(c) PROVE SessionInv'
    <2>1. c \in Command \ {"LOGOUT"}
      BY Commands
    <2> QED BY <1>1, <1>7, <2>1 DEF Use, SessionStep, Become
  <1>8. CASE Leave
    <2>1. CASE IsClosing
      BY <1>8, <2>1 DEF Leave, SessionStep, SessionInv, LeftIsClosed, IsClosing, Registered
    <2>2. CASE ~IsClosing
      <3>1. /\ step = "inside" /\ step' = "LOGOUT" /\ UNCHANGED <<failed, line>>
            /\ pc' = [pc EXCEPT !["LOGOUT"] = "acquire"]
            /\ \A c \in Command \ {"FETCH"} : ~Registered(c)
        BY <1>8, <2>2 DEF Leave, SessionStep, Become
      <3>2. \A c \in Command \ {"FETCH", "LOGOUT"} : ~Registered(c)'
        BY <1>0, <3>1 DEF Registered
      <3> QED BY <3>1, <3>2 DEF SessionInv, LeftIsClosed
    <2> QED BY <2>1, <2>2
  <1>9. CASE LogoutTimesOut
    <2>1. /\ step = "LOGOUT" /\ step' = "closing" /\ UNCHANGED <<failed, line>>
          /\ pc' = [pc EXCEPT !["LOGOUT"] = "timeout"]
          /\ pc["LOGOUT"] # "idle"
      BY <1>0, <1>9 DEF LogoutTimesOut, SessionStep, Become
    <2>2. \A c \in Command \ {"FETCH", "LOGOUT"} : ~Registered(c)'
      BY <1>0, <2>1 DEF Registered, SessionInv
    <2> QED BY <2>1, <2>2 DEF SessionInv, LeftIsClosed
  <1>10. CASE LogoutReturns
    BY <1>10 DEF LogoutReturns, SessionStep, SessionInv, LeftIsClosed, Registered
  <1>11. CASE Close
    BY <1>0, <1>11 DEF Close, SessionStep, SessionInv, LeftIsClosed, Registered
  <1>12. CASE Join
    BY <1>12 DEF Join, SessionStep, SessionInv, LeftIsClosed, Registered
  <1> QED
    BY <1>2, <1>3, <1>4, <1>5, <1>6, <1>7, <1>8, <1>9, <1>10, <1>11, <1>12 DEF Enter, Exit

\* What a command does to where the commands are.
LEMMA CommandMoves ==
    ASSUME TypeInv, NEW c \in Command, Run(c)
    PROVE  /\ UNCHANGED <<session, step, failed, reader, line, toClient, serverVars, answer>>
           /\ \A d \in Command \ {c} :
                 pc'[d] = pc[d] /\ writer'[d] = writer[d] /\ pieces'[d] = pieces[d]
           /\ \/ pc'[c] = pc[c]
              \/ pc[c] = "acquire" /\ pc'[c] = "lock" /\ Name(c) \notin InUse
              \/ pc[c] = "lock" /\ pc'[c] = "started" /\ LockFree
              \/ pc[c] = "started" /\ pc'[c] = "wait"
              \/ pc[c] \in {"started", "wait"} /\ pc'[c] = "ok" /\ answer[c] = "OK"
              \/ pc[c] \in {"started", "wait"} /\ pc'[c] = "no" /\ answer[c] = "NO"
              \/ pc[c] = "wait" /\ pc'[c] = "timeout"
  <1> USE DEF CommandStep, Become
  <1>0. CommandTypes
    BY DEF TypeInv
  <1>1. CASE AcquireName(c)
    BY <1>0, <1>1 DEF AcquireName, CommandTypes
  <1>2. CASE AcquireLock(c)
    BY <1>0, <1>2 DEF AcquireLock, CommandTypes
  <1>3. CASE Write(c)
    <2>1. CASE pieces[c] = Literals(c)
      BY <1>0, <1>3, <2>1 DEF Write, WriterDone, CommandTypes
    <2>2. CASE pieces[c] # Literals(c)
      BY <1>0, <1>3, <2>2 DEF Write, CommandTypes
    <2> QED BY <2>1, <2>2
  <1>4. CASE WriteFails(c)
    BY <1>0, <1>4 DEF WriteFails, WriterDone, CommandTypes
  <1>5. CASE Return(c)
    BY <1>0, <1>5 DEF Return, CommandTypes
  <1>6. CASE GiveUp(c)
    BY <1>0, <1>6 DEF GiveUp, CommandTypes
  <1> QED BY <1>1, <1>2, <1>3, <1>4, <1>5, <1>6 DEF Run

\* ... so does every other step.
LEMMA SessionStepInv == TypeInv /\ SessionInv /\ [Next]_vars => SessionInv'
  <1> SUFFICES ASSUME TypeInv, SessionInv, [Next]_vars PROVE SessionInv'
    OBVIOUS
  <1>1. ASSUME NEW c \in Command, Run(c) PROVE SessionInv'
    <2>1. UNCHANGED <<step, failed, reader, line>>
      BY <1>1, CommandMoves
    <2>2. \A d \in Command : /\ pc[d] = "idle" <=> pc'[d] = "idle"
                             /\ Registered(d)' => Registered(d)
      BY <1>1, CommandMoves DEF Registered
    <2> QED BY <2>1, <2>2, Commands DEF SessionInv, LeftIsClosed
  <1>2. CASE Reader
    BY <1>2, ReaderMoves DEF SessionInv, LeftIsClosed, Registered, ReaderDone
  <1>3. CASE Serve \/ Misbehave
    <2>1. UNCHANGED <<step, failed, reader, pc>> /\ line = "open"
      BY <1>3, ServerMoves DEF commandVars
    <2>2. line' \in {"open", "eof", "closed", "reset"}
      BY <1>3, <2>1 DEF Serve, Misbehave, ReadEnd, ReadLiteral, RefuseLiteral, ReadMixed, NextPiece,
                   Answer, Unsolicited, FallSilent, HangUp
    <2> QED BY <2>1, <2>2 DEF SessionInv, LeftIsClosed, Registered
  <1>4. CASE UNCHANGED vars
    BY <1>4 DEF SessionInv, LeftIsClosed, Registered, vars, commandVars
  <1> QED BY <1>1, <1>2, <1>3, <1>4, SessionSession DEF Next, Client

(***************************************************************************)
(* Whoever leaves a session without an exception of __aenter__ or of       *)
(* LOGOUT has closed the connection and seen the reader end.               *)
(***************************************************************************)
THEOREM LeavingCloses == Spec => []LeftIsClosed
  <1>1. SessionInv => LeftIsClosed
    BY DEF SessionInv
  <1> QED BY <1>1, TypeInit, TypeStep, SessionInit, SessionStepInv, PTL DEF Spec

-----------------------------------------------------------------------------
(* The holders of the names and of the lock *)

\* Nobody holds anything at first.
LEMMA HoldersInit == Init => HoldersInv
  BY DEF Init, HoldersInv

\* The session moves commands only to the wait for a name, and LOGOUT to its timeout.
LEMMA HoldersStep == TypeInv /\ HoldersInv /\ [Next]_vars => HoldersInv'
  <1> SUFFICES ASSUME TypeInv, HoldersInv, [Next]_vars PROVE HoldersInv'
    OBVIOUS
  <1>0. pc \in [Command -> Phases]
    BY DEF TypeInv, CommandTypes
  <1>1. ASSUME Enter \/ Exit \/ \E c \in UNION Sessions : Use(c) PROVE HoldersInv'
    <2>1. \A c \in Command : pc'[c] \in {pc[c], "acquire", "timeout"}
      BY <1>0, <1>1, SessionMoves
    <2> QED BY <2>1 DEF HoldersInv
  <1>2. ASSUME NEW c \in Command, Run(c) PROVE HoldersInv'
    <2>1. /\ \A d \in Command \ {c} : pc'[d] = pc[d]
          /\ \/ pc'[c] = pc[c]
             \/ pc[c] = "acquire" /\ pc'[c] = "lock" /\ Name(c) \notin InUse
             \/ pc[c] = "lock" /\ pc'[c] = "started" /\ LockFree
             \/ pc[c] = "started" /\ pc'[c] = "wait"
             \/ pc'[c] \in {"ok", "no", "timeout"}
      BY <1>2, CommandMoves
    <2>2. CASE pc[c] = "acquire" /\ pc'[c] = "lock" /\ Name(c) \notin InUse
      <3>1. \A d \in Command :
               Name(d) = Name(c) => pc[d] \notin {"lock", "started", "wait"}
        BY <2>2 DEF InUse
      <3> QED BY <2>1, <2>2, <3>1 DEF HoldersInv
    <2>3. CASE pc[c] = "lock" /\ pc'[c] = "started" /\ LockFree
      BY <2>1, <2>3 DEF HoldersInv, LockFree
    <2>4. CASE pc'[c] = pc[c] \/ (pc[c] = "started" /\ pc'[c] = "wait")
      BY <2>1, <2>4 DEF HoldersInv
    <2>5. CASE pc'[c] \in {"ok", "no", "timeout"}
      BY <2>1, <2>5 DEF HoldersInv
    <2> QED BY <2>1, <2>2, <2>3, <2>4, <2>5
  <1>3. CASE Reader
    BY <1>3, ReaderMoves DEF HoldersInv
  <1>4. CASE Serve \/ Misbehave
    BY <1>4, ServerMoves DEF HoldersInv, commandVars
  <1>5. CASE UNCHANGED vars
    BY <1>5 DEF HoldersInv, vars, commandVars
  <1> QED BY <1>1, <1>2, <1>3, <1>4, <1>5 DEF Next, Client

-----------------------------------------------------------------------------
(* The pieces, and what the server makes of them *)

\* Nothing has been sent or answered at first.
LEMMA ServedInit == Init => SentInv /\ AnswerInv
  <1> SUFFICES ASSUME Init PROVE SentInv /\ AnswerInv
    OBVIOUS
  <1>1. Items(toServer) = {} /\ Distinct(toServer) /\ Items(toClient) = {}
    BY EmptyItems DEF Init
  <1>2. \A c \in Command : ~Decided(c) /\ serving[1] # c
    BY Commands DEF Init, Decided, Nothing
  <1>3. \A c \in Command : c \notin executing /\ answer[c] = "none" /\ pc[c] = "idle"
    BY DEF Init
  <1> QED BY <1>1, <1>2, <1>3 DEF SentInv, AnswerInv

\* A piece in its order is of a command that has not been decided yet.
LEMMA InOrderIsFresh ==
    ASSUME TypeInv, SentInv, NEW c \in Command, NEW k, NextPiece(c, k)
    PROVE  /\ Distinct(toServer')
           /\ Items(toServer') \subseteq Items(toServer)
           /\ InOrder(c, k) => ~Decided(c) /\ <<c, 1>> \notin Items(toServer') /\ pieces[c] > 0
  <1>1. toServer # <<>> /\ Head(toServer) = <<c, k>> /\ toServer' = Tail(toServer)
    BY DEF NextPiece
  <1>2. toServer \in Seq(Piece) /\ Distinct(toServer)
    BY DEF TypeInv, OtherTypes, SentInv
  <1>3. /\ Distinct(toServer')
        /\ Items(toServer') \subseteq Items(toServer)
        /\ <<c, k>> \in Items(toServer)
        /\ <<c, k>> \notin Items(toServer')
    BY <1>1, <1>2, TailItems
  <1>4. CASE k = 1
    <2>1. ~Decided(c)
      BY <1>3, <1>4 DEF SentInv
    <2>2. pieces[c] > 0
      <3>1. 1 <= pieces[c]
        BY <1>3, <1>4 DEF SentInv
      <3>2. pieces[c] \in 0..3
        BY DEF TypeInv, CommandTypes
      <3> QED BY <3>1, <3>2
    <2> QED BY <1>3, <1>4, <2>1, <2>2
  <1>5. CASE k # 1 /\ InOrder(c, k)
    <2>1. serving[1] = c
      BY <1>5 DEF InOrder
    <2> QED BY <1>3, <2>1 DEF SentInv
  <1> QED BY <1>3, <1>4, <1>5

\* The server decides no command twice.
LEMMA SentServer ==
    ASSUME TypeInv, SentInv, Serve \/ Misbehave
    PROVE  SentInv'
  <1>0. /\ told \in [Command -> {"none", "OK", "NO"}]
        /\ Nothing[1] \notin Command
        /\ UNCHANGED <<pc, answer, pieces>>
    <2>1. Nothing[1] \notin Command
      BY Commands DEF Nothing
    <2>2. UNCHANGED <<pc, answer, pieces>>
      BY ServerMoves DEF commandVars
    <2> QED BY <2>1, <2>2 DEF TypeInv, OtherTypes
  <1>1. ASSUME NEW c \in Command, NEW k, NextPiece(c, k), InOrder(c, k)
        PROVE  /\ Distinct(toServer')
               /\ Items(toServer') \subseteq Items(toServer)
               /\ ~Decided(c) /\ <<c, 1>> \notin Items(toServer') /\ pieces[c] > 0
    BY <1>1, InOrderIsFresh
  <1>2. ASSUME NEW c \in Command, ReadEnd(c) PROVE SentInv'
    <2>1. NextPiece(c, Literals(c) + 1) /\ InOrder(c, Literals(c) + 1)
      BY <1>2 DEF ReadEnd
    <2>2. serving' = Nothing /\ executing' = executing \cup {c} /\ told' = told
      BY <1>2 DEF ReadEnd
    <2> QED BY <1>0, <1>1, <2>1, <2>2 DEF SentInv, Decided
  <1>3. ASSUME NEW c \in Command, NEW k \in 1..3, ReadLiteral(c, k) PROVE SentInv'
    <2>1. NextPiece(c, k) /\ InOrder(c, k)
      BY <1>3 DEF ReadLiteral
    <2>2. serving' = <<c, k>> /\ executing' = executing /\ told' = told
      BY <1>3 DEF ReadLiteral
    <2>3. serving'[1] = c
      BY <2>2
    <2> QED BY <1>0, <1>1, <2>1, <2>2, <2>3 DEF SentInv, Decided
  <1>4. ASSUME NEW c \in Command, NEW k \in 1..3, RefuseLiteral(c, k) PROVE SentInv'
    <2>1. NextPiece(c, k) /\ InOrder(c, k)
      BY <1>4 DEF RefuseLiteral
    <2>2. /\ serving' = Nothing /\ executing' = executing
          /\ told' = [told EXCEPT ![c] = "NO"]
      BY <1>4 DEF RefuseLiteral
    <2>3. \A d \in Command : told'[d] = IF d = c THEN "NO" ELSE told[d]
      BY <1>0, <2>2
    <2>4. c \notin executing
      BY <1>1, <2>1 DEF Decided
    <2> QED BY <1>0, <1>1, <2>1, <2>2, <2>3, <2>4 DEF SentInv, Decided
  <1>5. ASSUME NEW c \in Command, NEW k \in 1..3, ReadMixed(c, k) PROVE SentInv'
    <2>1. NextPiece(c, k)
      BY <1>5 DEF ReadMixed
    <2>2. serving' = Nothing /\ executing' = executing /\ told' = told
      BY <1>5 DEF ReadMixed
    <2> QED BY <1>0, <2>1, <2>2, InOrderIsFresh DEF SentInv, Decided
  <1>6. ASSUME NEW c \in Command, Answer(c) PROVE SentInv'
    <2>1. PICK state \in {"OK", "NO"} : told' = [told EXCEPT ![c] = state]
      BY <1>6 DEF Answer
    <2>2. \A d \in Command : told'[d] = IF d = c THEN state ELSE told[d]
      BY <1>0, <2>1
    <2>3. /\ UNCHANGED <<toServer, serving>>
          /\ c \in executing /\ executing' = executing \ {c}
      BY <1>6 DEF Answer
    <2> QED BY <1>0, <2>2, <2>3 DEF SentInv, Decided
  <1>7. ASSUME Unsolicited \/ FallSilent PROVE SentInv'
    <2>1. UNCHANGED <<toServer, serving, executing, told>>
      BY <1>7 DEF Unsolicited, FallSilent, Fault
    <2> QED BY <1>0, <2>1 DEF SentInv, Decided
  <1>8. ASSUME HangUp PROVE SentInv'
    <2>1. toServer' = <<>> /\ serving' = Nothing /\ UNCHANGED <<executing, told>>
      BY <1>8 DEF HangUp, Fault
    <2> QED BY <1>0, <2>1, EmptyItems DEF SentInv, Decided
  <1> QED
    BY <1>2, <1>3, <1>4, <1>5, <1>6, <1>7, <1>8 DEF Serve, Misbehave

\* A command writes the next of its pieces, each of them once.
LEMMA SentCommand ==
    ASSUME TypeInv, SentInv, NEW c \in Command, Run(c)
    PROVE  SentInv'
  <1>1. UNCHANGED <<serving, executing, told>>
    BY CommandMoves DEF serverVars
  <1>2. CASE Write(c)
    <2>1. /\ pieces' = [pieces EXCEPT ![c] = pieces[c] + 1]
          /\ toServer' = toServer \/ toServer' = Append(toServer, <<c, pieces[c] + 1>>)
      BY <1>2 DEF Write
    <2>2. pieces \in [Command -> 0..3] /\ toServer \in Seq(Piece)
      BY DEF TypeInv, CommandTypes, OtherTypes
    <2>3. \A d \in Command : pieces'[d] = IF d = c THEN pieces[c] + 1 ELSE pieces[d]
      BY <2>1, <2>2
    <2>4. \A d \in Command : pieces[d] <= pieces'[d]
      BY <2>2, <2>3
    <2>5. <<c, pieces[c] + 1>> \in Piece
      <3>1. pieces[c] + 1 \in 1..3
        <4>1. Literals(c) \in 0..2 /\ pieces[c] <= Literals(c)
          BY <1>2, LiteralCount DEF Write, WriterDone, Become, TypeInv, CommandTypes, WriterInv
        <4> QED BY <2>2, <4>1
      <3> QED BY <3>1 DEF Piece
    <2>6. \A p \in Items(toServer) : p[1] \in Command /\ p[2] \in 1..3 /\ p = <<p[1], p[2]>>
      BY <2>2 DEF Items, Piece
    <2>7. <<c, pieces[c] + 1>> \notin Items(toServer)
      <3> SUFFICES ASSUME <<c, pieces[c] + 1>> \in Items(toServer) PROVE FALSE
        OBVIOUS
      <3>1. pieces[c] + 1 <= pieces[c]
        BY DEF SentInv
      <3> QED BY <2>2, <3>1
    <2>8. \A p \in Items(toServer) : p[2] <= pieces'[p[1]]
      <3> SUFFICES ASSUME NEW p \in Items(toServer) PROVE p[2] <= pieces'[p[1]]
        OBVIOUS
      <3>1. p[1] \in Command /\ p[2] \in Nat
        BY <2>6
      <3>2. p[2] <= pieces[p[1]]
        BY DEF SentInv
      <3>3. /\ pieces[p[1]] \in Nat
            /\ pieces'[p[1]] = pieces[p[1]] \/ pieces'[p[1]] = pieces[p[1]] + 1
        BY <2>2, <2>3, <3>1
      <3> QED BY <3>1, <3>2, <3>3
    <2>9. CASE toServer' = toServer
      BY <1>1, <2>2, <2>3, <2>8, <2>9 DEF SentInv, Decided
    <2>10. CASE toServer' = Append(toServer, <<c, pieces[c] + 1>>)
      <3>1. Distinct(toServer') /\ Items(toServer') = Items(toServer) \cup {<<c, pieces[c] + 1>>}
        <4>1. Distinct(toServer)
          BY DEF SentInv
        <4> QED BY <2>2, <2>5, <2>7, <2>10, <4>1, AppendItems
      <3>2. \A p \in Items(toServer') : p[2] <= pieces'[p[1]]
        BY <2>2, <2>3, <2>8, <3>1
      <3>3. ASSUME NEW d \in Command, Decided(d) \/ serving[1] = d
            PROVE  <<d, 1>> \notin Items(toServer') /\ pieces'[d] > 0
        <4>1. <<d, 1>> \notin Items(toServer) /\ pieces[d] > 0
          BY <3>3 DEF SentInv
        <4>2. <<d, 1>> # <<c, pieces[c] + 1>>
          BY <2>2, <4>1
        <4> QED BY <2>2, <2>3, <3>1, <4>1, <4>2
      <3> QED BY <1>1, <3>1, <3>2, <3>3 DEF SentInv, Decided
    <2> QED BY <2>1, <2>9, <2>10
  <1>3. CASE ~Write(c)
    <2>1. UNCHANGED <<toServer, pieces>>
      BY <1>3 DEF Run, AcquireName, AcquireLock, WriteFails, Return, GiveUp
    <2> QED BY <1>1, <2>1 DEF SentInv, Decided
  <1> QED BY <1>2, <1>3

\* Every step keeps what is known of the pieces.
LEMMA SentStep == TypeInv /\ SentInv /\ [Next]_vars => SentInv'
  <1> SUFFICES ASSUME TypeInv, SentInv, [Next]_vars PROVE SentInv'
    OBVIOUS
  <1>1. CASE Enter \/ Exit \/ \E c \in UNION Sessions : Use(c)
    BY <1>1, SessionMoves DEF SentInv, Decided, serverVars
  <1>2. CASE Reader
    BY <1>2, ReaderMoves DEF SentInv, Decided, serverVars
  <1>3. CASE UNCHANGED vars
    BY <1>3 DEF SentInv, Decided, vars, commandVars, serverVars
  <1> QED BY <1>1, <1>2, <1>3, SentCommand, SentServer DEF Next, Client

-----------------------------------------------------------------------------
(* The answers *)

\* The server answers a command that has no answer yet.
LEMMA Tells ==
    ASSUME TypeInv, SentInv, Serve \/ Misbehave
    PROVE  /\ \A c \in Command : told[c] # "none" => told'[c] = told[c]
           /\ \A r \in Items(toClient') :
                 r \in Items(toClient) \/ (r.type = "TAGGED" => told'[r.tag] = r.state)
  <1>0. told \in [Command -> {"none", "OK", "NO"}] /\ toClient \in Seq(Response)
    BY DEF TypeInv, OtherTypes
  <1>1. ASSUME NEW r \in Response, Send(r)
        PROVE  Items(toClient') \subseteq Items(toClient) \cup {r}
    <2>1. CASE reader = "run"
      BY <1>0, <1>1, <2>1, AppendItems DEF Send
    <2>2. CASE reader # "run"
      BY <1>1, <2>2, EmptyItems DEF Send
    <2> QED BY <2>1, <2>2
  <1> DEFINE Good ==
        /\ \A c \in Command : told[c] # "none" => told'[c] = told[c]
        /\ \A r \in Items(toClient') :
              r \in Items(toClient) \/ (r.type = "TAGGED" => told'[r.tag] = r.state)
  <1>2. ASSUME NEW c \in Command, NEW state \in {"OK", "NO"}, told[c] = "none",
               Send(Tagged(c, state)), told' = [told EXCEPT ![c] = state]
        PROVE  Good
    <2>1. told'[c] = state /\ \A d \in Command \ {c} : told'[d] = told[d]
      BY <1>0, <1>2
    <2>2. /\ Tagged(c, state) \in Response
          /\ Tagged(c, state).tag = c /\ Tagged(c, state).state = state
      BY Responses
    <2>3. Items(toClient') \subseteq Items(toClient) \cup {Tagged(c, state)}
      BY <1>1, <1>2, <2>2
    <2> QED BY <1>2, <2>1, <2>2, <2>3
  <1>3. ASSUME NEW c \in Command, NEW k \in 1..3, RefuseLiteral(c, k) PROVE Good
    <2>1. NextPiece(c, k) /\ InOrder(c, k)
      BY <1>3 DEF RefuseLiteral
    <2>2. told[c] = "none"
      BY <2>1, InOrderIsFresh DEF Decided
    <2> QED BY <1>2, <1>3, <2>2 DEF RefuseLiteral
  <1>4. ASSUME NEW c \in Command, Answer(c) PROVE Good
    <2>1. told[c] = "none"
      BY <1>4 DEF Answer, SentInv
    <2> QED BY <1>2, <1>4, <2>1 DEF Answer
  <1>5. ASSUME NEW type \in {"CONTINUE_REQ", "UNTAGGED", "GARBAGE"}, told' = told,
               Send([type |-> type]) \/ UNCHANGED toClient
        PROVE  Good
    <2>1. [type |-> type] \in Response /\ [type |-> type].type # "TAGGED"
      BY Responses
    <2> QED BY <1>1, <1>5, <2>1
  <1>6. ASSUME NEW c \in Command, ReadEnd(c) PROVE Good
    BY <1>6 DEF ReadEnd
  <1>7. ASSUME NEW c \in Command, NEW k \in 1..3, ReadLiteral(c, k) \/ ReadMixed(c, k) PROVE Good
    BY <1>5, <1>7 DEF ReadLiteral, ReadMixed
  <1>8. ASSUME Misbehave PROVE Good
    BY <1>5, <1>8 DEF Misbehave, Unsolicited, FallSilent, HangUp, Fault
  <1> QED BY <1>3, <1>4, <1>6, <1>7, <1>8 DEF Serve

\* Nothing but a response of the server makes a command succeed.
LEMMA AnswerStep == TypeInv /\ SentInv /\ AnswerInv /\ [Next]_vars => AnswerInv'
  <1> SUFFICES ASSUME TypeInv, SentInv, AnswerInv, [Next]_vars PROVE AnswerInv'
    OBVIOUS
  <1>0. /\ pc \in [Command -> Phases]
        /\ toClient \in Seq(Response)
    BY DEF TypeInv, CommandTypes, OtherTypes
  <1>1. CASE Enter \/ Exit \/ \E c \in UNION Sessions : Use(c)
    <2>1. UNCHANGED <<answer, told>> /\ \A c \in Command : pc'[c] = "ok" => pc[c] = "ok"
      BY <1>0, <1>1, SessionMoves DEF serverVars
    <2>2. toClient' = toClient \/ toClient' = <<[type |-> "UNTAGGED"]>>
      BY <1>1 DEF Enter, Exit, Connect, Greeted, CapabilitiesKnown, LoggedIn, EnterFails, Use,
                  Leave, LogoutTimesOut, LogoutReturns, Close, Join
    <2>3. \A r \in Items(<<[type |-> "UNTAGGED"]>>) : r.type # "TAGGED"
      BY DEF Items
    <2> QED BY <2>1, <2>2, <2>3 DEF AnswerInv
  <1>2. ASSUME NEW c \in Command, Run(c) PROVE AnswerInv'
    <2>1. UNCHANGED <<answer, told, toClient>>
      BY <1>2, CommandMoves DEF serverVars
    <2>2. \A d \in Command : pc'[d] = "ok" => pc[d] = "ok" \/ answer[d] = "OK"
      BY <1>2, CommandMoves
    <2> QED BY <2>1, <2>2 DEF AnswerInv
  <1>3. CASE Reader
    <2>1. UNCHANGED <<told, pc>>
      BY <1>3, ReaderMoves DEF serverVars
    <2>2. Items(toClient') \subseteq Items(toClient)
      <3>1. toClient' = toClient \/ (toClient # <<>> /\ toClient' = Tail(toClient))
        BY <1>3 DEF Reader, Receive, ReaderReset, ReaderEnds
      <3> QED BY <1>0, <3>1, TailItems
    <2>3. ASSUME NEW c \in Command
          PROVE  /\ answer'[c] = "OK" => told[c] = "OK"
                 /\ pc[c] = "ok" => answer'[c] = "OK"
      <3>1. CASE answer'[c] = answer[c]
        BY <3>1 DEF AnswerInv
      <3>2. CASE Registered(c) /\ answer'[c] = "NO"
        BY <3>2 DEF Registered
      <3>3. CASE /\ Registered(c)
                 /\ toClient # <<>>
                 /\ Head(toClient).type = "TAGGED"
                 /\ Head(toClient).tag = c
                 /\ answer'[c] = Head(toClient).state
        <4>1. Head(toClient) \in Items(toClient)
          BY <1>0, <3>3, TailItems
        <4>2. told[c] = Head(toClient).state
          BY <3>3, <4>1 DEF AnswerInv
        <4> QED BY <3>3, <4>2 DEF Registered
      <3> QED BY <1>3, <3>1, <3>2, <3>3, ReaderMoves
    <2> QED BY <2>1, <2>2, <2>3 DEF AnswerInv
  <1>4. CASE Serve \/ Misbehave
    <2>1. UNCHANGED <<pc, answer>>
      BY <1>4, ServerMoves DEF commandVars
    <2>2. \A c \in Command : told[c] # "none" => told'[c] = told[c]
      BY <1>4, Tells
    <2>3. \A r \in Items(toClient') :
             r \in Items(toClient) \/ (r.type = "TAGGED" => told'[r.tag] = r.state)
      BY <1>4, Tells
    <2>4. \A r \in Items(toClient) :
             r.type = "TAGGED" => told[r.tag] = r.state /\ told[r.tag] # "none" /\ r.tag \in Command
      <3>1. \A r \in Items(toClient) : r \in Response
        BY <1>0 DEF Items
      <3> QED BY <3>1, Responses DEF AnswerInv
    <2>5. \A r \in Items(toClient') : r.type = "TAGGED" => told'[r.tag] = r.state
      BY <2>2, <2>3, <2>4
    <2> QED BY <2>1, <2>2, <2>5 DEF AnswerInv
  <1>5. CASE UNCHANGED vars
    BY <1>5 DEF AnswerInv, vars, commandVars, serverVars
  <1> QED BY <1>1, <1>2, <1>3, <1>4, <1>5 DEF Next, Client

(***************************************************************************)
(* A command returns without an error only if the server has said OK to    *)
(* it, whatever else is under way and whatever the reader meets.           *)
(***************************************************************************)
THEOREM SuccessTold == Spec => []SuccessIsServed
  <1>1. AnswerInv => SuccessIsServed
    BY DEF AnswerInv, SuccessIsServed
  <1> QED
    BY <1>1, TypeInit, TypeStep, ServedInit, SentStep, AnswerStep, PTL DEF Spec

(***************************************************************************)
(* Of two commands of the same name the server does not see the second     *)
(* before it has answered the first or the client has given it up: the     *)
(* name is released when the first returns, and a command that returns     *)
(* without an error has been answered.                                     *)
(***************************************************************************)
THEOREM SameNameOrdered == Spec => []SameNameInTurn
  <1>1. TypeInv /\ HoldersInv /\ AnswerInv => SameNameInTurn
    <2> SUFFICES ASSUME TypeInv, HoldersInv, AnswerInv, NEW c \in Command, NEW d \in Command,
                        c # d, Name(c) = Name(d), pieces[c] > 0, pieces[d] > 0
                 PROVE  \E e \in {c, d} : told[e] # "none" \/ pc[e] \in {"timeout", "no"}
      BY DEF SameNameInTurn
    <2>1. \A e \in {c, d} : pc[e] \in {"started", "wait", "ok", "no", "timeout"}
      BY DEF TypeInv, CommandTypes, WriterInv, Phases
    <2>2. PICK e \in {c, d} : pc[e] \in {"ok", "no", "timeout"}
      BY <2>1 DEF HoldersInv
    <2>3. pc[e] = "ok" => told[e] = "OK"
      BY DEF AnswerInv
    <2> QED BY <2>2, <2>3
  <1> QED
    BY <1>1, TypeInit, TypeStep, HoldersInit, HoldersStep, ServedInit, SentStep, AnswerStep, PTL
       DEF Spec

-----------------------------------------------------------------------------
(* The order of the pieces *)

\* The line is empty at first.
LEMMA LineInit == Init => ServingInv /\ LineInv /\ MixedInv
  <1> SUFFICES ASSUME Init PROVE ServingInv /\ LineInv /\ MixedInv
    OBVIOUS
  <1>1. serving = Nothing /\ Last = Nothing /\ Complete(Last) /\ LineInOrder
    BY DEF Init, Last, Complete, LineInOrder
  <1>2. \A c \in Command : CommandInOrder(c)
    <2> SUFFICES ASSUME NEW c \in Command PROVE CommandInOrder(c)
      OBVIOUS
    <2>1. /\ pieces[c] = 0 /\ writer[c] = "none" /\ answer[c] = "none"
          /\ told[c] = "none" /\ c \notin executing
      BY DEF Init
    <2> QED BY <2>1, LiteralCount DEF CommandInOrder, Decided
  <1> QED BY <1>1, <1>2 DEF Init, ServingInv, LineInv, MixedInv

\* What the server waits for is bounded by the literals of the command.
LEMMA ServingStep == TypeInv /\ ServingInv /\ [Next]_vars => ServingInv'
  <1> SUFFICES ASSUME TypeInv, ServingInv, [Next]_vars PROVE ServingInv'
    OBVIOUS
  <1>1. CASE serving' = serving \/ serving' = Nothing
    BY <1>1 DEF ServingInv
  <1>2. ASSUME NEW c \in Command, NEW k \in 1..3, ReadLiteral(c, k) PROVE ServingInv'
    BY <1>2 DEF ReadLiteral, ServingInv
  <1>3. CASE Enter \/ Exit \/ \E c \in UNION Sessions : Use(c)
    BY <1>1, <1>3, SessionMoves DEF serverVars
  <1>4. ASSUME NEW c \in Command, Run(c) PROVE ServingInv'
    BY <1>1, <1>4, CommandMoves DEF serverVars
  <1>5. CASE Reader
    BY <1>1, <1>5, ReaderMoves DEF serverVars
  <1>6. CASE Serve \/ Misbehave
    BY <1>1, <1>2, <1>6 DEF Serve, Misbehave, ReadEnd, RefuseLiteral, ReadMixed, Answer, Unsolicited,
                            FallSilent, HangUp
  <1>7. CASE UNCHANGED vars
    BY <1>1, <1>7 DEF vars, serverVars
  <1> QED BY <1>3, <1>4, <1>5, <1>6, <1>7 DEF Next, Client

\* What the last piece on the line may be.
LEMMA LastPiece ==
    ASSUME TypeInv, SentInv, ServingInv
    PROVE  /\ Last \in Piece \cup {Nothing}
           /\ ~Complete(Last) => Last[1] \in Command /\ Last[2] \in 1..Literals(Last[1])
  <1>0. /\ serving \in Piece \cup {Nothing} /\ toServer \in Seq(Piece)
        /\ pieces \in [Command -> 0..3]
    BY DEF TypeInv, CommandTypes, OtherTypes
  <1>1. CASE toServer = <<>>
    <2>1. Last = serving
      BY <1>1 DEF Last
    <2>2. ASSUME serving \in Piece, serving # Nothing
          PROVE  /\ serving[1] \in Command
                 /\ serving[2] \in 1..3 /\ serving[2] <= Literals(serving[1])
      BY <2>2 DEF Piece, ServingInv
    <2>3. CASE serving = Nothing
      BY <1>0, <2>1, <2>3 DEF Complete
    <2>4. CASE serving # Nothing
      BY <1>0, <2>1, <2>2, <2>4, LiteralCount
    <2> QED BY <2>3, <2>4
  <1>2. CASE toServer # <<>>
    <2>1. Last = toServer[Len(toServer)] /\ Len(toServer) \in Nat \ {0}
      BY <1>0, <1>2, TailItems DEF Last
    <2>2. Last \in Items(toServer) /\ Last \in Piece
      BY <1>0, <2>1 DEF Items
    <2>3. Last[1] \in Command /\ Last[2] \in 1..3
      BY <2>2 DEF Piece
    <2>4. Last[2] <= pieces[Last[1]]
      BY <2>2 DEF SentInv
    <2>5. pieces[Last[1]] <= Literals(Last[1]) + 1 /\ pieces[Last[1]] \in 0..3
      BY <1>0, <2>3 DEF TypeInv, CommandTypes, WriterInv
    <2>6. Literals(Last[1]) \in 0..2
      BY <2>3, LiteralCount
    <2> QED BY <2>2, <2>3, <2>4, <2>5, <2>6 DEF Complete
  <1> QED BY <1>1, <1>2

\* Whoever writes is the only one that has begun and not ended.
LEMMA OnlyWriter ==
    ASSUME IInv, Orderly, NEW c \in Command, writer[c] = "ready", NEW d \in Command, d # c
    PROVE  pieces[d] \notin 1..Literals(d)
  <1> SUFFICES ASSUME pieces[d] \in 1..Literals(d) PROVE FALSE
    OBVIOUS
  <1>1. CommandInOrder(c) /\ CommandInOrder(d)
    BY DEF IInv, LineInv
  <1>2. pc[d] = "started"
    BY <1>1 DEF CommandInOrder
  <1>3. pc[c] = "started" \/ (c = "LOGOUT" /\ pc[c] = "timeout")
    BY <1>1 DEF CommandInOrder
  <1>4. CASE pc[c] = "started"
    BY <1>2, <1>4 DEF IInv, HoldersInv
  <1>5. CASE c = "LOGOUT" /\ pc[c] = "timeout"
    <2>1. d = "FETCH"
      BY <1>2, <1>5 DEF IInv, SessionInv, Registered
    <2>2. Literals(d) = 0
      BY <2>1, Commands
    <2> QED BY <2>2
  <1> QED BY <1>3, <1>4, <1>5

\* What is written follows what is on the line.
LEMMA LineWrite ==
    ASSUME IInv, NEW c \in Command, Write(c)
    PROVE  LineInv'
  <1> SUFFICES ASSUME Orderly'
               PROVE  /\ LineInOrder'
                      /\ ~Complete(Last') => pieces'[Last'[1]] = Last'[2]
                      /\ \A d \in Command : CommandInOrder(d)'
    BY DEF LineInv, Complete
  <1>0. /\ TypeInv
        /\ pieces \in [Command -> 0..3] /\ toServer \in Seq(Piece)
    <2>1. TypeInv
      BY TypeInvIsTypeOK DEF IInv
    <2> QED BY <2>1 DEF TypeInv, CommandTypes, OtherTypes
  <1>1. Orderly /\ UNCHANGED <<line, reader, refused, serving, executing, told, answer>>
    BY DEF Write, CommandStep, Orderly, serverVars
  <1>2. /\ LineInOrder
        /\ ~Complete(Last) => pieces[Last[1]] = Last[2]
        /\ \A d \in Command : CommandInOrder(d)
    BY <1>1 DEF IInv, LineInv
  <1>3. /\ writer[c] = "ready" /\ pieces[c] <= Literals(c) /\ Literals(c) \in 0..2
        /\ pieces[c] \in 0..3
    BY <1>0, LiteralCount DEF Write, WriterDone, Become, TypeInv, CommandTypes, WriterInv
  <1>4. \A d \in Command : pieces'[d] = IF d = c THEN pieces[c] + 1 ELSE pieces[d]
    BY <1>0 DEF Write
  <1>5. line = "open"
    <2>1. pc[c] # "idle"
      BY <1>2, <1>3 DEF CommandInOrder
    <2>2. line # "none"
      BY <2>1 DEF IInv, SessionInv
    <2> QED BY <1>1, <2>2 DEF Orderly
  <1>6. toServer' = Append(toServer, <<c, pieces[c] + 1>>)
    BY <1>5 DEF Write
  <1>7. <<c, pieces[c] + 1>> \in Piece
    <2>1. pieces[c] + 1 \in 1..3
      BY <1>3
    <2> QED BY <2>1 DEF Piece
  <1>8. /\ toServer' # <<>> /\ Len(toServer') = Len(toServer) + 1 /\ Len(toServer) \in Nat
        /\ toServer'[Len(toServer) + 1] = <<c, pieces[c] + 1>>
        /\ \A i \in 1..Len(toServer) : toServer'[i] = toServer[i]
    BY <1>0, <1>6, <1>7, AppendItems
  <1>9. Last' = <<c, pieces[c] + 1>>
    BY <1>8 DEF Last
  <1>10. Follows(Last, <<c, pieces[c] + 1>>)
    <2>1. CASE pieces[c] = 0
      <3>1. SUFFICES ASSUME ~Complete(Last) PROVE FALSE
        BY <2>1 DEF Follows
      <3>2. Last[1] \in Command /\ Last[2] \in 1..Literals(Last[1])
        BY <1>0, <3>1, LastPiece DEF IInv
      <3>3. pieces[Last[1]] = Last[2]
        BY <1>2, <3>1
      <3>4. Last[1] # c
        BY <2>1, <3>2, <3>3
      <3> QED BY <1>1, <1>3, <3>2, <3>3, <3>4, OnlyWriter
    <2>2. CASE pieces[c] # 0
      <3>1. pieces[c] \in 1..Literals(c)
        BY <1>3, <2>2
      <3>2. Last = <<c, pieces[c]>>
        BY <1>2, <3>1 DEF CommandInOrder
      <3>3. pieces[c] + 1 # 1 /\ (pieces[c] + 1) - 1 = pieces[c]
        BY <1>3, <2>2
      <3> QED BY <3>2, <3>3 DEF Follows
    <2> QED BY <2>1, <2>2
  <1>11. LineInOrder'
    <2> SUFFICES ASSUME NEW i \in 1..(Len(toServer) + 1)
                 PROVE  Follows(Before(i)', toServer'[i])
      BY <1>8 DEF LineInOrder, Follows, Complete
    <2>1. CASE i \in 1..Len(toServer)
      <3>1. Before(i)' = Before(i)
        BY <1>1, <1>8, <2>1 DEF Before
      <3> QED BY <1>2, <1>8, <2>1, <3>1 DEF LineInOrder
    <2>2. CASE i = Len(toServer) + 1
      <3>1. Before(i)' = Last
        <4>1. CASE toServer = <<>>
          BY <1>1, <1>8, <2>2, <4>1 DEF Before, Last
        <4>2. CASE toServer # <<>>
          <5>1. Len(toServer) \in 1..Len(toServer) /\ i # 1 /\ i - 1 = Len(toServer)
            BY <1>0, <1>8, <2>2, <4>2, TailItems
          <5> QED BY <1>8, <4>2, <5>1 DEF Before, Last
        <4> QED BY <4>1, <4>2
      <3> QED BY <1>8, <1>10, <2>2, <3>1
    <2> QED BY <1>8, <2>1, <2>2
  <1>12. pieces'[Last'[1]] = Last'[2]
    BY <1>4, <1>9
  <1>13. ASSUME NEW d \in Command PROVE CommandInOrder(d)'
    <2>1. CommandInOrder(d)
      BY <1>2
    <2>2. Decided(d)' <=> Decided(d)
      BY <1>1 DEF Decided
    <2>3. CASE d = c
      <3>1. pieces[c] # Literals(c) => writer'[c] = "waiting" /\ UNCHANGED pc
        BY <1>0, <1>3 DEF Write, Become, TypeInv, CommandTypes
      <3>2. pieces[c] = Literals(c) => writer'[c] = "done"
        BY <1>0 DEF Write, WriterDone, Become, TypeInv, CommandTypes
      <3>3. ~Decided(c)
        BY <1>3, <2>1, <2>3 DEF CommandInOrder
      <3>4. pieces'[c] = pieces[c] + 1
        BY <1>4
      <3>5. pieces[c] # Literals(c) => pc[c] = "started"
        <4>1. c = "LOGOUT" => Literals(c) = 0
          BY Commands
        <4>2. c = "LOGOUT" => pieces[c] = Literals(c)
          BY <1>3, <4>1
        <4> QED BY <1>2, <1>3, <4>2 DEF CommandInOrder
      <3>6. pieces'[c] \in 1..Literals(c) => pc'[c] = "started"
        BY <1>3, <3>1, <3>4, <3>5
      <3>7. writer'[c] \in {"ready", "waiting"} => pc'[c] = "started"
        BY <3>1, <3>2, <3>5
      <3> QED BY <1>1, <1>9, <2>1, <2>2, <2>3, <3>3, <3>4, <3>6, <3>7 DEF CommandInOrder
    <2>4. CASE d # c
      <3>1. pieces[d] \notin 1..Literals(d)
        BY <1>1, <1>3, <2>4, OnlyWriter
      <3>2. pc'[d] = pc[d] /\ writer'[d] = writer[d] /\ pieces'[d] = pieces[d]
        BY <1>0, <2>4, CommandMoves DEF Run
      <3> QED BY <1>1, <2>1, <2>2, <3>1, <3>2 DEF CommandInOrder
    <2> QED BY <2>3, <2>4
  <1> QED BY <1>11, <1>12, <1>13

\* The other steps of a command leave the pieces alone.
LEMMA LineCommand ==
    ASSUME IInv, NEW c \in Command, Run(c)
    PROVE  LineInv'
  <1>1. CASE Write(c)
    BY <1>1, LineWrite
  <1>2. CASE WriteFails(c)
    BY <1>2 DEF WriteFails, CommandStep, IsClosing, LineInv, Orderly
  <1>3. ASSUME Orderly', ~Write(c), ~WriteFails(c)
        PROVE  /\ LineInOrder'
               /\ (~Complete(Last))' => pieces'[Last'[1]] = Last'[2]
               /\ \A d \in Command : CommandInOrder(d)'
    <2>0. TypeInv
      BY TypeInvIsTypeOK DEF IInv
    <2>1. UNCHANGED <<toServer, serving, pieces, told, executing, answer, line, reader, refused>>
      BY <1>3 DEF Run, AcquireName, AcquireLock, Return, GiveUp, CommandStep, serverVars
    <2>2. Orderly
      BY <1>3, <2>1 DEF Orderly
    <2>3. /\ LineInOrder
          /\ ~Complete(Last) => pieces[Last[1]] = Last[2]
          /\ \A d \in Command : CommandInOrder(d)
      BY <2>2 DEF IInv, LineInv
    <2>4. ASSUME NEW d \in Command PROVE CommandInOrder(d)'
      <3>1. CommandInOrder(d)
        BY <2>3
      <3>2. CASE d # c
        BY <2>0, <2>1, <3>1, <3>2, CommandMoves DEF CommandInOrder, Last, Decided
      <3>3. CASE d = c /\ AcquireName(c)
        <4>1. pc[c] = "acquire" /\ writer' = writer
          BY <3>3 DEF AcquireName, Become
        <4>2. writer[c] = "none" /\ pieces[c] = 0
          BY <4>1 DEF IInv, WriterInv
        <4> QED BY <2>1, <3>1, <3>3, <4>1, <4>2 DEF CommandInOrder, Last, Decided
      <3>4. CASE d = c /\ AcquireLock(c)
        <4>1. pc[c] = "lock" /\ pc'[c] = "started"
          BY <2>0, <3>4 DEF AcquireLock, Become, TypeInv, CommandTypes
        <4>2. pieces[c] = 0
          BY <4>1 DEF IInv, WriterInv
        <4> QED BY <2>1, <3>1, <3>4, <4>1, <4>2 DEF CommandInOrder, Last, Decided
      <3>5. CASE d = c /\ Return(c)
        <4>1. answer[c] # "none" /\ writer' = writer
          BY <3>5 DEF Return
        <4>2. Decided(c)
          BY <3>1, <3>5, <4>1 DEF CommandInOrder, Decided
        <4>3. pieces[c] = Literals(c) + 1
          BY <3>1, <3>5, <4>2 DEF CommandInOrder
        <4>4. writer[c] \notin {"ready", "waiting"} /\ pieces[c] \notin 1..Literals(c)
          BY <4>3, LiteralCount DEF IInv, WriterInv
        <4> QED BY <2>1, <3>1, <3>5, <4>1, <4>4 DEF CommandInOrder, Last, Decided
      <3>6. CASE d = c /\ GiveUp(c)
        <4>1. pc[c] = "wait" /\ writer' = writer
          BY <3>6 DEF GiveUp, Become
        <4> QED BY <2>1, <3>1, <3>6, <4>1 DEF CommandInOrder, Last, Decided
      <3> QED BY <1>3, <3>2, <3>3, <3>4, <3>5, <3>6 DEF Run
    <2> QED BY <2>1, <2>3, <2>4 DEF LineInOrder, Before, Last, Follows, Complete
  <1> QED BY <1>1, <1>2, <1>3 DEF LineInv

\* The session does not touch the line.
LEMMA LineSession ==
    ASSUME IInv, Enter \/ Exit \/ \E c \in UNION Sessions : Use(c)
    PROVE  LineInv'
  <1> SUFFICES ASSUME Orderly'
               PROVE  /\ LineInOrder'
                      /\ (~Complete(Last))' => pieces'[Last'[1]] = Last'[2]
                      /\ \A d \in Command : CommandInOrder(d)'
    BY DEF LineInv
  <1>0. TypeInv
    BY TypeInvIsTypeOK DEF IInv
  <1>1. UNCHANGED <<toServer, serving, pieces, writer, told, executing, answer, refused>>
    BY <1>0, SessionMoves DEF serverVars
  <1>2. Orderly
    <2>1. CASE Connect
      <3>1. step = "connect"
        BY <2>1 DEF Connect, SessionStep
      <3>2. line = "none" /\ reader = "none"
        BY <3>1 DEF IInv, SessionInv, MixedInv
      <3> QED BY <1>1, <3>2 DEF Orderly
    <2>2. CASE EnterFails
      BY <1>1, <2>2 DEF EnterFails, Orderly
    <2>3. CASE Close
      BY <1>1, <2>3 DEF Close, Orderly
    <2>4. CASE ~(Connect \/ EnterFails \/ Close)
      BY <1>1, <2>4 DEF Enter, Exit, Greeted, CapabilitiesKnown, LoggedIn, Use, Leave,
                        LogoutTimesOut, LogoutReturns, Join, Orderly
    <2> QED BY <2>1, <2>2, <2>3, <2>4
  <1>3. /\ LineInOrder
        /\ ~Complete(Last) => pieces[Last[1]] = Last[2]
        /\ \A d \in Command : CommandInOrder(d)
    BY <1>2 DEF IInv, LineInv
  <1>4. ASSUME NEW d \in Command PROVE CommandInOrder(d)'
    <2>0. pc \in [Command -> Phases]
      BY <1>0 DEF TypeInv, CommandTypes
    <2>1. CommandInOrder(d)
      BY <1>3
    <2>2. pc'[d] = pc[d] \/ pc[d] = "idle" \/ (d = "LOGOUT" /\ pc'[d] = "timeout")
      BY <1>0, <2>0, Commands, SessionMoves
    <2>3. CASE pc'[d] = pc[d]
      BY <1>1, <2>1, <2>3 DEF CommandInOrder, Last, Decided
    <2>4. CASE pc[d] = "idle"
      <3>1. writer[d] = "none" /\ pieces[d] = 0
        BY <2>4 DEF IInv, WriterInv
      <3> QED BY <1>1, <2>1, <3>1 DEF CommandInOrder, Last, Decided
    <2>5. CASE d = "LOGOUT" /\ pc'[d] = "timeout"
      <3>1. Literals(d) = 0
        BY <2>5, Commands
      <3>2. pieces[d] \notin 1..Literals(d)
        BY <3>1
      <3> QED BY <1>1, <2>1, <2>5, <3>2 DEF CommandInOrder, Last, Decided
    <2> QED BY <2>2, <2>3, <2>4, <2>5
  <1> QED BY <1>1, <1>3, <1>4 DEF LineInOrder, Before, Last, Follows, Complete

\* The reader does not touch the line either.
LEMMA LineReader ==
    ASSUME IInv, Reader
    PROVE  LineInv'
  <1> SUFFICES ASSUME Orderly'
               PROVE  /\ LineInOrder'
                      /\ (~Complete(Last))' => pieces'[Last'[1]] = Last'[2]
                      /\ \A d \in Command : CommandInOrder(d)'
    BY DEF LineInv
  <1>0. TypeInv
    BY TypeInvIsTypeOK DEF IInv
  <1>1. /\ UNCHANGED <<pc, pieces, line, toServer, serving, executing, told, refused>>
        /\ reader = "run"
    BY <1>0, ReaderMoves DEF serverVars
  <1>2. Orderly /\ reader' = "run"
    BY <1>0, <1>1, ReaderMoves DEF Orderly, ReaderDone
  <1>3. /\ LineInOrder
        /\ ~Complete(Last) => pieces[Last[1]] = Last[2]
        /\ \A d \in Command : CommandInOrder(d)
    BY <1>2 DEF IInv, LineInv
  <1>4. ASSUME NEW d \in Command PROVE CommandInOrder(d)'
    <2>1. CommandInOrder(d)
      BY <1>3
    <2>2. writer'[d] \in {"ready", "waiting"} => writer[d] \in {"ready", "waiting"}
      BY <1>0, ReaderMoves
    <2>3. answer'[d] # "none" => told[d] # "none"
      <3>1. CASE answer'[d] = answer[d]
        BY <2>1, <3>1 DEF CommandInOrder
      <3>2. CASE answer'[d] # answer[d]
        <4>1. /\ toClient # <<>>
              /\ Head(toClient).type = "TAGGED"
              /\ Head(toClient).tag = d
              /\ answer'[d] = Head(toClient).state
          BY <1>0, <1>2, <3>2, ReaderMoves
        <4>2. Head(toClient) \in Items(toClient)
          BY <1>0, <4>1, TailItems DEF TypeInv, OtherTypes
        <4> QED BY <4>1, <4>2 DEF IInv, AnswerInv
      <3> QED BY <3>1, <3>2
    <2> QED BY <1>1, <2>1, <2>2, <2>3 DEF CommandInOrder, Last, Decided
  <1> QED BY <1>1, <1>3, <1>4 DEF LineInOrder, Before, Last, Follows, Complete

\* As long as nothing disturbs the order, the next piece is in order.
LEMMA NextInOrder ==
    ASSUME IInv, Orderly, NEW c \in Command, NEW k, NextPiece(c, k)
    PROVE  InOrder(c, k)
  <1>0. toServer \in Seq(Piece) /\ serving \in Piece \cup {Nothing}
    BY TypeInvIsTypeOK DEF IInv, TypeInv, OtherTypes
  <1>1. toServer # <<>> /\ Head(toServer) = <<c, k>>
    BY DEF NextPiece
  <1>2. toServer[1] = <<c, k>> /\ 1 \in 1..Len(toServer)
    BY <1>0, <1>1, TailItems
  <1>3. Follows(serving, <<c, k>>)
    BY <1>2 DEF IInv, LineInv, LineInOrder, Before
  <1>4. CASE k = 1
    <2>1. Complete(serving)
      BY <1>3, <1>4 DEF Follows
    <2>2. SUFFICES ASSUME serving # Nothing PROVE FALSE
      BY <1>4 DEF InOrder
    <2>3. serving[1] \in Command /\ serving[2] = Literals(serving[1]) + 1
      BY <1>0, <2>1, <2>2 DEF Complete, Piece
    <2>4. serving[2] <= Literals(serving[1])
      BY <2>2 DEF IInv, ServingInv
    <2> QED BY <2>3, <2>4, LiteralCount
  <1>5. CASE k # 1
    BY <1>3, <1>5 DEF Follows, InOrder
  <1> QED BY <1>4, <1>5

\* What is left on the line after the next piece, if the server goes on from that piece or
\* has come to the end of the command.
LEMMA RestInOrder ==
    ASSUME IInv, Orderly, NEW c \in Command, NEW k, NextPiece(c, k),
           \/ serving' = <<c, k>>
           \/ serving' = Nothing /\ k = Literals(c) + 1
    PROVE  /\ LineInOrder'
           /\ Last' = Last \/ (Last' = Nothing /\ Last = <<c, k>>)
  <1>0. /\ TypeInv
        /\ toServer \in Seq(Piece)
        /\ pieces \in [Command -> 0..3]
    <2>1. TypeInv
      BY TypeInvIsTypeOK DEF IInv
    <2> QED BY <2>1 DEF TypeInv, CommandTypes, OtherTypes
  <1>1. toServer # <<>> /\ Head(toServer) = <<c, k>> /\ toServer' = Tail(toServer)
    BY DEF NextPiece
  <1>2. /\ toServer[1] = <<c, k>>
        /\ Len(toServer) \in Nat \ {0}
        /\ Len(toServer') = Len(toServer) - 1
        /\ \A i \in 1..(Len(toServer) - 1) : toServer'[i] = toServer[i + 1]
        /\ toServer' \in Seq(Piece)
    BY <1>0, <1>1, TailItems
  <1>3. \A i \in 1..Len(toServer) : Follows(Before(i), toServer[i])
    BY DEF IInv, LineInv, LineInOrder
  <1>4. ASSUME NEW i \in 1..(Len(toServer) - 1) PROVE Follows(Before(i)', toServer'[i])
    <2>1. /\ i + 1 \in 1..Len(toServer) /\ i + 1 # 1 /\ (i + 1) - 1 = i
          /\ toServer'[i] = toServer[i + 1]
      BY <1>2
    <2>2. Before(i + 1) = toServer[i]
      BY <2>1 DEF Before
    <2>3. Follows(toServer[i], toServer[i + 1])
      BY <1>3, <2>1, <2>2
    <2>4. CASE i # 1
      <3>1. i - 1 \in 1..(Len(toServer) - 1) /\ (i - 1) + 1 = i
        BY <1>2, <2>4
      <3>2. Before(i)' = toServer'[i - 1]
        BY <2>4 DEF Before
      <3>3. toServer'[i - 1] = toServer[i]
        BY <1>2, <3>1
      <3> QED BY <2>1, <2>3, <3>2, <3>3
    <2>5. CASE i = 1 /\ serving' = <<c, k>>
      <3>1. Before(i)' = toServer[i]
        BY <1>2, <2>5 DEF Before
      <3> QED BY <2>1, <2>3, <3>1
    <2>6. CASE i = 1 /\ serving' = Nothing /\ k = Literals(c) + 1
      <3>1. Before(i)' = Nothing
        BY <2>6 DEF Before
      <3> DEFINE q == toServer[i + 1]
      <3>2. Follows(<<c, k>>, q)
        BY <1>2, <2>3, <2>6
      <3>3. q \in Items(toServer) /\ q \in Piece
        BY <1>0, <2>1 DEF Items
      <3>4. q[1] \in Command /\ q[2] \in 1..3
        BY <3>3 DEF Piece
      <3>5. q[2] = 1
        <4>1. SUFFICES ASSUME q[2] # 1 PROVE FALSE
          OBVIOUS
        <4>2. <<c, k>> = <<q[1], q[2] - 1>>
          BY <3>2, <4>1 DEF Follows
        <4>3. c = q[1] /\ Literals(c) + 1 = q[2] - 1
          BY <2>6, <4>2
        <4>4. q[2] <= pieces[c]
          BY <3>3, <4>3 DEF IInv, SentInv
        <4>5. pieces[c] <= Literals(c) + 1
          BY DEF IInv, WriterInv
        <4> QED BY <1>0, <3>4, <4>3, <4>4, <4>5, LiteralCount
      <3> QED BY <2>1, <3>1, <3>5 DEF Follows, Complete
    <2> QED BY <2>4, <2>5, <2>6
  <1>5. LineInOrder'
    BY <1>2, <1>4 DEF LineInOrder, Follows, Complete
  <1>6. CASE toServer' = <<>>
    <2>1. Len(toServer) = 1
      BY <1>2, <1>6
    <2>2. Last = <<c, k>> /\ Last' = serving'
      BY <1>1, <1>2, <1>6, <2>1 DEF Last
    <2> QED BY <1>5, <2>2
  <1>7. CASE toServer' # <<>>
    <2>1. Len(toServer') \in Nat \ {0}
      BY <1>2, <1>7, TailItems
    <2>2. toServer'[Len(toServer')] = toServer[Len(toServer)]
      BY <1>2, <2>1
    <2> QED BY <1>1, <1>5, <1>7, <2>2 DEF Last
  <1> QED BY <1>6, <1>7

\* The server takes the pieces from the line in their order.
LEMMA LineServer ==
    ASSUME IInv, Serve \/ Misbehave
    PROVE  LineInv'
  <1> SUFFICES ASSUME Orderly'
               PROVE  /\ LineInOrder'
                      /\ (~Complete(Last))' => pieces'[Last'[1]] = Last'[2]
                      /\ \A d \in Command : CommandInOrder(d)'
    BY DEF LineInv
  <1> DEFINE Good ==
        /\ LineInOrder
        /\ ~Complete(Last) => pieces[Last[1]] = Last[2]
        /\ \A d \in Command : CommandInOrder(d)
  <1>0. TypeInv
    BY TypeInvIsTypeOK DEF IInv
  <1>1. UNCHANGED <<pc, answer, writer, pieces, reader>> /\ line = "open"
    BY ServerMoves DEF commandVars
  <1>2. Orderly
    <2>1. ~refused
      BY DEF Orderly, Serve, Misbehave, ReadEnd, ReadLiteral, RefuseLiteral, ReadMixed, Answer,
             Unsolicited, FallSilent, HangUp, Fault
    <2> QED BY <1>1, <2>1 DEF Orderly
  <1>3. Good
    BY <1>2 DEF IInv, LineInv
  <1>4. \A d \in Command : told[d] # "none" => told'[d] # "none"
    <2>1. \A d \in Command : told[d] # "none" => told'[d] = told[d]
      BY <1>0, Tells DEF IInv
    <2> QED BY <2>1
  <1>5. ASSUME LineInOrder', Last' = Last, \A d \in Command : Decided(d)' => Decided(d)
        PROVE  Good'
    <2>1. ASSUME NEW d \in Command PROVE CommandInOrder(d)'
      BY <1>1, <1>3, <1>4, <1>5 DEF CommandInOrder
    <2> QED BY <1>1, <1>3, <1>5, <2>1 DEF Complete
  <1>6. ASSUME NEW c \in Command, ReadEnd(c) PROVE Good'
    <2> DEFINE k == Literals(c) + 1
    <2>1. NextPiece(c, k) /\ serving' = Nothing /\ executing' = executing \cup {c} /\ told' = told
      BY <1>6 DEF ReadEnd
    <2>2. LineInOrder' /\ (Last' = Last \/ (Last' = Nothing /\ Last = <<c, k>>))
      BY <1>2, <2>1, RestInOrder
    <2>3. pieces[c] = k
      <3>1. toServer # <<>> /\ <<c, k>> = Head(toServer) /\ toServer \in Seq(Piece)
        BY <1>0, <2>1 DEF NextPiece, TypeInv, OtherTypes
      <3>2. <<c, k>> \in Items(toServer)
        BY <3>1, TailItems
      <3>3. k <= pieces[c] /\ pieces[c] <= Literals(c) + 1 /\ pieces[c] \in 0..3
        BY <1>0, <3>2 DEF IInv, SentInv, WriterInv, TypeInv, CommandTypes
      <3> QED BY <3>3, LiteralCount
    <2>4. ASSUME NEW d \in Command PROVE CommandInOrder(d)'
      <3>1. CommandInOrder(d)
        BY <1>3
      <3>2. Decided(d)' => Decided(d) \/ d = c
        BY <2>1 DEF Decided
      <3>3. Decided(d)' => pieces[d] = Literals(d) + 1
        BY <2>3, <3>1, <3>2 DEF CommandInOrder
      <3>4. pieces[d] \in 1..Literals(d) => Last' = <<d, pieces[d]>> /\ pc[d] = "started"
        <4> SUFFICES ASSUME pieces[d] \in 1..Literals(d)
                     PROVE  Last' = <<d, pieces[d]>> /\ pc[d] = "started"
          OBVIOUS
        <4>1. Last = <<d, pieces[d]>> /\ pc[d] = "started"
          BY <3>1 DEF CommandInOrder
        <4>2. Last # <<c, k>>
          <5>1. SUFFICES ASSUME d = c PROVE FALSE
            BY <4>1
          <5> QED BY <2>3, <5>1, LiteralCount
        <4> QED BY <2>2, <4>1, <4>2
      <3> QED BY <1>1, <2>1, <3>1, <3>3, <3>4 DEF CommandInOrder
    <2> QED BY <1>1, <1>3, <2>2, <2>4 DEF Complete
  <1>7. ASSUME NEW c \in Command, NEW k \in 1..3, ReadLiteral(c, k) PROVE Good'
    <2>1. /\ NextPiece(c, k) /\ k <= Literals(c)
          /\ serving' = <<c, k>> /\ UNCHANGED <<executing, told>>
      BY <1>7 DEF ReadLiteral
    <2>2. LineInOrder' /\ (Last' = Last \/ (Last' = Nothing /\ Last = <<c, k>>))
      BY <1>2, <2>1, RestInOrder
    <2>3. Last' # Nothing
      <3>1. CASE toServer' = <<>>
        BY <2>1, <3>1, Commands DEF Last, Nothing
      <3>2. CASE toServer' # <<>>
        <4>1. toServer' \in Seq(Piece)
          BY <1>0, <2>1, NextPieceTypes DEF TypeInv
        <4>2. Last' \in Piece
          BY <3>2, <4>1 DEF Last
        <4>3. Last'[1] \in Command
          BY <4>2 DEF Piece
        <4>4. Nothing[1] \notin Command
          BY Commands DEF Nothing
        <4> QED BY <4>3, <4>4
      <3> QED BY <3>1, <3>2
    <2> QED BY <1>5, <2>1, <2>2, <2>3 DEF Decided
  <1>8. ASSUME NEW c \in Command, NEW k \in 1..3, RefuseLiteral(c, k) PROVE Good'
    BY <1>8 DEF RefuseLiteral, Orderly
  <1>9. ASSUME NEW c \in Command, NEW k \in 1..3, ReadMixed(c, k) PROVE Good'
    BY <1>2, <1>9, NextInOrder DEF ReadMixed
  <1>10. ASSUME NEW c \in Command, Answer(c) PROVE Good'
    <2>1. UNCHANGED <<toServer, serving>> /\ c \in executing /\ executing' = executing \ {c}
      BY <1>10 DEF Answer
    <2>2. PICK state \in {"OK", "NO"} : told' = [told EXCEPT ![c] = state]
      BY <1>10 DEF Answer
    <2>3. \A d \in Command : d # c => told'[d] = told[d]
      BY <1>0, <2>2 DEF TypeInv, OtherTypes
    <2>4. \A d \in Command : Decided(d)' => Decided(d)
      BY <2>1, <2>3 DEF Decided
    <2> QED BY <1>3, <1>5, <2>1, <2>4 DEF LineInOrder, Before, Last, Follows, Complete
  <1>11. ASSUME Unsolicited \/ FallSilent PROVE Good'
    <2>1. UNCHANGED <<toServer, serving, executing, told>>
      BY <1>11 DEF Unsolicited, FallSilent, Fault
    <2> QED BY <1>3, <1>5, <2>1 DEF LineInOrder, Before, Last, Follows, Complete, Decided
  <1>12. ASSUME HangUp PROVE Good'
    BY <1>12 DEF HangUp, Orderly
  <1>13. Good'
    BY <1>6, <1>7, <1>8, <1>9, <1>10, <1>11, <1>12 DEF Serve, Misbehave
  <1> QED BY <1>13

\* The pieces do not mix before something disturbs their order.
LEMMA MixedStep == IInv /\ [Next]_vars => MixedInv'
  <1> SUFFICES ASSUME IInv, [Next]_vars PROVE MixedInv'
    OBVIOUS
  <1>0. TypeInv /\ SessionInv /\ MixedInv /\ step \in {"connect", "greeting", "CAPABILITY",
            "LOGIN", "inside", "LOGOUT", "closing", "joining", "left"}
    BY TypeInvIsTypeOK DEF IInv, TypeInv, OtherTypes
  <1>1. CASE Enter \/ Exit \/ \E c \in UNION Sessions : Use(c)
    <2>1. UNCHANGED <<refused, mixed>>
      BY <1>0, <1>1, SessionMoves DEF serverVars
    <2>2. step' # "connect"
      BY <1>0, <1>1 DEF Enter, Exit, SessionStep, Connect, Greeted, CapabilitiesKnown, LoggedIn,
                  EnterFails, Use, Leave, LogoutTimesOut, LogoutReturns, Close, Join
    <2>3. CASE Connect
      BY <1>0, <2>1, <2>2, <2>3 DEF Connect, SessionStep, MixedInv
    <2>4. CASE EnterFails
      BY <1>0, <2>1, <2>2, <2>4 DEF EnterFails, MixedInv
    <2>5. CASE ~(Connect \/ EnterFails)
      <3>1. UNCHANGED reader
        BY <1>1, <2>5 DEF Enter, Exit, Greeted, CapabilitiesKnown, LoggedIn, Use, Leave,
                          LogoutTimesOut, LogoutReturns, Close, Join
      <3> QED BY <1>0, <2>1, <2>2, <3>1 DEF MixedInv
    <2> QED BY <2>3, <2>4, <2>5
  <1>2. ASSUME NEW c \in Command, Run(c) PROVE MixedInv'
    BY <1>0, <1>2, CommandMoves DEF MixedInv, serverVars
  <1>3. CASE Reader
    <2>1. UNCHANGED <<step, refused, mixed>> /\ reader = "run"
      BY <1>0, <1>3, ReaderMoves DEF serverVars
    <2> QED BY <1>0, <2>1 DEF MixedInv
  <1>4. CASE Serve \/ Misbehave
    <2>1. UNCHANGED <<step, reader>> /\ line = "open"
      BY <1>4, ServerMoves
    <2>2. step # "connect"
      BY <1>0, <2>1 DEF SessionInv
    <2>3. CASE mixed' = mixed /\ (refused => refused')
      BY <1>0, <2>1, <2>2, <2>3 DEF MixedInv
    <2>4. ASSUME NEW c \in Command, NEW k \in 1..3, ReadMixed(c, k) PROVE MixedInv'
      <3>1. NextPiece(c, k) /\ ~InOrder(c, k) /\ refused' = refused
        BY <2>4 DEF ReadMixed
      <3>2. ~Orderly
        BY <3>1, NextInOrder
      <3> QED BY <2>1, <2>2, <3>1, <3>2 DEF Orderly, MixedInv
    <2> QED
      BY <1>4, <2>3, <2>4 DEF Serve, Misbehave, ReadEnd, ReadLiteral, RefuseLiteral, Answer,
                              Unsolicited, FallSilent, HangUp, Fault
  <1>5. CASE UNCHANGED vars
    BY <1>0, <1>5 DEF MixedInv, vars, serverVars
  <1> QED BY <1>1, <1>2, <1>3, <1>4, <1>5 DEF Next, Client

(***************************************************************************)
(* The pieces of two commands do not mix on their way to the server as     *)
(* long as the server refuses no literal and the reader runs, although a   *)
(* command may time out, be overlapped by others or be told to go on by an *)
(* untagged OK in the middle of its literal: the lock is held until its    *)
(* last piece is written.  Only LOGOUT gives up the lock earlier, when it  *)
(* times out, and it has but one piece.                                    *)
(***************************************************************************)
THEOREM NoMixing == Spec => []WritersDoNotMix
  <1>1. IInv => WritersDoNotMix
    BY DEF IInv, MixedInv, WritersDoNotMix
  <1>2. Init => IInv
    BY TypeInit, TypeInvIsTypeOK, SessionInit, HoldersInit, ServedInit, LineInit DEF IInv
  <1>3. IInv /\ [Next]_vars => IInv'
    <2> SUFFICES ASSUME IInv, [Next]_vars PROVE IInv'
      OBVIOUS
    <2>1. TypeInv
      BY TypeInvIsTypeOK DEF IInv
    <2>2. TypeInv'
      BY <2>1, TypeStep
    <2>3. TypeOK' /\ WriterInv'
      BY <2>2 DEF TypeInv, CommandTypes, OtherTypes, TypeOK, Phases
    <2>4. SessionInv' /\ HoldersInv' /\ SentInv' /\ ServingInv' /\ AnswerInv' /\ MixedInv'
      BY <2>1, SessionStepInv, HoldersStep, SentStep, ServingStep, AnswerStep, MixedStep DEF IInv
    <2>5. LineInv'
      <3>1. CASE UNCHANGED vars
        BY <3>1 DEF IInv, LineInv, Orderly, LineInOrder, Before, Last, Follows, Complete,
                    CommandInOrder, Decided, vars, commandVars, serverVars
      <3>2. CASE Next
        BY <3>2, LineSession, LineCommand, LineReader, LineServer DEF Next, Client
      <3> QED BY <3>1, <3>2
    <2> QED BY <2>3, <2>4, <2>5 DEF IInv
  <1> QED BY <1>1, <1>2, <1>3, PTL DEF Spec
=============================================================================
