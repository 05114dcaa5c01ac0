---------------------------- MODULE ImapQueueProofs ----------------------------
(***************************************************************************)
(* Theorems about ImapQueue, for any number of messages, any faults and    *)
(* any bound on them.  One invariant, RoundInv, carries all of them.       *)
(***************************************************************************)
EXTENDS ImapQueue, TLAPS

Items(s) == {s[i] : i \in 1..Len(s)}

\* No response with a message is in the queue twice.
Distinct(s) == \A i, j \in 1..Len(s) : i < j /\ s[i] # Bare => s[i] # s[j]

-----------------------------------------------------------------------------
(* Facts about sequences *)

\* What Append does to the content of a queue.
LEMMA AppendItems ==
    ASSUME NEW S, NEW s \in Seq(S), NEW e \in S
    PROVE  /\ Append(s, e) \in Seq(S)
           /\ Append(s, e) # <<>>
           /\ Items(Append(s, e)) = Items(s) \cup {e}
  <1>1. /\ Append(s, e) \in Seq(S)
        /\ Len(Append(s, e)) = Len(s) + 1
        /\ Append(s, e)[Len(s) + 1] = e
        /\ \A i \in 1..Len(s) : Append(s, e)[i] = s[i]
        /\ Len(s) \in Nat
    OBVIOUS
  <1>2. Append(s, e) # <<>>
    BY <1>1
  <1>3. Items(Append(s, e)) \subseteq Items(s) \cup {e}
    BY <1>1 DEF Items
  <1>4. Items(s) \cup {e} \subseteq Items(Append(s, e))
    BY <1>1 DEF Items
  <1> QED BY <1>1, <1>2, <1>3, <1>4

\* A queue stays without duplicates if what is appended is new or bare.
LEMMA AppendDistinct ==
    ASSUME NEW S, NEW s \in Seq(S), NEW e \in S, Distinct(s), e = Bare \/ e \notin Items(s)
    PROVE  Distinct(Append(s, e))
  <1>1. /\ Len(Append(s, e)) = Len(s) + 1
        /\ Append(s, e)[Len(s) + 1] = e
        /\ \A i \in 1..Len(s) : Append(s, e)[i] = s[i]
        /\ Len(s) \in Nat
    OBVIOUS
  <1>2. SUFFICES ASSUME NEW i \in 1..(Len(s) + 1), NEW j \in 1..(Len(s) + 1), i < j,
                        Append(s, e)[i] # Bare
                 PROVE  Append(s, e)[i] # Append(s, e)[j]
    BY <1>1 DEF Distinct
  <1>3. i \in 1..Len(s) /\ Append(s, e)[i] = s[i] /\ s[i] \in Items(s)
    BY <1>1, <1>2 DEF Items
  <1>4. CASE j \in 1..Len(s)
    BY <1>1, <1>2, <1>3, <1>4 DEF Distinct
  <1>5. CASE j = Len(s) + 1
    BY <1>1, <1>2, <1>3, <1>5
  <1> QED BY <1>1, <1>4, <1>5

\* What Head and Tail do to the content of a queue.
LEMMA TailItems ==
    ASSUME NEW S, NEW s \in Seq(S), s # <<>>
    PROVE  /\ Head(s) \in S
           /\ Tail(s) \in Seq(S)
           /\ Items(s) = {Head(s)} \cup Items(Tail(s))
           /\ Distinct(s) => Distinct(Tail(s))
           /\ Distinct(s) /\ Head(s) # Bare => Head(s) \notin Items(Tail(s))
  <1>1. /\ Tail(s) \in Seq(S)
        /\ Head(s) \in S
        /\ Head(s) = s[1]
        /\ Len(s) \in Nat \ {0}
        /\ Len(Tail(s)) = Len(s) - 1
        /\ \A i \in 1..(Len(s) - 1) : Tail(s)[i] = s[i + 1]
    OBVIOUS
  <1>2. \A i \in 1..Len(s) : s[i] = Head(s) \/ s[i] \in Items(Tail(s))
    <2> SUFFICES ASSUME NEW i \in 1..Len(s), i # 1
                 PROVE  s[i] \in Items(Tail(s))
      BY <1>1
    <2>1. i - 1 \in 1..(Len(s) - 1) /\ (i - 1) + 1 = i
      BY <1>1
    <2> QED BY <2>1, <1>1 DEF Items
  <1>3. \A i \in 1..(Len(s) - 1) : Tail(s)[i] \in Items(s)
    BY <1>1 DEF Items
  <1>4. Items(s) = {Head(s)} \cup Items(Tail(s))
    BY <1>1, <1>2, <1>3 DEF Items
  <1>5. Distinct(s) => Distinct(Tail(s))
    <2> SUFFICES ASSUME Distinct(s),
                        NEW i \in 1..(Len(s) - 1), NEW j \in 1..(Len(s) - 1), i < j,
                        Tail(s)[i] # Bare
                 PROVE  Tail(s)[i] # Tail(s)[j]
      BY <1>1 DEF Distinct
    <2>1. i + 1 \in 1..Len(s) /\ j + 1 \in 1..Len(s) /\ i + 1 < j + 1
      BY <1>1
    <2>2. Tail(s)[i] = s[i + 1] /\ Tail(s)[j] = s[j + 1]
      BY <1>1
    <2> QED BY <2>1, <2>2 DEF Distinct
  <1>6. Distinct(s) /\ Head(s) # Bare => Head(s) \notin Items(Tail(s))
    <2> SUFFICES ASSUME Distinct(s), Head(s) # Bare, NEW i \in 1..(Len(s) - 1)
                 PROVE  Tail(s)[i] # Head(s)
      BY <1>1 DEF Items
    <2>1. i + 1 \in 1..Len(s) /\ 1 \in 1..Len(s) /\ 1 < i + 1
      BY <1>1
    <2> QED BY <1>1, <2>1 DEF Distinct
  <1> QED BY <1>1, <1>4, <1>5, <1>6

\* An empty queue has no content.
LEMMA EmptyItems == Items(<<>>) = {} /\ Distinct(<<>>)
  BY DEF Items, Distinct

-----------------------------------------------------------------------------
(* The invariant *)

InRound == poll \in {"test", "get", "handle", "file", "await"}

\* Between rounds there is nothing; in a round there is mail and a FETCH.
Shape ==
    /\ poll \in {"sleep", "ended"} =>
           count = 0 /\ sent = 0 /\ fetch = "none" /\ queue = <<>> /\ cur = Bare
             /\ offered = {} /\ handled = {}
    /\ InRound => count > 0 /\ fetch # "none"

\* What was offered is handled, in hand, or in the queue, and in one of these places only.
Content ==
    /\ Distinct(queue)
    /\ Items(queue) \cap handled \subseteq {Bare}
    /\ poll \in {"handle", "file"} => cur # Bare
    /\ poll = "handle" => cur \notin handled \cup Items(queue)
    /\ offered \subseteq 1..sent
    /\ offered = handled \cup (Items(queue) \ {Bare})
                     \cup (IF poll = "handle" THEN {cur} ELSE {})

\* After the loop the queue is empty, and a round without an error has had a good FETCH.
Finished ==
    /\ poll = "await" => FetchDone /\ Items(queue) \subseteq {Bare}
    /\ poll = "leave" /\ outcome = "completed" => fetch \in {"none", "ok"} /\ handled = offered

\* With a server that answers in full no message is filed before the FETCH is done.
Unspoiled ==
    ~spoiled =>
        /\ offered = 1..sent
        /\ fetch \in {"answered", "ok"} => sent = count
        /\ fetch # "failed"
        /\ poll \in {"test", "get"} /\ ~FetchDone => handled = {}
        /\ poll = "get" /\ FetchDone => queue # <<>>

RoundInv == TypeOK /\ Shape /\ Content /\ Finished /\ Unspoiled

-----------------------------------------------------------------------------
\* The invariant holds at the beginning.
LEMMA InitInv == Init => RoundInv
  <1> SUFFICES ASSUME Init PROVE RoundInv
    OBVIOUS
  <1> USE DEF Init, Bare
  <1>1. TypeOK
    <2>1. queue \in Seq(0..count)
      OBVIOUS
    <2>2. faults \in 0..MaxFaults
      BY BoundAssumption
    <2>3. sent \in 0..count /\ cur \in 0..count
      OBVIOUS
    <2> QED BY <2>1, <2>2, <2>3 DEF TypeOK
  <1>2. Shape /\ Finished
    BY DEF Shape, InRound, Finished
  <1>3. Content
    BY EmptyItems DEF Content
  <1>4. Unspoiled
    BY DEF Unspoiled, FetchDone
  <1> QED BY <1>1, <1>2, <1>3, <1>4 DEF RoundInv

\* A fault is counted within its bound.
LEMMA FaultType ==
    ASSUME NEW kind, Fault(kind), faults \in 0..MaxFaults
    PROVE  faults' \in 0..MaxFaults
  BY BoundAssumption DEF Fault

\* What a new round starts from.
LEMMA SelectInv ==
    ASSUME RoundInv, NEW n \in 0..MaxCount, Select(n)
    PROVE  RoundInv'
  <1> USE DEF Select, Bare
  <1>1. count = 0 /\ sent = 0 /\ queue = <<>> /\ cur = 0 /\ offered = {} /\ handled = {}
    BY DEF RoundInv, Shape
  <1>2. n \in Nat
    BY BoundAssumption
  <1>3. TypeOK'
    BY <1>1, <1>2 DEF RoundInv, TypeOK
  <1>4. Shape'
    BY <1>1, <1>2 DEF Shape, InRound
  <1>5. Content'
    BY <1>1, EmptyItems DEF Content
  <1>6. Finished'
    BY <1>1 DEF Finished, FetchDone
  <1>7. Unspoiled'
    BY <1>1 DEF Unspoiled, FetchDone
  <1> QED BY <1>3, <1>4, <1>5, <1>6, <1>7 DEF RoundInv

\* SELECT fails or stalls: there is no round.
LEMMA SelectFailsInv ==
    ASSUME RoundInv, SelectFails \/ SelectStalls
    PROVE  RoundInv'
  <1> USE DEF SelectFails, SelectStalls, roundVars, RoundInv
  <1>1. faults' \in 0..MaxFaults
    BY FaultType DEF TypeOK
  <1>2. TypeOK'
    BY <1>1 DEF TypeOK
  <1>3. Shape'
    BY DEF Shape, InRound
  <1>4. Content'
    BY DEF Content, Items, Distinct
  <1>5. Finished'
    BY DEF Finished, FetchDone
  <1>6. Unspoiled'
    BY DEF Unspoiled, FetchDone
  <1> QED BY <1>2, <1>3, <1>4, <1>5, <1>6

\* The test of the loop.
LEMMA TestInv ==
    ASSUME RoundInv, Test
    PROVE  RoundInv'
  <1> USE DEF Test, roundVars, RoundInv
  <1>1. TypeOK'
    BY DEF TypeOK
  <1>2. Shape'
    BY DEF Shape, InRound
  <1>3. Content'
    BY DEF Content, Items, Distinct
  <1>4. Finished'
    BY EmptyItems DEF Finished, FetchDone
  <1>5. Unspoiled'
    BY DEF Unspoiled, FetchDone
  <1> QED BY <1>1, <1>2, <1>3, <1>4, <1>5

\* A response is taken from the queue.
LEMMA GetInv ==
    ASSUME RoundInv, Get
    PROVE  RoundInv'
  <1> USE DEF Get, RoundInv
  <1>1. /\ Head(queue) \in 0..count
        /\ Tail(queue) \in Seq(0..count)
        /\ Items(queue) = {Head(queue)} \cup Items(Tail(queue))
        /\ Distinct(Tail(queue))
        /\ Head(queue) # Bare => Head(queue) \notin Items(Tail(queue))
    BY TailItems DEF TypeOK, Content
  <1>2. TypeOK'
    BY <1>1 DEF TypeOK
  <1>3. Shape'
    BY DEF Shape, InRound
  <1>4. Content'
    <2>1. Items(queue') \cap handled' \subseteq {Bare}
      BY <1>1 DEF Content
    <2>2. poll' = "handle" => cur' \notin handled' \cup Items(queue')
      BY <1>1 DEF Content
    <2>3. offered' = handled' \cup (Items(queue') \ {Bare})
                       \cup (IF poll' = "handle" THEN {cur'} ELSE {})
      BY <1>1 DEF Content
    <2> QED BY <1>1, <2>1, <2>2, <2>3 DEF Content
  <1>5. Finished'
    BY DEF Finished, FetchDone
  <1>6. Unspoiled'
    BY DEF Unspoiled, FetchDone
  <1> QED BY <1>2, <1>3, <1>4, <1>5, <1>6

\* A message is handled.
LEMMA HandleInv ==
    ASSUME RoundInv, Handle
    PROVE  RoundInv'
  <1> USE DEF Handle, RoundInv
  <1>1. TypeOK'
    BY DEF TypeOK, Content
  <1>2. Shape'
    BY DEF Shape, InRound
  <1>3. Content'
    BY DEF Content, Items, Distinct
  <1>4. Finished'
    BY DEF Finished, FetchDone
  <1>5. Unspoiled'
    BY DEF Unspoiled, FetchDone
  <1> QED BY <1>1, <1>2, <1>3, <1>4, <1>5

\* A message is filed, or cannot be.
LEMMA MoveInv ==
    ASSUME RoundInv, MoveReturns \/ MoveFails \/ MoveStalls
    PROVE  RoundInv'
  <1> USE DEF MoveReturns, MoveFails, MoveStalls, roundVars, RoundInv
  <1>1. faults' \in 0..MaxFaults
    BY FaultType DEF TypeOK
  <1>2. TypeOK'
    BY <1>1 DEF TypeOK
  <1>3. Shape'
    BY DEF Shape, InRound
  <1>4. Content'
    BY DEF Content, Items, Distinct
  <1>5. Finished'
    BY DEF Finished, FetchDone
  <1>6. Unspoiled'
    BY DEF Unspoiled, FetchDone
  <1> QED BY <1>2, <1>3, <1>4, <1>5, <1>6

\* The round ends with the FETCH, and the client is left.
LEMMA LeaveInv ==
    ASSUME RoundInv, AwaitFetch \/ Leave \/ PollEnds \/ StopConsumer
    PROVE  RoundInv'
  <1>1. CASE AwaitFetch
    <2> USE <1>1 DEF AwaitFetch, roundVars, RoundInv
    <2>1. TypeOK' /\ Shape'
      BY DEF TypeOK, Shape, InRound
    <2>2. Content'
      BY DEF Content, Items, Distinct
    <2>3. Finished'
      BY DEF Finished, FetchDone, Content
    <2>4. Unspoiled'
      BY DEF Unspoiled, FetchDone
    <2> QED BY <2>1, <2>2, <2>3, <2>4
  <1>2. CASE Leave
    <2> USE <1>2 DEF Leave, NewRound, RoundInv, Bare
    <2>1. TypeOK' /\ Shape'
      BY DEF TypeOK, Shape, InRound
    <2>2. Content'
      BY EmptyItems DEF Content
    <2>3. Finished' /\ Unspoiled'
      BY DEF Finished, Unspoiled, FetchDone
    <2> QED BY <2>1, <2>2, <2>3
  <1>3. CASE PollEnds \/ StopConsumer
    <2> USE <1>3 DEF PollEnds, StopConsumer, roundVars, RoundInv
    <2>1. TypeOK' /\ Shape'
      BY DEF TypeOK, Shape, InRound
    <2>2. Content'
      BY DEF Content, Items, Distinct
    <2>3. Finished' /\ Unspoiled'
      BY DEF Finished, Unspoiled, FetchDone
    <2> QED BY <2>1, <2>2, <2>3
  <1> QED BY <1>1, <1>2, <1>3

\* The server sends a message.
LEMMA SendMessageInv ==
    ASSUME RoundInv, SendMessage
    PROVE  RoundInv'
  <1> USE DEF SendMessage, AnswerStep, RoundInv
  <1>1. sent + 1 \in 1..count /\ sent + 1 \in 0..count /\ sent \in Nat /\ sent + 1 # Bare
    BY DEF TypeOK, Bare
  <1>2. sent + 1 \notin offered
    BY <1>1 DEF Content
  <1>3. sent + 1 \notin Items(queue) \cup handled
    BY <1>1, <1>2 DEF Content
  <1>4. /\ queue' \in Seq(0..count)
        /\ queue' # <<>>
        /\ Items(queue') = Items(queue) \cup {sent + 1}
    BY <1>1, AppendItems DEF TypeOK
  <1>5. Distinct(queue')
    BY <1>1, <1>3, AppendDistinct DEF TypeOK, Content
  <1>6. poll \in {"test", "get", "handle", "file", "leave"}
    BY DEF Finished, FetchDone, Shape, TypeOK
  <1>7. TypeOK'
    BY <1>1, <1>4 DEF TypeOK
  <1>8. Shape'
    BY <1>6 DEF Shape, InRound
  <1>9. Content'
    <2>1. poll = "handle" => cur # sent + 1
      BY <1>2 DEF Content
    <2>2. offered' \subseteq 1..sent'
      BY <1>1 DEF Content
    <2>3. Items(queue') \cap handled' \subseteq {Bare}
      BY <1>3, <1>4 DEF Content
    <2>4. poll' = "handle" => cur' \notin handled' \cup Items(queue')
      BY <1>4, <2>1 DEF Content
    <2>5. offered' = handled' \cup (Items(queue') \ {Bare})
                       \cup (IF poll' = "handle" THEN {cur'} ELSE {})
      BY <1>1, <1>4 DEF Content
    <2> QED BY <1>5, <2>2, <2>3, <2>4, <2>5 DEF Content
  <1>10. Finished'
    BY <1>6 DEF Finished, FetchDone
  <1>11. Unspoiled'
    BY <1>1, <1>4 DEF Unspoiled, FetchDone
  <1> QED BY <1>7, <1>8, <1>9, <1>10, <1>11

\* The FETCH is answered, its task ends, or it fails.
LEMMA FetchInv ==
    ASSUME RoundInv, AnswerOk \/ FetchTaskReturns \/ FetchFails
    PROVE  RoundInv'
  <1> USE DEF AnswerOk, FetchTaskReturns, FetchFails, Spoil, AnswerStep, RoundInv
  <1>1. faults' \in 0..MaxFaults
    BY FaultType DEF TypeOK
  <1>2. TypeOK'
    BY <1>1 DEF TypeOK
  <1>3. Shape'
    BY DEF Shape, InRound
  <1>4. Content'
    BY DEF Content, Items, Distinct
  <1>5. Finished'
    BY DEF Finished, FetchDone
  <1>6. Unspoiled'
    <2> SUFFICES ASSUME ~spoiled, ~spoiled'
                 PROVE  Unspoiled'
      BY DEF Unspoiled
    <2>1. poll = "get" /\ fetch = "answered" => queue # <<>>
      <3> SUFFICES ASSUME poll = "get", fetch = "answered", queue = <<>>
                   PROVE  FALSE
        OBVIOUS
      <3>1. offered = 1..count /\ handled = {}
        BY DEF Unspoiled, FetchDone
      <3>2. 1 \in 1..count
        BY DEF Shape, InRound, TypeOK
      <3>3. Items(queue) = {}
        BY EmptyItems
      <3> QED BY <3>1, <3>2, <3>3 DEF Content
    <2> QED BY <2>1 DEF Unspoiled, FetchDone
  <1> QED BY <1>2, <1>3, <1>4, <1>5, <1>6

\* The server leaves a message out.
LEMMA SkipMessageInv ==
    ASSUME RoundInv, SkipMessage
    PROVE  RoundInv'
  <1> USE DEF SkipMessage, Spoil, AnswerStep, RoundInv
  <1>1. faults' \in 0..MaxFaults
    BY FaultType DEF TypeOK
  <1>2. TypeOK'
    BY <1>1 DEF TypeOK
  <1>3. Shape'
    BY DEF Shape, InRound
  <1>4. Content'
    <2>1. offered' \subseteq 1..sent'
      BY DEF Content, TypeOK
    <2> QED BY <2>1 DEF Content, Items, Distinct
  <1>5. Finished' /\ Unspoiled'
    BY DEF Finished, FetchDone, Unspoiled
  <1> QED BY <1>2, <1>3, <1>4, <1>5

\* The server adds a response without a message.
LEMMA SendUpdateInv ==
    ASSUME RoundInv, SendUpdate
    PROVE  RoundInv'
  <1> USE DEF SendUpdate, Spoil, AnswerStep, RoundInv
  <1>1. faults' \in 0..MaxFaults
    BY FaultType DEF TypeOK
  <1>2. Bare \in 0..count
    BY DEF Bare, TypeOK
  <1>3. /\ queue' \in Seq(0..count)
        /\ Items(queue') = Items(queue) \cup {Bare}
    BY <1>2, AppendItems DEF TypeOK
  <1>4. Distinct(queue')
    BY <1>2, AppendDistinct DEF TypeOK, Content
  <1>5. TypeOK'
    BY <1>1, <1>3 DEF TypeOK
  <1>6. Shape'
    BY DEF Shape, InRound
  <1>7. Content'
    BY <1>3, <1>4 DEF Content
  <1>8. Finished' /\ Unspoiled'
    BY <1>3 DEF Finished, FetchDone, Unspoiled
  <1> QED BY <1>5, <1>6, <1>7, <1>8

\* RoundInv is inductive.
LEMMA NextInv == RoundInv /\ [Next]_vars => RoundInv'
  <1> SUFFICES ASSUME RoundInv, [Next]_vars
               PROVE  RoundInv'
    OBVIOUS
  <1>1. CASE Poll \/ PollFails
    BY <1>1, SelectInv, SelectFailsInv, TestInv, GetInv, HandleInv, MoveInv, LeaveInv
       DEF Poll, PollFails
  <1>2. CASE StopConsumer
    BY <1>2, LeaveInv
  <1>3. CASE Answer \/ FetchTaskReturns
    BY <1>3, SendMessageInv, FetchInv DEF Answer
  <1>4. CASE SkipMessage \/ SendUpdate
    BY <1>4, SkipMessageInv, SendUpdateInv
  <1>5. CASE UNCHANGED vars
    <2> USE <1>5 DEF vars, roundVars, RoundInv
    <2>1. TypeOK' /\ Shape'
      BY DEF TypeOK, Shape, InRound
    <2>2. Content'
      BY DEF Content, Items, Distinct
    <2>3. Finished' /\ Unspoiled'
      BY DEF Finished, Unspoiled, FetchDone
    <2> QED BY <2>1, <2>2, <2>3
  <1> QED BY <1>1, <1>2, <1>3, <1>4, <1>5 DEF Next

\* RoundInv holds in every reachable state.
LEMMA Invariance == Spec => []RoundInv
  BY InitInv, NextInv, PTL DEF Spec

-----------------------------------------------------------------------------
\* Every variable keeps its type (imap_queue.py:70-109).
THEOREM TypeCorrect == Spec => []TypeOK
  <1>1. RoundInv => TypeOK
    BY DEF RoundInv
  <1> QED BY <1>1, Invariance, PTL

\* A round that ends without an error has handled every message the server sent, for
\* any number of messages and any misbehaviour of the server (imap_queue.py:84, 109).
THEOREM CompletedRoundIsComplete == Spec => []CompletedIsComplete
  <1>1. RoundInv => CompletedIsComplete
    BY DEF RoundInv, Finished, CompletedIsComplete
  <1> QED BY <1>1, Invariance, PTL

\* With a server that answers in full the poll task never waits for a response that
\* cannot come any more (imap_queue.py:84-85).
THEOREM NeverWaitsInVain == Spec => []WaitsForResponse
  <1>1. RoundInv => WaitsForResponse
    BY DEF RoundInv, Unspoiled, WaitsForResponse
  <1> QED BY <1>1, Invariance, PTL
-----------------------------------------------------------------------------
(* The rounds *)

\* A round begins idle and with nothing selected.
LEMMA RoundsInit == Init => Rounds!Init
  BY DEF Init, Rounds!Init, Phase

\* Every step of the loop is a step of a round, or none that shows.
LEMMA RoundsStep ==
    ASSUME RoundInv, [Next]_vars
    PROVE  [Rounds!Next]_(Rounds!vars)
  <1> DEFINE Left == IF Phase = "idle" THEN {} ELSE (1..count) \ Taken
             Cur == IF poll \in {"handle", "file"} THEN cur ELSE Bare
  <1>0. TypeOK /\ Shape /\ Content
    BY DEF RoundInv
  <1>1. ASSUME NEW n \in 0..MaxCount, Select(n)
        PROVE  Rounds!Begin \/ UNCHANGED Rounds!vars
    <2>1. Phase = "idle" /\ Cur' = Cur
      BY <1>1 DEF Select, Phase
    <2>2. CASE n > 0
      <3>1. Phase' = "next" /\ Left' = (1..n) \ Taken'
        BY <1>1, <2>2 DEF Select, Phase
      <3>2. Left' \subseteq Nat \ {Bare}
        BY <3>1 DEF Bare
      <3> QED BY <2>1, <3>1, <3>2 DEF Rounds!Begin
    <2>3. CASE ~(n > 0)
      BY <1>1, <2>1, <2>3 DEF Select, Phase, Rounds!vars
    <2> QED BY <2>2, <2>3
  <1>2. ASSUME Get
        PROVE  (\E m \in Left : Rounds!Take(m)) \/ UNCHANGED Rounds!vars
    <2> USE <1>2 DEF Get
    <2>1. Head(queue) \in Items(queue) /\ Head(queue) \in 0..count
      BY <1>0, TailItems DEF TypeOK
    <2>2. Phase = "next" /\ Left = (1..count) \ handled /\ Cur = Bare
      BY DEF Phase, Taken
    <2>3. CASE Head(queue) = Bare
      BY <2>2, <2>3 DEF Phase, Taken, Rounds!vars
    <2>4. CASE Head(queue) # Bare
      <3>1. Head(queue) \in Left
        BY <1>0, <2>1, <2>2, <2>4 DEF Content, Bare
      <3>2. /\ Phase' = "handle"
            /\ Left' = Left \ {Head(queue)}
            /\ Cur' = Head(queue)
        BY <2>2, <2>4 DEF Phase, Taken
      <3> QED BY <2>2, <3>1, <3>2 DEF Rounds!Take
    <2> QED BY <2>3, <2>4
  <1>3. ASSUME Handle
        PROVE  Rounds!Handled
    BY <1>3 DEF Handle, Phase, Taken, Rounds!Handled
  <1>4. ASSUME MoveReturns
        PROVE  Rounds!Filed
    BY <1>4 DEF MoveReturns, roundVars, Phase, Taken, Rounds!Filed
  <1>5. ASSUME MoveFails \/ AwaitFetch
        PROVE  Rounds!End
    BY <1>5 DEF MoveFails, AwaitFetch, Phase, Rounds!End
  <1>6. ASSUME SelectFails \/ SelectStalls \/ MoveStalls \/ Test \/ Leave \/ PollEnds
        PROVE  UNCHANGED Rounds!vars
    BY <1>6 DEF SelectFails, SelectStalls, MoveStalls, Test, Leave, PollEnds, roundVars, Phase,
                Taken, Rounds!vars
  <1>7. ASSUME StopConsumer \/ Answer \/ FetchTaskReturns \/ SkipMessage \/ SendUpdate
                 \/ UNCHANGED vars
        PROVE  UNCHANGED Rounds!vars
    <2>1. UNCHANGED <<poll, count, handled, cur>>
      BY <1>7 DEF StopConsumer, Answer, SendMessage, AnswerOk, FetchFails, FetchTaskReturns,
                  SkipMessage, SendUpdate, Spoil, AnswerStep, roundVars, vars
    <2> QED BY <2>1 DEF Phase, Taken, Rounds!vars
  <1> QED
    BY <1>1, <1>2, <1>3, <1>4, <1>5, <1>6, <1>7 DEF Next, Poll, PollFails, Rounds!Next

\* The loop implements a round: each selected message is taken at most once, and filed
\* before the next one is taken (imap_queue.py:84-107).
THEOREM ImplementsRound == Spec => OneByOne
  <1>1. RoundInv /\ [Next]_vars => [Rounds!Next]_(Rounds!vars)
    BY RoundsStep
  <1> QED BY <1>1, RoundsInit, Invariance, PTL DEF Spec, OneByOne, Rounds!Spec
=============================================================================
