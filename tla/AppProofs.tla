------------------------------ MODULE AppProofs ------------------------------
(***************************************************************************)
(* Theorems about App, for every set of messages and reports, every        *)
(* content of the messages and every TTL.                                  *)
(***************************************************************************)
EXTENDS App, TLAPS

\* Facts about sequences and about the helpers of App.
LEMMA AppendType ==
    ASSUME NEW S, NEW s \in Seq(S), NEW x \in S
    PROVE  /\ Append(s, x) \in Seq(S)
           /\ DOMAIN Append(s, x) = 1..Len(s) + 1
           /\ DOMAIN s = 1..Len(s)
           /\ \A i \in 1..Len(s) : Append(s, x)[i] = s[i]
           /\ Append(s, x)[Len(s) + 1] = x
  OBVIOUS

\* The identifier of a payload is a key of the metrics.
LEMMA PartsOf ==
    ASSUME NEW m \in Msg, NEW i \in Nat \ {0}, i <= Len(Parts[m])
    PROVE  /\ i \in DOMAIN Parts[m]
           /\ Parts[m][i] \in Part
           /\ Parts[m][i].id \in Key
  <1>1. Parts[m] \in Seq(Part)
    BY PartsAssumption
  <1>2. i \in DOMAIN Parts[m] /\ Parts[m][i] \in Part
    BY <1>1
  <1> QED
    BY <1>2 DEF Part, Key

\* The same, for a payload named by its position.
LEMMA PartsDomain ==
    ASSUME NEW m \in Msg, NEW i \in DOMAIN Parts[m]
    PROVE  i \in Nat /\ i <= Len(Parts[m]) /\ Parts[m][i].id \in Key
  <1>1. Parts[m] \in Seq(Part)
    BY PartsAssumption
  <1>2. i \in Nat /\ i <= Len(Parts[m]) /\ Parts[m][i] \in Part
    BY <1>1
  <1> QED
    BY <1>2 DEF Part, Key

\* A message has a natural number of payloads.
LEMMA PartsLength == ASSUME NEW m \in Msg PROVE Len(Parts[m]) \in Nat
  <1>1. Parts[m] \in Seq(Part)
    BY PartsAssumption
  <1> QED
    BY <1>1

\* Counting keeps the type of the metrics.
LEMMA CountType ==
    ASSUME TypeOK, NEW k \in Key
    PROVE  Count(k) \in [Key -> Seq(Nat)]
  BY AppendType DEF TypeOK, Count

\* Remembering keeps the type of the deduplication set.
LEMMA RememberType ==
    ASSUME TypeOK, NEW id
    PROVE  Remember(id) \subseteq Entry
  BY DEF TypeOK, Remember, Live, Entry

-----------------------------------------------------------------------------
\* The types hold initially ...
LEMMA TypeInit == Init => TypeOK
  <1> SUFFICES ASSUME Init PROVE TypeOK
    OBVIOUS
  <1>1. MailTypeOK
    BY DEF Init, MailInit, MailTypeOK
  <1>2. [k \in Key |-> <<>>] \in [Key -> Seq(Nat)]
    OBVIOUS
  <1>3. /\ main \in Saving \cup {"down", "up", "closing", "stopping", "exited", "broken"}
        /\ poll \in {"sleep", "next", "handle", "file", "store", "expunge", "ended"}
        /\ ~ (poll \in {"handle", "file", "store"})
    BY DEF Init
  <1>4. /\ metrics \in [Key -> Seq(Nat)]
        /\ fileMetrics \in [Key -> Seq(Nat)]
        /\ stored \in [Key -> Seq(Nat)]
    BY <1>2 DEF Init
  <1>5. /\ now \in Nat /\ stops \in Nat /\ faults \in Nat /\ part \in Nat \ {0}
        /\ batch \subseteq arrived /\ seen \subseteq Entry /\ fileSeen \subseteq Entry
        /\ torn \subseteq File /\ cur \in arrived \cup {NoMsg} /\ dest \in Folder
    BY DEF Init, Folder
  <1>6. /\ canMove \in BOOLEAN /\ closing \in BOOLEAN /\ hung \in BOOLEAN
        /\ seenLags \in BOOLEAN /\ lagged \in BOOLEAN
    BY DEF Init
  <1> QED
    BY <1>1, <1>3, <1>4, <1>5, <1>6, Zenon DEF TypeOK

\* ... process_email keeps them ...
LEMMA TypeHandler == TypeOK /\ ProcessEmail => TypeOK'
  <1> SUFFICES ASSUME TypeOK, ProcessEmail PROVE TypeOK'
    OBVIOUS
  <1> USE DEF TypeOK, MailTypeOK, mailVars, mainVars, fileVars, countVars, HandlerStep, Folder
  <1>1. cur \in Msg
    BY DEF ProcessEmail, SkipDuplicate, CountReport, RaiseInConversion, SkipEmpty,
       RaiseInParser, HandlerReturns
  <1>2. CASE SkipDuplicate
    BY <1>2 DEF SkipDuplicate, NextPart, memoryVars
  <1>3. CASE CountReport
    <2>1. metrics' \in [Key -> Seq(Nat)]
      BY <1>1, <1>3, PartsOf, CountType DEF CountReport, PartIs, PartId
    <2>2. seen' \subseteq Entry
      BY <1>3, RememberType DEF CountReport
    <2> QED
      BY <1>3, <2>1, <2>2 DEF CountReport, NextPart
  <1>4. CASE RaiseInConversion
    <2>1. metrics' \in [Key -> Seq(Nat)]
      BY <1>1, <1>4, PartsOf, CountType DEF RaiseInConversion, PartIs, PartId
    <2>2. seen' \subseteq Entry
      BY <1>4, RememberType DEF RaiseInConversion
    <2> QED
      BY <1>4, <2>1, <2>2 DEF RaiseInConversion, FileInto
  <1>5. CASE SkipEmpty
    BY <1>5 DEF SkipEmpty, NextPart, memoryVars
  <1>6. CASE RaiseInParser
    BY <1>6 DEF RaiseInParser, FileInto, memoryVars
  <1>7. CASE HandlerReturns
    BY <1>7, CountType DEF HandlerReturns, FileInto, Key
  <1> QED
    BY <1>2, <1>3, <1>4, <1>5, <1>6, <1>7 DEF ProcessEmail

\* ... so does the rest of a round, also one that is aborted or hangs ...
LEMMA TypePoll == TypeOK /\ (Poll \/ RoundAbort \/ RoundHangs) => TypeOK'
  <1> SUFFICES ASSUME TypeOK, Poll \/ RoundAbort \/ RoundHangs PROVE TypeOK'
    OBVIOUS
  <1> USE DEF TypeOK, MailTypeOK, mailVars, mainVars, fileVars, countVars, memoryVars, PollStep
  <1>1. CASE RoundBegin
    BY <1>1 DEF RoundBegin
  <1>2. ASSUME NEW m \in Msg, TakeMessage(m) PROVE TypeOK'
    BY <1>2 DEF TakeMessage
  <1>3. CASE RoundEnd
    BY <1>3 DEF RoundEnd
  <1>4. CASE Move
    BY <1>4 DEF Move, UidMove, FiledIn
  <1>5. CASE Copy
    BY <1>5 DEF Copy, UidCopy, FiledIn
  <1>6. CASE Store
    BY <1>6 DEF Store, UidStoreDeleted
  <1>7. CASE ExpungeFlagged
    BY <1>7 DEF ExpungeFlagged, Expunge
  <1>8. CASE RoundAbort
    BY <1>8 DEF RoundAbort
  <1>9. CASE PollEnd
    BY <1>9 DEF PollEnd
  <1>10. CASE RoundHangs
    BY <1>10 DEF RoundHangs
  <1> QED
    BY <1>1, <1>2, <1>3, <1>4, <1>5, <1>6, <1>7, <1>8, <1>9, <1>10 DEF Poll

\* ... and a save ...
LEMMA TypeSave == TypeOK /\ Save => TypeOK'
  <1> SUFFICES ASSUME TypeOK, Save PROVE TypeOK'
    OBVIOUS
  <1> USE DEF TypeOK, MailTypeOK, mailVars, pollVars, memoryVars, countVars, SaveStep, Saving, File
  <1>1. CASE SaveBegin
    <2>1. [k \in Key |-> <<>>] \in [Key -> Seq(Nat)]
      OBVIOUS
    <2> QED
      BY <1>1, <2>1 DEF SaveBegin
  <1>2. CASE SaveMetrics
    BY <1>2 DEF SaveMetrics
  <1>3. CASE OpenSeen
    BY <1>3 DEF OpenSeen
  <1>4. CASE SaveSeen
    BY <1>4 DEF SaveSeen
  <1> QED
    BY <1>1, <1>2, <1>3, <1>4 DEF Save

\* ... what every end of the process has in common ...
LEMMA TypeProcessEnds ==
    ASSUME TypeOK, ProcessEnds, main' \in {"down", "exited"}, stops' \in Nat, faults' \in Nat
    PROVE  TypeOK'
  <1>1. [k \in Key |-> <<>>] \in [Key -> Seq(Nat)]
    OBVIOUS
  <1>2. /\ lagged' \in BOOLEAN /\ seenLags' \in BOOLEAN
        /\ closing' \in BOOLEAN /\ hung' \in BOOLEAN
    BY DEF TypeOK, ProcessEnds
  <1>3. MailTypeOK' /\ arrived' = arrived
    BY DEF TypeOK, MailTypeOK, mailVars, ProcessEnds
  <1>4. /\ poll' = "sleep" /\ batch' = {} /\ cur' = NoMsg /\ part' = 1
        /\ dest' \in Folder /\ metrics' \in [Key -> Seq(Nat)] /\ seen' = {}
    BY <1>1 DEF ProcessEnds, Folder
  <1>5. /\ now' \in Nat /\ canMove' \in BOOLEAN /\ torn' \subseteq File
        /\ fileMetrics' \in [Key -> Seq(Nat)] /\ stored' \in [Key -> Seq(Nat)]
        /\ fileSeen' \subseteq Entry
    BY DEF TypeOK, ProcessEnds
  <1>6. /\ poll' \in {"sleep", "next", "handle", "file", "store", "expunge", "ended"}
        /\ ~ (poll' \in {"handle", "file", "store"})
        /\ batch' \subseteq arrived' /\ cur' \in arrived' \cup {NoMsg}
        /\ part' \in Nat \ {0} /\ seen' \subseteq Entry
    BY <1>4
  <1>7. main' \in Saving \cup {"down", "up", "closing", "stopping", "exited", "broken"}
    OBVIOUS
  <1>8. stops' \in Nat /\ faults' \in Nat
    OBVIOUS
  <1> QED
    BY <1>2, <1>3, <1>4, <1>5, <1>6, <1>7, <1>8, Zenon DEF TypeOK

\* ... the beginning and the end of the process ...
LEMMA TypeLifecycle == TypeOK /\ Lifecycle => TypeOK'
  <1> SUFFICES ASSUME TypeOK, Lifecycle PROVE TypeOK'
    OBVIOUS
  <1>1. CASE Start
    BY <1>1 DEF TypeOK, MailTypeOK, mailVars, pollVars, fileVars, countVars, Start, Live
  <1>2. CASE StartFails
    BY <1>2 DEF TypeOK, MailTypeOK, mailVars, pollVars, memoryVars, fileVars, countVars, StartFails
  <1>3. CASE Cancel
    BY <1>3 DEF TypeOK, MailTypeOK, mailVars, pollVars, memoryVars, fileVars, Cancel
  <1>4. CASE Exit
    BY <1>4, TypeProcessEnds DEF TypeOK, Exit
  <1>5. CASE Crash
    BY <1>5, TypeProcessEnds DEF TypeOK, Crash
  <1>6. CASE AutosaveRaises
    BY <1>6 DEF TypeOK, MailTypeOK, mailVars, pollVars, memoryVars, fileVars, AutosaveRaises
  <1>7. CASE LastSaveRaises
    BY <1>7, TypeProcessEnds DEF TypeOK, LastSaveRaises
  <1> QED
    BY <1>1, <1>2, <1>3, <1>4, <1>5, <1>6, <1>7 DEF Lifecycle

\* ... and so every step.
LEMMA TypeStep == TypeOK /\ [Next]_vars => TypeOK'
  <1> SUFFICES ASSUME TypeOK, [Next]_vars PROVE TypeOK'
    OBVIOUS
  <1> USE DEF TypeOK, MailTypeOK, mailVars, mainVars, pollVars, memoryVars, fileVars, countVars
  <1>1. CASE Tick
    BY <1>1 DEF Tick, Live
  <1>2. ASSUME NEW m \in Msg, Arrive(m) PROVE TypeOK'
    BY <1>2 DEF Arrive, Deliver
  <1>3. CASE UNCHANGED vars
    BY <1>3 DEF vars
  <1> QED
    BY <1>1, <1>2, <1>3, TypeHandler, TypePoll, TypeSave, TypeLifecycle DEF Next

(***************************************************************************)
(* App keeps its types: among other things, what is flagged is in the      *)
(* inbox, and a message is being processed only after it has arrived.      *)
(***************************************************************************)
THEOREM TypeCorrect == Spec => []TypeOK
  BY TypeInit, TypeStep, PTL DEF Spec

-----------------------------------------------------------------------------
(* No message is lost.  What carries the invariant is that a message is only *)
(* flagged, and so only exposed to an EXPUNGE of any later round, once it    *)
(* has been copied.                                                          *)

FiledSomewhere == filed["done"] \cup filed["error"]

CopiedBeforeFlagged ==
    /\ flagged \subseteq FiledSomewhere
    /\ poll = "store" /\ cur \in inbox => cur \in FiledSomewhere

MailInv == NeverDropped /\ CopiedBeforeFlagged

\* The steps that leave the mailbox alone and do not lead to a STORE.
LEMMA MailboxIdle ==
    ASSUME MailInv, UNCHANGED mailVars,
           poll' # "store" \/ UNCHANGED <<poll, cur>>
    PROVE  MailInv'
  BY DEF MailInv, NeverDropped, CopiedBeforeFlagged, FiledSomewhere, mailVars

\* A COPY or MOVE adds to the filed messages the one it names, if it is in the inbox.
LEMMA FiledInFolder ==
    ASSUME TypeOK, NEW f \in Folder, NEW m \in arrived
    PROVE  /\ FiledIn(f, m)["done"] \cup FiledIn(f, m)["error"]
                 = FiledSomewhere \cup ({m} \cap inbox)
  BY DEF FiledIn, FiledSomewhere, Folder, TypeOK, MailTypeOK

\* No step loses a message: only STORE flags one, after COPY has filed it.
LEMMA MailStep == TypeOK /\ MailInv /\ [Next]_vars => MailInv'
  <1> SUFFICES ASSUME TypeOK, MailInv, [Next]_vars PROVE MailInv'
    OBVIOUS
  <1> USE DEF MailInv, NeverDropped, CopiedBeforeFlagged
  <1>1. CASE Tick
    BY <1>1, MailboxIdle DEF Tick, pollVars
  <1>2. ASSUME NEW m \in Msg, Arrive(m) PROVE MailInv'
    BY <1>2 DEF Arrive, Deliver, pollVars, FiledSomewhere, TypeOK
  <1>3. CASE ProcessEmail
    BY <1>3, MailboxIdle DEF ProcessEmail, HandlerStep, SkipDuplicate, CountReport,
       RaiseInConversion, SkipEmpty, RaiseInParser, HandlerReturns, NextPart, FileInto
  <1>4. CASE Poll \/ RoundAbort \/ RoundHangs
    <2>1. CASE RoundBegin \/ RoundEnd \/ PollEnd \/ RoundAbort \/ RoundHangs
      BY <2>1, MailboxIdle DEF RoundBegin, RoundEnd, PollEnd, RoundAbort, RoundHangs
    <2>2. ASSUME NEW m \in Msg, TakeMessage(m) PROVE MailInv'
      BY <2>2, MailboxIdle DEF TakeMessage
    <2>3. CASE Move
      <3>1. cur \in arrived /\ dest \in Folder
        BY <2>3 DEF Move, TypeOK
      <3>2. FiledSomewhere' = FiledSomewhere \cup ({cur} \cap inbox)
        BY <2>3, <3>1, FiledInFolder DEF Move, UidMove, FiledSomewhere
      <3> QED
        BY <2>3, <3>2 DEF Move, UidMove, FiledSomewhere
    <2>4. CASE Copy
      <3>1. cur \in arrived /\ dest \in Folder
        BY <2>4 DEF Copy, TypeOK
      <3>2. FiledSomewhere' = FiledSomewhere \cup ({cur} \cap inbox)
        BY <2>4, <3>1, FiledInFolder DEF Copy, UidCopy, FiledSomewhere
      <3> QED
        BY <2>4, <3>2 DEF Copy, UidCopy, FiledSomewhere
    <2>5. CASE Store
      BY <2>5 DEF Store, UidStoreDeleted, FiledSomewhere
    <2>6. CASE ExpungeFlagged
      BY <2>6 DEF ExpungeFlagged, Expunge, FiledSomewhere
    <2> QED
      BY <1>4, <2>1, <2>2, <2>3, <2>4, <2>5, <2>6 DEF Poll
  <1>5. CASE Save
    BY <1>5, MailboxIdle DEF Save, SaveBegin, SaveMetrics, OpenSeen, SaveSeen, SaveStep, pollVars
  <1>6. CASE Lifecycle
    BY <1>6, MailboxIdle DEF Lifecycle, Start, StartFails, Cancel, Exit, Crash,
       AutosaveRaises, LastSaveRaises, ProcessEnds, pollVars
  <1>7. CASE UNCHANGED vars
    BY <1>7, MailboxIdle DEF vars, pollVars
  <1> QED
    BY <1>1, <1>2, <1>3, <1>4, <1>5, <1>6, <1>7 DEF Next

(***************************************************************************)
(* NeverDropped for every number of messages, folders' contents, failing   *)
(* commands, crashes and restarts.                                         *)
(***************************************************************************)
THEOREM NothingDropped == Spec => []NeverDropped
  <1>1. Init => MailInv
    BY DEF Init, MailInit, MailInv, NeverDropped, CopiedBeforeFlagged
  <1>2. MailInv => NeverDropped
    BY DEF MailInv
  <1> QED
    BY <1>1, <1>2, MailStep, TypeCorrect, PTL DEF Spec

-----------------------------------------------------------------------------
(* What the metrics and the deduplication set know of each other.            *)

\* Every contribution to c younger than TTL has its entry in s.
Covered(c, s) ==
    \A id \in Item : \A i \in DOMAIN c[id] :
        now - c[id][i] < TTL => [item |-> id, at |-> c[id][i]] \in s

\* The contributions of the same report are at least TTL apart.
Apart(c) ==
    \A id \in Item : \A i, j \in DOMAIN c[id] : i < j => c[id][j] - c[id][i] >= TTL

\* The entries of s that can be counted have been counted in c.
Backed(s, c) ==
    \A e \in s : Convertible(e.item) => \E i \in DOMAIN c[e.item] : c[e.item][i] = e.at

\* c has all the contributions of d, and maybe more after them.
Extends(c, d) ==
    \A k \in Key : \A i \in DOMAIN d[k] : i \in DOMAIN c[k] /\ c[k][i] = d[k][i]

\* There is nothing in memory, and no save is half done, when there is no process.
NoProcess == ~Running => seen = {} /\ ~seenLags /\ poll = "sleep"

\* Between its two files a save holds the event loop, so nothing is counted.
SaveHoldsLoop ==
    /\ main \in {"metrics_saved", "seen_open"} => stored = metrics /\ seenLags
    /\ main \in Saving => poll # "handle"

\* A file that can be read has what was stored.
ReadableIsStored == "metrics.db" \notin torn => fileMetrics = stored

MemoryCovers == Running => Extends(metrics, stored)

BackedInv == Backed(seen, metrics) /\ Backed(fileSeen, stored)

CoveredInv ==
    ~lagged => /\ Running => Covered(metrics, seen)
               /\ ~seenLags => Covered(stored, fileSeen)

ApartInv == ~lagged => Apart(metrics) /\ Apart(stored)

CountInv ==
    /\ NoProcess
    /\ SaveHoldsLoop
    /\ ReadableIsStored
    /\ MemoryCovers
    /\ BackedInv
    /\ CoveredInv
    /\ ApartInv

\* What these predicates speak about, but for poll.
countedVars ==
    <<now, main, metrics, seen, fileMetrics, fileSeen, torn, stored, seenLags, lagged>>

\* The steps that neither count, nor save, nor start or end the process.
LEMMA CountIdle ==
    ASSUME CountInv, UNCHANGED countedVars, LoopFree \/ UNCHANGED poll
    PROVE  CountInv'
  BY DEF CountInv, countedVars, NoProcess, SaveHoldsLoop, ReadableIsStored, MemoryCovers,
     BackedInv, CoveredInv, ApartInv, Running, LoopFree, Saving, Covered, Apart, Backed, Extends

\* Counting k appends the time to the contributions of k and changes no other.
LEMMA CountAppends ==
    ASSUME TypeOK, NEW k \in Key
    PROVE  /\ Extends(Count(k), metrics)
           /\ \E i \in DOMAIN Count(k)[k] : Count(k)[k][i] = now
           /\ Count(k)[k] # <<>>
           /\ \A key \in Key : \A i \in DOMAIN Count(k)[key] :
                 \/ i \in DOMAIN metrics[key] /\ Count(k)[key][i] = metrics[key][i]
                 \/ /\ key = k
                    /\ Count(k)[key][i] = now
                    /\ \A j \in DOMAIN Count(k)[key] : j <= i
  <1>1. metrics[k] \in Seq(Nat) /\ now \in Nat
    BY DEF TypeOK
  <1>2. /\ Count(k)[k] = Append(metrics[k], now)
        /\ \A key \in Key : key # k => Count(k)[key] = metrics[key]
    BY DEF Count, TypeOK
  <1>3. /\ DOMAIN Count(k)[k] = 1..Len(metrics[k]) + 1
        /\ DOMAIN metrics[k] = 1..Len(metrics[k])
        /\ Len(metrics[k]) \in Nat
        /\ \A i \in 1..Len(metrics[k]) : Count(k)[k][i] = metrics[k][i]
        /\ Count(k)[k][Len(metrics[k]) + 1] = now
    BY <1>1, <1>2, AppendType
  <1>4. Extends(Count(k), metrics)
    BY <1>2, <1>3 DEF Extends
  <1>5. Len(metrics[k]) + 1 \in DOMAIN Count(k)[k] /\ Count(k)[k] # <<>>
    BY <1>1, <1>2, <1>3
  <1> QED
    BY <1>2, <1>3, <1>4, <1>5

\* To extend is transitive: the counts of an earlier file, of a later one, of the process.
LEMMA ExtendsTransitive ==
    ASSUME NEW b, NEW c, NEW d, Extends(b, c), Extends(c, d)
    PROVE  Extends(b, d)
  BY DEF Extends

\* Entries backed by some counts are backed by counts that extend them.
LEMMA BackedByMore ==
    ASSUME NEW s \in SUBSET Entry, NEW c, NEW d, Backed(s, d), Extends(c, d)
    PROVE  Backed(s, c)
  BY DEF Backed, Extends, Entry, Key

\* A report that was not remembered is remembered; it is counted in the same step,
\* unless it cannot be converted.
LEMMA CountAndRemember ==
    ASSUME TypeOK, CountInv, LoopFree, NEW id \in Key,
           id \in Item => ~Remembered(id),
           seen' = Remember(id),
           metrics' = Count(id) \/ (metrics' = metrics /\ ~Convertible(id)),
           UNCHANGED <<now, main, fileMetrics, fileSeen, torn, stored, seenLags, lagged>>
    PROVE  CountInv'
  <1> USE DEF CountInv
  <1>1. TTL \in Nat /\ Item \subseteq Key
    BY TTLAssumption DEF Key
  <1>2. Running /\ Running' /\ LoopFree'
    BY DEF Running, LoopFree
  <1>3. Extends(metrics', metrics)
    BY <1>1, CountAppends DEF Extends
  <1>4. NoProcess' /\ SaveHoldsLoop' /\ ReadableIsStored' /\ MemoryCovers'
    BY <1>2, <1>3, ExtendsTransitive
       DEF NoProcess, SaveHoldsLoop, ReadableIsStored, LoopFree, Saving, MemoryCovers, Extends
  <1>5. \A e \in seen' : e \in seen \/ (id \in Item /\ e = [item |-> id, at |-> now])
    BY DEF Remember, Live
  <1>6. BackedInv'
    <2>1. Backed(seen, metrics')
      BY <1>3, BackedByMore DEF BackedInv, TypeOK
    <2>2. ASSUME id \in Item, Convertible(id)
          PROVE  \E i \in DOMAIN metrics'[id] : metrics'[id][i] = now
      BY <1>1, <2>2, CountAppends
    <2>3. Backed(seen', metrics')
      BY <1>5, <2>1, <2>2 DEF Backed
    <2> QED
      BY <2>3 DEF BackedInv, Backed
  <1>7. \A key \in Item : \A i \in DOMAIN metrics'[key] :
          \/ i \in DOMAIN metrics[key] /\ metrics'[key][i] = metrics[key][i]
          \/ /\ key = id
             /\ metrics'[key][i] = now
             /\ \A j \in DOMAIN metrics'[key] : j <= i
    BY <1>1, CountAppends
  <1>8. /\ \A key \in Item : \A i \in DOMAIN metrics[key] : metrics[key][i] \in Nat
        /\ \A key \in Item : DOMAIN metrics'[key] \subseteq Nat
    <2>1. metrics \in [Key -> Seq(Nat)] /\ metrics' \in [Key -> Seq(Nat)]
      BY <1>1, CountType DEF TypeOK
    <2>2. \A c \in [Key -> Seq(Nat)] : \A key \in Item : c[key] \in Seq(Nat)
      BY <1>1
    <2>3. \A s \in Seq(Nat) : DOMAIN s \subseteq Nat /\ \A i \in DOMAIN s : s[i] \in Nat
      OBVIOUS
    <2> QED
      BY <2>1, <2>2, <2>3
  <1>9. now \in Nat
    BY DEF TypeOK
  <1>10. CoveredInv'
    <2> SUFFICES ASSUME ~lagged PROVE Covered(metrics, seen)'
      BY <1>2 DEF CoveredInv, Covered
    <2> SUFFICES ASSUME NEW key \in Item, NEW i \in DOMAIN metrics'[key],
                        now - metrics'[key][i] < TTL
                 PROVE  [item |-> key, at |-> metrics'[key][i]] \in seen'
      BY DEF Covered
    <2>1. CASE i \in DOMAIN metrics[key] /\ metrics'[key][i] = metrics[key][i]
      <3>1. [item |-> key, at |-> metrics[key][i]] \in seen
        BY <1>2, <2>1 DEF CoveredInv, Covered
      <3> QED
        BY <2>1, <3>1 DEF Remember, Live, Fresh
    <2>2. CASE key = id /\ metrics'[key][i] = now
      BY <2>2 DEF Remember, Live, Fresh
    <2> QED
      BY <1>7, <2>1, <2>2
  <1>11. ApartInv'
    <2> SUFFICES ASSUME ~lagged PROVE Apart(metrics')
      BY DEF ApartInv, Apart
    <2> SUFFICES ASSUME NEW key \in Item, NEW i \in DOMAIN metrics'[key],
                        NEW j \in DOMAIN metrics'[key], i < j
                 PROVE  metrics'[key][j] - metrics'[key][i] >= TTL
      BY DEF Apart
    <2>1. CASE j \in DOMAIN metrics[key] /\ metrics'[key][j] = metrics[key][j]
      BY <1>7, <1>8, <2>1 DEF ApartInv, Apart
    <2>2. CASE key = id /\ metrics'[key][j] = now
      <3>1. i \in DOMAIN metrics[key] /\ metrics'[key][i] = metrics[key][i]
        BY <1>7, <1>8, <2>2
      <3>2. ~ (now - metrics[key][i] < TTL)
        BY <1>2, <2>2, <3>1 DEF CoveredInv, Covered, Remembered
      <3> QED
        BY <1>1, <1>8, <1>9, <2>2, <3>1, <3>2
    <2> QED
      BY <1>7, <2>1, <2>2
  <1> QED
    BY <1>4, <1>6, <1>10, <1>11

\* process_email keeps the invariant: it remembers and counts in one go.
LEMMA CountHandler == TypeOK /\ CountInv /\ ProcessEmail => CountInv'
  <1> SUFFICES ASSUME TypeOK, CountInv, ProcessEmail PROVE CountInv'
    OBVIOUS
  <1>1. HandlerStep
    BY DEF ProcessEmail, SkipDuplicate, CountReport, RaiseInConversion, SkipEmpty, RaiseInParser,
       HandlerReturns
  <1>2. cur \in Msg /\ LoopFree /\ part \in Nat \ {0}
    BY <1>1 DEF HandlerStep, TypeOK, MailTypeOK
  <1>3. UNCHANGED <<now, main, fileMetrics, fileSeen, torn, stored, seenLags, lagged>>
    BY <1>1 DEF HandlerStep, mainVars, fileVars, countVars
  <1>4. CASE SkipDuplicate \/ SkipEmpty \/ RaiseInParser
    BY <1>2, <1>3, <1>4, CountIdle
       DEF countedVars, memoryVars, SkipDuplicate, SkipEmpty, RaiseInParser
  <1>5. ASSUME part <= Len(Parts[cur])
        PROVE  /\ PartId \in Key
               /\ PartIs("unconvertible") /\ PartId \in Item => ~Convertible(PartId)
    <2>1. part \in DOMAIN Parts[cur] /\ Parts[cur][part] \in Part
      BY <1>2, <1>5, PartsOf
    <2> QED
      BY <1>2, <2>1 DEF PartId, PartIs, Convertible, Part, Key
  <1>6. CASE CountReport
    <2>1. PartId \in Key /\ (PartId \in Item => ~Remembered(PartId))
      BY <1>5, <1>6 DEF CountReport, PartIs, Duplicate
    <2> QED
      BY <1>2, <1>3, <1>6, <2>1, CountAndRemember DEF CountReport
  <1>7. CASE RaiseInConversion
    <2>1. PartId \in Key /\ (PartId \in Item => ~Remembered(PartId))
      BY <1>5, <1>7 DEF RaiseInConversion, PartIs, Duplicate
    <2>2. PartId \in Item => ~Convertible(PartId)
      BY <1>5, <1>7 DEF RaiseInConversion, PartIs
    <2>3. CASE metrics' = metrics /\ PartId \notin Item
      BY <1>2, <1>3, <1>7, <2>3, CountIdle DEF RaiseInConversion, Remember, countedVars
    <2> QED
      BY <1>2, <1>3, <1>7, <2>1, <2>2, <2>3, CountAndRemember DEF RaiseInConversion
  <1>8. CASE HandlerReturns
    <2>1. CASE metrics' = metrics
      BY <1>2, <1>3, <1>8, <2>1, CountIdle DEF HandlerReturns, countedVars
    <2>2. CASE metrics' = Count(Invalid)
      <3>1. Invalid \in Key /\ Invalid \notin Item /\ seen' = Remember(Invalid)
        BY <1>8, KeyAssumption DEF HandlerReturns, Key, Remember
      <3> QED
        BY <1>2, <1>3, <2>2, <3>1, CountAndRemember
    <2> QED
      BY <1>8, <2>1, <2>2 DEF HandlerReturns
  <1> QED
    BY <1>4, <1>6, <1>7, <1>8 DEF ProcessEmail

\* So does a save, because metrics.db comes before seen-reports.db.
LEMMA CountSave == TypeOK /\ CountInv /\ Save => CountInv'
  <1> SUFFICES ASSUME TypeOK, CountInv, Save PROVE CountInv'
    OBVIOUS
  <1> USE DEF CountInv, NoProcess, SaveHoldsLoop, ReadableIsStored, MemoryCovers, BackedInv,
              CoveredInv, ApartInv, Running, LoopFree, Saving,
              SaveStep, memoryVars, pollVars, countVars
  <1>1. CASE SaveBegin
    BY <1>1 DEF SaveBegin, Extends, Backed, Covered, Apart
  <1>2. CASE SaveMetrics
    <2>1. Running /\ Extends(metrics, stored) /\ Backed(fileSeen, stored)
      BY <1>2 DEF SaveMetrics
    <2>2. Backed(fileSeen, metrics)
      BY <2>1, BackedByMore DEF TypeOK
    <2> QED
      BY <1>2, <2>2 DEF SaveMetrics, Extends, Backed, Covered, Apart
  <1>3. CASE OpenSeen
    BY <1>3 DEF OpenSeen, Extends, Backed, Covered, Apart
  <1>4. CASE SaveSeen
    <2>1. Running /\ stored = metrics
      BY <1>4 DEF SaveSeen
    <2> QED
      BY <1>4, <2>1 DEF SaveSeen, Extends, Backed, Covered, Apart
  <1> QED
    BY <1>1, <1>2, <1>3, <1>4 DEF Save

\* The end of a process leaves the relation between the two files as it is.
LEMMA CountProcessEnds ==
    ASSUME TypeOK, CountInv, ProcessEnds, main' \in {"down", "exited"}
    PROVE  CountInv'
  <1> USE DEF CountInv, NoProcess, SaveHoldsLoop, ReadableIsStored, MemoryCovers, BackedInv,
              CoveredInv, ApartInv, Running, LoopFree, Saving, ProcessEnds
  <1>1. \A k \in Key : DOMAIN metrics'[k] = {}
    OBVIOUS
  <1>2. Apart(metrics')
    BY <1>1 DEF Apart, Key
  <1> QED
    BY <1>2 DEF Backed, Covered, Apart

\* A new process starts from files that agree.
LEMMA CountLifecycle == TypeOK /\ CountInv /\ Lifecycle => CountInv'
  <1> SUFFICES ASSUME TypeOK, CountInv, Lifecycle PROVE CountInv'
    OBVIOUS
  <1> USE DEF CountInv, NoProcess, SaveHoldsLoop, ReadableIsStored, MemoryCovers, BackedInv,
              CoveredInv, ApartInv, Running, LoopFree, Saving,
              memoryVars, fileVars, pollVars, countVars
  <1>1. CASE Start
    <2>1. ~Running /\ Running' /\ ~seenLags /\ metrics' = stored
      BY <1>1 DEF Start
    <2>2. Extends(metrics', stored)
      BY <2>1 DEF Extends
    <2>3. Backed(seen', metrics')
      BY <1>1, <2>1 DEF Start, Backed, Live
    <2>4. ~lagged => Covered(metrics, seen)'
      BY <1>1, <2>1 DEF Start, Covered, Live, Fresh
    <2>5. ~lagged => Covered(stored, fileSeen)'
      BY <1>1, <2>1 DEF Start, Covered
    <2> QED
      BY <1>1, <2>1, <2>2, <2>3, <2>4, <2>5 DEF Start, Extends, Backed, Apart
  <1>2. CASE StartFails
    BY <1>2 DEF StartFails, Extends, Backed, Covered, Apart
  <1>3. CASE Cancel
    BY <1>3 DEF Cancel, Extends, Backed, Covered, Apart
  <1>4. CASE Exit \/ Crash \/ LastSaveRaises
    BY <1>4, CountProcessEnds DEF Exit, Crash, LastSaveRaises
  <1>5. CASE AutosaveRaises
    BY <1>5 DEF AutosaveRaises, Extends, Backed, Covered, Apart
  <1> QED
    BY <1>1, <1>2, <1>3, <1>4, <1>5 DEF Lifecycle

\* An entry that expires is TTL old, so that its report may be counted again.
LEMMA CountTick == TypeOK /\ CountInv /\ Tick => CountInv'
  <1> SUFFICES ASSUME TypeOK, CountInv, Tick PROVE CountInv'
    OBVIOUS
  <1> USE DEF CountInv, NoProcess, SaveHoldsLoop, ReadableIsStored, MemoryCovers, BackedInv,
              CoveredInv, ApartInv, Running, LoopFree, Saving,
              Tick, mainVars, fileVars, pollVars, countVars
  <1>1. now \in Nat /\ now' = now + 1 /\ TTL \in Nat
    BY TTLAssumption DEF TypeOK
  <1>2. \A id \in Item : \A i \in DOMAIN metrics[id] : metrics[id][i] \in Nat
    BY DEF TypeOK, Key
  <1>3. \A id \in Item : \A i \in DOMAIN stored[id] : stored[id][i] \in Nat
    BY DEF TypeOK, Key
  <1>4. Covered(metrics, seen) => Covered(metrics, seen)'
    BY <1>1, <1>2 DEF Covered, Live, Fresh
  <1>5. Covered(stored, fileSeen) => Covered(stored, fileSeen)'
    BY <1>1, <1>3 DEF Covered
  <1>6. Backed(seen', metrics)
    BY DEF Backed, Live
  <1> QED
    BY <1>4, <1>5, <1>6 DEF Extends, Backed, Apart, Live

\* Every step keeps the invariant.
LEMMA CountStep == TypeOK /\ CountInv /\ [Next]_vars => CountInv'
  <1> SUFFICES ASSUME TypeOK, CountInv, [Next]_vars PROVE CountInv'
    OBVIOUS
  <1>1. ASSUME NEW m \in Msg, Arrive(m) PROVE CountInv'
    BY <1>1, CountIdle DEF Arrive, countedVars, mainVars, pollVars, memoryVars, fileVars, countVars
  <1>2. CASE Poll \/ RoundAbort
    <2>1. PollStep /\ UNCHANGED lagged
      BY <1>2 DEF Poll, RoundAbort, RoundBegin, TakeMessage, RoundEnd, Move, Copy, Store,
         ExpungeFlagged, PollEnd, countVars
    <2> QED
      BY <2>1, CountIdle DEF PollStep, countedVars, mainVars, memoryVars, fileVars
  <1>4. CASE RoundHangs
    BY <1>4, CountIdle DEF RoundHangs, countedVars, mainVars, memoryVars, fileVars
  <1>3. CASE UNCHANGED vars
    BY <1>3, CountIdle DEF vars, countedVars, mainVars, pollVars, memoryVars, fileVars, countVars
  <1> QED
    BY <1>1, <1>2, <1>3, <1>4, CountHandler, CountSave, CountLifecycle, CountTick DEF Next

\* It holds initially.
LEMMA CountInit == Init => CountInv
  <1> SUFFICES ASSUME Init PROVE CountInv
    OBVIOUS
  <1>1. \A k \in Key : DOMAIN metrics[k] = {} /\ DOMAIN stored[k] = {}
    BY DEF Init
  <1>2. Apart(metrics) /\ Apart(stored) /\ Covered(stored, fileSeen)
    BY <1>1 DEF Apart, Covered, Key
  <1> QED
    BY <1>2 DEF Init, CountInv, NoProcess, SaveHoldsLoop, ReadableIsStored, MemoryCovers, BackedInv,
       CoveredInv, ApartInv, Running, LoopFree, Saving, Backed

\* It is an invariant of App.
LEMMA CountCorrect == Spec => []CountInv
  BY CountInit, CountStep, TypeCorrect, PTL DEF Spec

(***************************************************************************)
(* CountedOnce for every TTL, every number of reports and messages and any *)
(* number of restarts and failures.                                        *)
(***************************************************************************)
THEOREM CountedOnlyOnce == Spec => []CountedOnce
  <1>1. CountInv => CountedOnce
    BY DEF CountInv, ApartInv, Apart, CountedOnce
  <1> QED
    BY <1>1, CountCorrect, PTL

(***************************************************************************)
(* SuppressedOnlyIfCounted, likewise: neither a running process nor the    *)
(* next one takes a report for a duplicate that its metrics do not have.   *)
(***************************************************************************)
THEOREM SuppressedIsCounted == Spec => []SuppressedOnlyIfCounted
  <1>1. CountInv => SuppressedOnlyIfCounted
    BY DEF CountInv, BackedInv, Backed, ReadableIsStored, SuppressedOnlyIfCounted, Counted,
       FileCounted
  <1> QED
    BY <1>1, CountCorrect, PTL

\* What has been stored only changes when metrics.db has been written to its end; the file
\* is then that of a process whose counts extend what was stored before.
LEMMA StoredOnlyExtended ==
    ASSUME CountInv, CountInv', [Next]_vars
    PROVE  Extends(stored', stored)
  <1>1. CASE SaveMetrics
    BY <1>1 DEF SaveMetrics, CountInv, MemoryCovers, Running, Saving
  <1>2. CASE UNCHANGED stored
    BY <1>2 DEF Extends
  <1> QED
    BY <1>1, <1>2 DEF Next, vars, fileVars, Tick, Arrive, ProcessEmail, HandlerStep,
       SkipDuplicate, CountReport, RaiseInConversion, SkipEmpty, RaiseInParser, HandlerReturns,
       Poll, PollStep, RoundBegin, TakeMessage, RoundEnd, Move, Copy, Store, ExpungeFlagged,
       RoundAbort, RoundHangs, PollEnd, Save, SaveBegin, OpenSeen, SaveSeen, Lifecycle, Start,
       StartFails, Cancel, Exit, Crash, AutosaveRaises, LastSaveRaises, ProcessEnds

(***************************************************************************)
(* FileGrows, likewise: whenever metrics.db can be read, it has all that   *)
(* it has ever had while it could be read.  What a process that ends with  *)
(* the file truncated has lost is lost: the theorem says that nothing else *)
(* takes a count back, and that no file with fewer of them is ever read.   *)
(***************************************************************************)
THEOREM FileOnlyGrows == Spec => FileGrows
  <1>1. CountInv /\ CountInv' /\ [Next]_vars =>
          \A k \in Key : \A i \in DOMAIN stored[k] :
             "metrics.db" \notin torn'
                 => i \in DOMAIN fileMetrics'[k] /\ fileMetrics'[k][i] = stored[k][i]
    <2> SUFFICES ASSUME CountInv, CountInv', [Next]_vars, "metrics.db" \notin torn'
                 PROVE  Extends(fileMetrics', stored)
      BY DEF Extends
    <2>1. fileMetrics' = stored'
      BY DEF CountInv, ReadableIsStored
    <2> QED
      BY <2>1, StoredOnlyExtended
  <1>2. CountInv /\ CountInv' /\ [Next]_vars =>
          [\A k \in Key : \A i \in DOMAIN stored[k] :
             "metrics.db" \notin torn'
                 => i \in DOMAIN fileMetrics'[k] /\ fileMetrics'[k][i] = stored[k][i]]_vars
    BY <1>1
  <1> QED
    BY <1>2, CountCorrect, PTL DEF Spec, FileGrows

-----------------------------------------------------------------------------
(* What the handler has accounted for when it gives a message to the archive. *)

HandledSoFar(n) == \A i \in DOMAIN Parts[cur] : i < n => Accounted(Parts[cur][i])

Handled == \A i \in DOMAIN Parts[cur] : Accounted(Parts[cur][i])

HandledInv ==
    /\ poll = "handle" => HandledSoFar(part)
    /\ poll = "file" /\ dest = "done" => Handled

\* A count that is there stays there.
LEMMA AccountedStays ==
    ASSUME TypeOK, NEW k \in Key, metrics' = metrics \/ metrics' = Count(k),
           NEW key \in Key, metrics[key] # <<>>
    PROVE  metrics'[key] # <<>>
  BY CountAppends DEF Count, TypeOK

\* process_email accounts for a payload before it goes to the next one.
LEMMA HandledHandler == TypeOK /\ CountInv /\ HandledInv /\ ProcessEmail => HandledInv'
  <1> SUFFICES ASSUME TypeOK, CountInv, HandledInv, ProcessEmail PROVE HandledInv'
    OBVIOUS
  <1>1. HandlerStep
    BY DEF ProcessEmail, SkipDuplicate, CountReport, RaiseInConversion, SkipEmpty, RaiseInParser,
       HandlerReturns
  <1>2. /\ cur \in Msg /\ cur' = cur /\ part \in Nat \ {0}
        /\ poll = "handle" /\ HandledSoFar(part)
    BY <1>1 DEF HandlerStep, TypeOK, MailTypeOK, HandledInv
  <1>3. CASE RaiseInConversion \/ RaiseInParser
    BY <1>3 DEF RaiseInConversion, RaiseInParser, FileInto, HandledInv
  <1>4. ASSUME NextPart, NEW k \in Key, metrics' = metrics \/ metrics' = Count(k),
               part <= Len(Parts[cur]),
               MustCount(Parts[cur][part]) => metrics'[PartId] # <<>>
        PROVE  HandledInv'
    <2>1. \A i \in DOMAIN Parts[cur] : Parts[cur][i].id \in Key /\ i \in Nat
      BY <1>2, PartsDomain
    <2> SUFFICES ASSUME NEW i \in DOMAIN Parts[cur], i < part' PROVE Accounted(Parts[cur][i])'
      BY <1>2, <1>4 DEF HandledInv, HandledSoFar, NextPart
    <2>2. CASE i < part
      <3>1. Accounted(Parts[cur][i])
        BY <1>2, <2>2 DEF HandledSoFar
      <3> QED
        BY <1>2, <1>4, <2>1, <3>1, AccountedStays DEF Accounted
    <2>3. CASE i = part
      BY <1>2, <1>4, <2>3 DEF Accounted, PartId
    <2> QED
      BY <1>2, <1>4, <2>1, <2>2, <2>3 DEF NextPart
  <1>5. CASE SkipDuplicate
    <2>1. part <= Len(Parts[cur]) /\ Duplicate
      BY <1>5 DEF SkipDuplicate, PartIs
    <2>2. Convertible(PartId) => metrics[PartId] # <<>>
      BY <2>1 DEF Duplicate, Remembered, CountInv, BackedInv, Backed
    <2> QED
      BY <1>2, <1>4, <1>5, <2>1, <2>2, KeyAssumption
         DEF SkipDuplicate, memoryVars, MustCount, Duplicate, PartId, Key
  <1>6. CASE CountReport
    <2>1. part <= Len(Parts[cur]) /\ PartId \in Key
      BY <1>2, <1>6, PartsOf DEF CountReport, PartIs, PartId
    <2>2. metrics'[PartId] # <<>>
      BY <1>6, <2>1, CountAppends DEF CountReport
    <2> QED
      BY <1>4, <1>6, <2>1, <2>2 DEF CountReport
  <1>7. CASE SkipEmpty
    <2>1. part <= Len(Parts[cur]) /\ Parts[cur][part].outcome = "empty" /\ Invalid \in Key
      BY <1>7 DEF SkipEmpty, PartIs, Key
    <2> QED
      BY <1>4, <1>7, <2>1 DEF SkipEmpty, memoryVars, MustCount
  <1>8. CASE HandlerReturns
    <2>1. /\ \A i \in DOMAIN Parts[cur] : i < part /\ Parts[cur][i].id \in Key
          /\ Invalid \in Key
      BY <1>2, <1>8, PartsDomain, PartsLength DEF HandlerReturns, Key
    <2>2. metrics' = metrics \/ metrics' = Count(Invalid)
      BY <1>8 DEF HandlerReturns
    <2>3. \A i \in DOMAIN Parts[cur] : Accounted(Parts[cur][i])'
      BY <1>2, <2>1, <2>2, AccountedStays DEF Accounted, HandledSoFar
    <2> QED
      BY <1>2, <1>8, <2>3 DEF HandlerReturns, FileInto, HandledInv, Handled
  <1> QED
    BY <1>3, <1>5, <1>6, <1>7, <1>8 DEF ProcessEmail

\* No other step takes back what process_email has accounted for.
LEMMA HandledStep == TypeOK /\ CountInv /\ HandledInv /\ [Next]_vars => HandledInv'
  <1> SUFFICES ASSUME TypeOK, CountInv, HandledInv, [Next]_vars PROVE HandledInv'
    OBVIOUS
  <1> USE DEF HandledInv, Handled, HandledSoFar, Accounted, pollVars, memoryVars
  <1>1. CASE Tick \/ \E m \in Msg : Arrive(m)
    BY <1>1 DEF Tick, Arrive
  <1>2. CASE Poll \/ RoundAbort \/ RoundHangs
    <2>1. ASSUME NEW m \in Msg, TakeMessage(m) PROVE HandledInv'
      BY <2>1, PartsAssumption DEF TakeMessage, PollStep
    <2>2. CASE RoundBegin \/ RoundEnd \/ Move \/ Copy \/ Store \/ ExpungeFlagged \/ PollEnd
               \/ RoundAbort \/ RoundHangs
      BY <2>2 DEF RoundBegin, RoundEnd, Move, Copy, Store, ExpungeFlagged, PollEnd, RoundAbort,
         RoundHangs
    <2> QED
      BY <1>2, <2>1, <2>2 DEF Poll
  <1>3. CASE Save
    BY <1>3 DEF Save, SaveBegin, SaveMetrics, OpenSeen, SaveSeen, SaveStep
  <1>4. CASE Lifecycle
    BY <1>4 DEF Lifecycle, Start, StartFails, Cancel, Exit, Crash, AutosaveRaises,
       LastSaveRaises, ProcessEnds, CountInv, NoProcess, Running, LoopFree, Saving
  <1>5. CASE UNCHANGED vars
    BY <1>5 DEF vars
  <1> QED
    BY <1>1, <1>2, <1>3, <1>4, <1>5, HandledHandler DEF Next

(***************************************************************************)
(* FiledOnlyIfCounted, for every content of the messages: a message enters *)
(* the archive at the end of a handler that has accounted for all of it.   *)
(***************************************************************************)
THEOREM FiledIsCounted == Spec => FiledOnlyIfCounted
  <1>1. Init => HandledInv
    BY DEF Init, HandledInv
  <1>2. HandledInv /\ TypeOK /\ [Next]_vars =>
          [\A m \in filed'["done"] \ filed["done"] :
             \A i \in DOMAIN Parts[m] : Accounted(Parts[m][i])]_vars
    <2> SUFFICES ASSUME HandledInv, TypeOK, [Next]_vars,
                        NEW m \in filed'["done"] \ filed["done"]
                 PROVE  m = cur /\ Handled
      BY DEF Handled
    <2>1. CASE Move \/ Copy
      BY <2>1 DEF Move, Copy, UidMove, UidCopy, FiledIn, TypeOK, MailTypeOK, Folder, HandledInv
    <2>2. CASE UNCHANGED filed
      BY <2>2
    <2> QED
      BY <2>1, <2>2 DEF Next, vars, mailVars, Tick, Arrive, Deliver, ProcessEmail, HandlerStep,
         SkipDuplicate, CountReport, RaiseInConversion, SkipEmpty, RaiseInParser, HandlerReturns,
         Poll, RoundBegin, TakeMessage, RoundEnd, Store, UidStoreDeleted, ExpungeFlagged,
         Expunge, RoundAbort, RoundHangs, PollEnd, Save, SaveStep, SaveBegin, SaveMetrics, OpenSeen,
         SaveSeen, Lifecycle, Start, StartFails, Cancel, Exit, Crash, AutosaveRaises,
         LastSaveRaises, ProcessEnds
  <1> QED
    BY <1>1, <1>2, HandledStep, TypeCorrect, CountCorrect, PTL DEF Spec, FiledOnlyIfCounted

-----------------------------------------------------------------------------
(* Whole files at a regular exit.  A save mends its files in their order, so *)
(* that which file may still be torn depends on how far the save has come.   *)

MendedSoFar ==
    /\ main \in {"up", "stopping", "exited"} => torn = {}
    /\ main = "metrics_saved" => "metrics.db" \notin torn
    /\ main = "seen_open" => torn \subseteq {"seen-reports.db"}

\* A save that has come to its end has mended both files; no other step makes the main
\* coroutine go on as if it had.
LEMMA MendedStep == TypeOK /\ MendedSoFar /\ [Next]_vars => MendedSoFar'
  <1> SUFFICES ASSUME TypeOK, MendedSoFar, [Next]_vars PROVE MendedSoFar'
    OBVIOUS
  <1> USE DEF MendedSoFar
  <1>1. CASE UNCHANGED <<main, torn>>
    BY <1>1
  <1>2. CASE Save
    <2>1. torn \subseteq {"metrics.db", "seen-reports.db"}
      BY DEF TypeOK, File
    <2> QED
      BY <1>2, <2>1 DEF Save, SaveBegin, SaveMetrics, OpenSeen, SaveSeen
  <1>3. CASE Lifecycle
    BY <1>3 DEF Lifecycle, Start, StartFails, Cancel, Exit, Crash, AutosaveRaises,
       LastSaveRaises, ProcessEnds, fileVars
  <1> QED
    BY <1>1, <1>2, <1>3 DEF Next, vars, mainVars, fileVars, Tick, Arrive, ProcessEmail,
       HandlerStep, SkipDuplicate, CountReport, RaiseInConversion, SkipEmpty, RaiseInParser,
       HandlerReturns, Poll, PollStep, RoundBegin, TakeMessage, RoundEnd, Move, Copy, Store,
       ExpungeFlagged, RoundAbort, RoundHangs, PollEnd

(***************************************************************************)
(* WholeAtExit, however many autosaves have failed and wherever: a process *)
(* that ends in the regular way leaves two whole files (app.py:115-117).   *)
(***************************************************************************)
THEOREM ExitsWhole == Spec => []WholeAtExit
  <1>1. Init => MendedSoFar
    BY DEF Init, MendedSoFar
  <1>2. MendedSoFar => WholeAtExit
    BY DEF MendedSoFar, WholeAtExit
  <1> QED
    BY <1>1, <1>2, MendedStep, TypeCorrect, PTL DEF Spec

-----------------------------------------------------------------------------
(* The rounds of App are rounds.                                             *)

\* Nothing is selected outside of a round.
IdleIsEmpty == poll \in {"sleep", "ended"} => batch = {}

\* A round begins with a selection and drops what is left of it when it ends.
LEMMA IdleStep == TypeOK /\ IdleIsEmpty /\ [Next]_vars => IdleIsEmpty'
  <1> SUFFICES ASSUME TypeOK, IdleIsEmpty, [Next]_vars PROVE IdleIsEmpty'
    OBVIOUS
  <1> USE DEF IdleIsEmpty
  <1>1. CASE UNCHANGED pollVars
    BY <1>1 DEF pollVars
  <1>2. CASE ProcessEmail
    BY <1>2 DEF ProcessEmail, HandlerStep, SkipDuplicate, CountReport, RaiseInConversion,
       SkipEmpty, RaiseInParser, HandlerReturns, NextPart, FileInto
  <1>3. CASE Poll \/ RoundAbort \/ RoundHangs
    BY <1>3 DEF Poll, RoundBegin, TakeMessage, RoundEnd, Move, Copy, Store, ExpungeFlagged,
       RoundAbort, RoundHangs, PollEnd
  <1>4. CASE ProcessEnds
    BY <1>4 DEF ProcessEnds
  <1> QED
    BY <1>1, <1>2, <1>3, <1>4 DEF Next, vars, pollVars, Tick, Arrive, Save, SaveStep, SaveBegin,
       SaveMetrics, OpenSeen, SaveSeen, Lifecycle, Start, StartFails, Cancel, Exit, Crash,
       AutosaveRaises, LastSaveRaises

\* Every step of the exporter is a step of a round, or none that shows.
LEMMA RoundsStep ==
    ASSUME TypeOK, IdleIsEmpty, IdleIsEmpty', [Next]_vars
    PROVE  [Rounds!Next]_(Rounds!vars)
  <1>1. CASE UNCHANGED pollVars
    BY <1>1 DEF pollVars, Phase, Rounds!vars
  <1>2. CASE ProcessEmail
    <2>1. poll = "handle" /\ UNCHANGED <<batch, cur>> /\ poll' \in {"handle", "file"}
      BY <1>2 DEF ProcessEmail, HandlerStep, SkipDuplicate, CountReport, RaiseInConversion,
         SkipEmpty, RaiseInParser, HandlerReturns, NextPart, FileInto
    <2>2. CASE poll' = "handle"
      BY <2>1, <2>2 DEF Phase, Rounds!vars
    <2>3. CASE poll' = "file"
      BY <2>1, <2>3 DEF Phase, Rounds!Handled, Rounds!Next
    <2> QED
      BY <2>1, <2>2, <2>3
  <1>3. CASE RoundBegin
    <2>1. Phase = "idle" /\ Phase' = "next" /\ batch' \subseteq Msg
      BY <1>3 DEF RoundBegin, Phase, TypeOK, MailTypeOK
    <2> QED
      BY <2>1 DEF Rounds!Begin, Rounds!Next
  <1>4. ASSUME NEW m \in Msg, TakeMessage(m) PROVE Rounds!Next
    <2>1. /\ m \in batch /\ batch' = batch \ {m} /\ cur' = m
          /\ Phase = "next" /\ Phase' = "handle"
      BY <1>4 DEF TakeMessage, Phase
    <2>2. Rounds!Take(m)
      BY <2>1 DEF Rounds!Take
    <2> QED
      BY <2>1, <2>2 DEF Rounds!Next
  <1>5. CASE Copy \/ Store \/ RoundHangs
    BY <1>5 DEF Copy, Store, RoundHangs, Phase, Rounds!vars
  <1>6. CASE Move \/ ExpungeFlagged
    <2>1. Phase = "file" /\ Phase' = "next" /\ UNCHANGED batch
      BY <1>6 DEF Move, ExpungeFlagged, Phase
    <2> QED
      BY <2>1 DEF Rounds!Filed, Rounds!Next
  <1>7. CASE Phase' = "idle" /\ batch' = {}
    <2>1. CASE Phase = "idle"
      <3>1. batch = {}
        BY <2>1 DEF Phase, IdleIsEmpty, TypeOK
      <3> QED
        BY <1>7, <2>1, <3>1 DEF Rounds!vars
    <2>2. CASE Phase # "idle"
      BY <1>7, <2>2 DEF Rounds!End, Rounds!Next
    <2> QED
      BY <2>1, <2>2
  <1>8. CASE RoundEnd \/ RoundAbort \/ PollEnd \/ ProcessEnds
    <2>1. poll' \in {"sleep", "ended"} /\ batch' = {}
      BY <1>8 DEF RoundEnd, RoundAbort, PollEnd, ProcessEnds, IdleIsEmpty
    <2> QED
      BY <1>7, <2>1 DEF Phase
  <1> QED
    BY <1>1, <1>2, <1>3, <1>4, <1>5, <1>6, <1>8 DEF Next, vars, pollVars, Poll, Tick, Arrive,
       Save, SaveStep, SaveBegin, SaveMetrics, OpenSeen, SaveSeen, Lifecycle, Start, StartFails,
       Cancel, Exit, Crash, AutosaveRaises, LastSaveRaises

(***************************************************************************)
(* OneByOne: the poll task implements a round whatever saves, failures and *)
(* ends of the process come in between (imap_queue.py:84-107).             *)
(***************************************************************************)
THEOREM ImplementsRound == Spec => OneByOne
  <1>1. Init => Rounds!Init /\ IdleIsEmpty
    BY DEF Init, Phase, IdleIsEmpty, Rounds!Init
  <1>2. TypeOK /\ IdleIsEmpty /\ IdleIsEmpty' /\ [Next]_vars => [Rounds!Next]_(Rounds!vars)
    BY RoundsStep
  <1> QED
    BY <1>1, <1>2, IdleStep, TypeCorrect, PTL DEF Spec, OneByOne, Rounds!Spec
=============================================================================
