----------------------------- MODULE ExpiringSet -----------------------------
(***************************************************************************)
(* ExpiringSet (expiring_set.py) and the way App.process_email calls it.   *)
(* The expiry loop pops one queue entry per step and the clock may advance *)
(* between any two steps, as self._time() is read anew in every iteration. *)
(* The loop's last test, the effect of the call and its return are one     *)
(* step.  No other call starts while one is under way: all of them are     *)
(* synchronous and made from the event loop's thread.                      *)
(***************************************************************************)
EXTENDS TimedEntries, Sequences

CONSTANTS MaxTime,   \* bound on the clock
          None       \* "no answer is pending", "no argument"

ASSUME NoneAssumption == None \notin Item /\ None \notin Answer
ASSUME MaxTimeAssumption == MaxTime \in Nat

VARIABLES now,       \* time.time()
          items,     \* _items
          queue,     \* _expiry_queue
          disk,      \* the queue in seen-reports.db; empty as long as there is no file
          op,        \* the call under way
          arg,       \* its argument
          pos,       \* the next entry of the file that load looks at
          answer,    \* the result of the last containment test not yet acted upon
          raised     \* whether _items.remove has raised a KeyError

vars == <<now, items, queue, disk, op, arg, pos, answer, raised>>

ItemsOf(q) == {q[i].item : i \in 1..Len(q)}

EntriesOf(q) == {q[i] : i \in 1..Len(q)}

\* process_email has been told that a report is new and will add it next.
AddPending == answer # None /\ ~answer.found

\* Types: entries of the queue and of the file are pairs of an item and a time, and
\* a call that takes an item has one.
TypeOK ==
    /\ now \in Nat
    /\ items \subseteq Item
    /\ queue \in Seq(Entry)
    /\ disk \in Seq(Entry)
    /\ op \in {"idle", "contains", "add", "persist", "load", "down"}
    /\ arg \in Item \cup {None}
    /\ op \in {"contains", "add"} => arg \in Item
    /\ pos \in Nat \ {0}
    /\ answer \in Answer \cup {None}
    /\ raised \in BOOLEAN

Init ==
    /\ now = 0
    /\ items = {}
    /\ queue = <<>>
    /\ disk = <<>>
    /\ op = "idle"
    /\ arg = None
    /\ pos = 1
    /\ answer = None
    /\ raised = FALSE

-----------------------------------------------------------------------------
(* The calls of App: `in`, then add if the report is new; persist on a save. *)

CallContains(x) ==
    /\ op = "idle"
    /\ ~AddPending
    /\ op' = "contains"
    /\ arg' = x
    /\ UNCHANGED <<now, items, queue, disk, pos, answer, raised>>

CallAdd ==
    /\ op = "idle"
    /\ AddPending
    /\ op' = "add"
    /\ arg' = answer.item
    /\ UNCHANGED <<now, items, queue, disk, pos, answer, raised>>

CallPersist ==
    /\ op = "idle"
    /\ ~AddPending
    /\ op' = "persist"
    /\ UNCHANGED <<now, items, queue, disk, arg, pos, answer, raised>>

-----------------------------------------------------------------------------
(* _expire: pops entries from the head of the queue while they are expired. *)

\* Variant: `>` for `>=` in the loop condition.
HeadExpiredLate == queue # <<>> /\ now - Head(queue).at > TTL

HeadExpired == queue # <<>> /\ now - Head(queue).at >= TTL

PopExpired ==
    /\ op \in {"contains", "add", "persist"}
    /\ HeadExpired
    /\ queue' = Tail(queue)
    /\ \/ /\ Head(queue).item \in items
          /\ items' = items \ {Head(queue).item}
          /\ UNCHANGED <<op, raised>>
       \/ /\ Head(queue).item \notin items
          /\ raised' = TRUE
          /\ op' = "idle"
          /\ UNCHANGED items
    /\ UNCHANGED <<now, disk, arg, pos, answer>>

ReturnContains ==
    /\ op = "contains"
    /\ ~HeadExpired
    /\ answer' = [item |-> arg, found |-> arg \in items]
    /\ op' = "idle"
    /\ UNCHANGED <<now, items, queue, disk, arg, pos, raised>>

\* Variant: the pair the wrong way round.
ReturnAddSwapped ==
    /\ op = "add"
    /\ ~HeadExpired
    /\ items' = items \cup {arg}
    /\ queue' = Append(queue, [item |-> now, at |-> arg])
    /\ answer' = None
    /\ op' = "idle"
    /\ UNCHANGED <<now, disk, arg, pos, raised>>

ReturnAdd ==
    /\ op = "add"
    /\ ~HeadExpired
    /\ items' = items \cup {arg}
    /\ queue' = Append(queue, [item |-> arg, at |-> now])
    /\ answer' = None
    /\ op' = "idle"
    /\ UNCHANGED <<now, disk, arg, pos, raised>>

ReturnPersist ==
    /\ op = "persist"
    /\ ~HeadExpired
    /\ disk' = queue
    /\ op' = "idle"
    /\ UNCHANGED <<now, items, queue, arg, pos, answer, raised>>

-----------------------------------------------------------------------------
(* The end of the process, and load in the next one. *)

Crash ==
    /\ op # "down"
    /\ op' = "down"
    /\ items' = {}
    /\ queue' = <<>>
    /\ answer' = None
    /\ arg' = None
    /\ UNCHANGED <<now, disk, pos, raised>>

CallLoad ==
    /\ op = "down"
    /\ op' = "load"
    /\ pos' = 1
    /\ UNCHANGED <<now, items, queue, disk, arg, answer, raised>>

LoadEntry ==
    /\ op = "load"
    /\ pos <= Len(disk)
    /\ queue' = IF Fresh(disk[pos], now) THEN Append(queue, disk[pos]) ELSE queue
    /\ pos' = pos + 1
    /\ UNCHANGED <<now, items, disk, op, arg, answer, raised>>

\* Variant: only the queue is restored.
ReturnLoadQueueOnly ==
    /\ op = "load"
    /\ pos > Len(disk)
    /\ op' = "idle"
    /\ UNCHANGED <<now, items, queue, disk, arg, pos, answer, raised>>

ReturnLoad ==
    /\ op = "load"
    /\ pos > Len(disk)
    /\ items' = ItemsOf(queue)
    /\ op' = "idle"
    /\ UNCHANGED <<now, queue, disk, arg, pos, answer, raised>>

-----------------------------------------------------------------------------
Tick ==
    /\ now < MaxTime
    /\ now' = now + 1
    /\ UNCHANGED <<items, queue, disk, op, arg, pos, answer, raised>>

\* time.time() is the wall clock, which an administrator or NTP may set back.
StepBack ==
    /\ now' \in 0..now
    /\ UNCHANGED <<items, queue, disk, op, arg, pos, answer, raised>>

Call == (\E x \in Item : CallContains(x)) \/ CallAdd \/ CallPersist \/ CallLoad

Return == ReturnContains \/ ReturnAdd \/ ReturnPersist \/ ReturnLoad

Next == Tick \/ Call \/ PopExpired \/ LoadEntry \/ Return \/ Crash

Spec == Init /\ [][Next]_vars

\* The same set under a clock that may be set back at any time.
SteppedSpec == Init /\ [][Next \/ StepBack]_vars

-----------------------------------------------------------------------------
(* Properties *)

(***************************************************************************)
(* The expiry loop removes every popped item from _items exactly once: an  *)
(* item that were queued twice, or missing from _items after a load, would *)
(* make a later `in`, add or persist raise a KeyError                      *)
(* (expiring_set.py:39) long after the call that caused it.                *)
(***************************************************************************)
NeverRaises == ~raised

(***************************************************************************)
(* With a clock that never goes back, the queue, the item set, the lazy    *)
(* expiry and the file of persist and load together behave like the plain  *)
(* memory of ReportMemory: `in` is true exactly for what was added less    *)
(* than TTL ago, also after a restart.                                     *)
(***************************************************************************)
Memory == INSTANCE ReportMemory WITH
    remembered <- IF op = "load" THEN {} ELSE Live(EntriesOf(queue), now),
    saved <- EntriesOf(disk)

ImplementsMemory == Memory!Spec
=============================================================================
