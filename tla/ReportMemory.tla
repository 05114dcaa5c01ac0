---------------------------- MODULE ReportMemory ----------------------------
(***************************************************************************)
(* What the deduplication set promises its caller, App.process_email: an   *)
(* item is reported as contained exactly while it was added less than TTL  *)
(* ago, and a restart brings back what was persisted and has not expired.  *)
(* Every operation is one step; the expiry queue, the item set and the     *)
(* loops over them belong to ExpiringSet, which implements this module.    *)
(***************************************************************************)
EXTENDS TimedEntries

CONSTANTS MaxTime,   \* bound on the clock
          None       \* "no answer is pending"

VARIABLES now,         \* the clock
          remembered,  \* the entries added less than TTL ago
          saved,       \* the entries of the last persist
          answer       \* what the last containment test said, or None

memoryVars == <<now, remembered, saved, answer>>

Init ==
    /\ now = 0
    /\ remembered = {}
    /\ saved = {}
    /\ answer = None

Tick ==
    /\ now < MaxTime
    /\ now' = now + 1
    /\ remembered' = Live(remembered, now')
    /\ UNCHANGED <<saved, answer>>

Contains(x) ==
    /\ answer' = [item |-> x, found |-> Remembers(remembered, x, now)]
    /\ UNCHANGED <<now, remembered, saved>>

\* The caller adds what it has just been told is absent.
Add ==
    /\ answer # None
    /\ ~answer.found
    /\ remembered' = Live(remembered \cup {[item |-> answer.item, at |-> now]}, now)
    /\ answer' = None
    /\ UNCHANGED <<now, saved>>

Persist ==
    /\ saved' = remembered
    /\ UNCHANGED <<now, remembered, answer>>

Crash ==
    /\ remembered' = {}
    /\ answer' = None
    /\ UNCHANGED <<now, saved>>

Load ==
    /\ remembered = {}
    /\ remembered' = Live(saved, now)
    /\ UNCHANGED <<now, saved, answer>>

Next ==
    \/ Tick
    \/ \E x \in Item : Contains(x)
    \/ Add
    \/ Persist
    \/ Crash
    \/ Load

Spec == Init /\ [][Next]_memoryVars
=============================================================================
