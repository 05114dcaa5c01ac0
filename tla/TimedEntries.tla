---------------------------- MODULE TimedEntries ----------------------------
(***************************************************************************)
(* Timed entries of the deduplication set: the (timestamp, item) pairs of  *)
(* ExpiringSet._expiry_queue and the test that decides whether a pair is   *)
(* still remembered.  Time is counted in clock ticks; a tick stands for    *)
(* any amount of time.time() the caller can tell apart.                    *)
(***************************************************************************)
EXTENDS Integers

CONSTANTS Item,    \* what is remembered: (org_name, report_id) pairs
          TTL      \* deduplication_max_seconds

ASSUME TTLAssumption == TTL \in Nat

Entry == [item : Item, at : Nat]

\* What __contains__ has said of an item.
Answer == [item : Item, found : BOOLEAN]

\* The negation of the loop condition of _expire, and the filter of load.
Fresh(e, t) == t - e.at < TTL

Live(entries, t) == {e \in entries : Fresh(e, t)}

Remembers(entries, x, t) == \E e \in entries : e.item = x /\ Fresh(e, t)
=============================================================================
