-------------------------------- MODULE Round --------------------------------
(***************************************************************************)
(* What a poll round promises (imap_queue.py:70-109), without queue, tasks *)
(* and server: some messages are selected, and each of them is taken at    *)
(* most once, handled, and filed before the next one is taken.  A round    *)
(* may end at any point; what is left then is for later rounds.            *)
(***************************************************************************)
CONSTANTS Message, NoMessage

VARIABLES phase,  \* of the poll task
          left,   \* the selected messages that were not taken yet
          cur     \* the message taken last, until it is filed

vars == <<phase, left, cur>>

Init ==
    /\ phase = "idle"
    /\ left = {}
    /\ cur = NoMessage

Begin ==
    /\ phase = "idle"
    /\ phase' = "next"
    /\ left' \subseteq Message
    /\ UNCHANGED cur

Take(m) ==
    /\ phase = "next"
    /\ phase' = "handle"
    /\ left' = left \ {m}
    /\ cur' = m

Handled ==
    /\ phase = "handle"
    /\ phase' = "file"
    /\ UNCHANGED <<left, cur>>

Filed ==
    /\ phase = "file"
    /\ phase' = "next"
    /\ cur' = NoMessage
    /\ UNCHANGED left

End ==
    /\ phase # "idle"
    /\ phase' = "idle"
    /\ left' = {}
    /\ cur' = NoMessage

Next == Begin \/ (\E m \in left : Take(m)) \/ Handled \/ Filed \/ End

Spec == Init /\ [][Next]_vars
=============================================================================
