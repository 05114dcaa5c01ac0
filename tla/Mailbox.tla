------------------------------- MODULE Mailbox -------------------------------
(***************************************************************************)
(* The IMAP account the exporter works on: the inbox, the archive and the  *)
(* folder for invalid reports.  The server is not part of this repository; *)
(* its commands are modelled from how uid_move_graceful uses them          *)
(* (imap_client.py:365-371).  A UID command on a message that is no longer *)
(* in the inbox succeeds and does nothing, as RFC 3501 demands.            *)
(***************************************************************************)
EXTENDS FiniteSets

CONSTANT Msg       \* the messages that may arrive

VARIABLES arrived,   \* every message delivered so far
          inbox,     \* the messages in QueueFolders.inbox
          flagged,   \* those of them that carry the flag \Deleted
          filed      \* the messages in QueueFolders.done and QueueFolders.error

mailVars == <<arrived, inbox, flagged, filed>>

Folder == {"done", "error"}

MailTypeOK ==
    /\ arrived \subseteq Msg
    /\ inbox \subseteq arrived
    /\ flagged \subseteq inbox
    /\ filed \in [Folder -> SUBSET arrived]

MailInit ==
    /\ arrived = {}
    /\ inbox = {}
    /\ flagged = {}
    /\ filed = [f \in Folder |-> {}]

Deliver(m) ==
    /\ m \notin arrived
    /\ arrived' = arrived \cup {m}
    /\ inbox' = inbox \cup {m}
    /\ UNCHANGED <<flagged, filed>>

FiledIn(f, m) == [filed EXCEPT ![f] = @ \cup ({m} \cap inbox)]

UidMove(m, f) ==
    /\ filed' = FiledIn(f, m)
    /\ inbox' = inbox \ {m}
    /\ flagged' = flagged \ {m}
    /\ UNCHANGED arrived

UidCopy(m, f) ==
    /\ filed' = FiledIn(f, m)
    /\ UNCHANGED <<arrived, inbox, flagged>>

\* UID STORE m +FLAGS.SILENT (\Deleted)
UidStoreDeleted(m) ==
    /\ flagged' = flagged \cup ({m} \cap inbox)
    /\ UNCHANGED <<arrived, inbox, filed>>

\* EXPUNGE names no message: it removes all that are flagged.
Expunge ==
    /\ inbox' = inbox \ flagged
    /\ flagged' = {}
    /\ UNCHANGED <<arrived, filed>>
=============================================================================
