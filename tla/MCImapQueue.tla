----------------------------- MODULE MCImapQueue -----------------------------
(* Small instances of ImapQueue for TLC. *)
EXTENDS ImapQueue
=============================================================================
