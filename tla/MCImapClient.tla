----------------------------- MODULE MCImapClient -----------------------------
(* Small instances of ImapClient for TLC. *)
EXTENDS ImapClient
=============================================================================
