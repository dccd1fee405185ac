----------------------------- MODULE MCMailbox -----------------------------
(* Three calls of send_cmd.                                                *)
EXTENDS Mailbox

=============================================================================
