--------------------------- MODULE MCChatChannels ---------------------------
(* Three players; the channel has them as members at the start, or does not exist yet. *)
EXTENDS ChatChannels

=============================================================================
