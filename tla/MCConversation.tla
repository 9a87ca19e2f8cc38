--------------------------- MODULE MCConversation ---------------------------
(* Conversation for TLC: the cfg gives hosts and bounds.                    *)
EXTENDS Conversation
=============================================================================
