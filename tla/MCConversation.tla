---------------------------- MODULE MCConversation ----------------------------
(* Conversation.tla on a small instance.                                   *)
EXTENDS Conversation

CONSTANTS x, y, c1, c2

\* A value that can be cut, and one that is too long.
MCValues == {<<x, y>>, <<y, y, x>>}

\* A client that sends a sequence, and one that sends something meanwhile.
MCMaxRequests == [c \in Clients |-> IF c = c1 THEN 2 ELSE 1]
=============================================================================
