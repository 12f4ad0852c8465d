----------------------------- MODULE MCChatPage -----------------------------
(* ChatPage on small sets of requests. *)
EXTENDS ChatPage
=============================================================================
