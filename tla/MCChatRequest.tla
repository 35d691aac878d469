--------------------------- MODULE MCChatRequest ---------------------------
(* Instance of ChatRequest for TLC. *)
EXTENDS ChatRequest
=============================================================================
