---------------------------- MODULE MCChatStream ----------------------------
(* Model-checking module of ChatStream. *)
EXTENDS ChatStream, TLC
=============================================================================
