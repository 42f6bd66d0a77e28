---------------------------- MODULE MCChatClient ----------------------------
(* Instance of ChatClient for model checking. *)
EXTENDS ChatClient, TLC

Symmetric == Permutations(Calls) \cup Permutations(Messages)
=============================================================================
