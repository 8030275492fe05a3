--------------------------- MODULE MCChatHistory ---------------------------
(* Model checking of ChatHistory: the calls are interchangeable. *)
EXTENDS ChatHistory, TLC

Symmetry == Permutations(Chats)
=============================================================================
