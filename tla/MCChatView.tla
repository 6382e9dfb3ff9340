------------------------------ MODULE MCChatView ------------------------------
(* Two commands that are alike, for ChatView.cfg.                              *)
EXTENDS ChatView, TLC

Symmetry == Permutations(Commands)
=============================================================================
