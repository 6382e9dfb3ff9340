---------------------------- MODULE MCChatClient ----------------------------
EXTENDS ChatClient
Agents == [s \in Sessions |-> IF s = "b1" THEN "claude-code" ELSE "codex"]
=============================================================================
