---------------------------- MODULE MCJitSession ----------------------------
(* A session that takes nothing over.                                      *)
EXTENDS JitSession

CONSTANTS w1
OneWindow == {w1}
NoOccurrences == {}
SessionUpsets == {"stop", "play", "queue", "remove", "lists"}
EmptyQueue == <<>>
=============================================================================
