---------------------------- MODULE MC_AgentRun ----------------------------
(* AgentRun on dialogues of one to three messages.                          *)
EXTENDS AgentRun

U(n) == Message("user", n, {})
A(n) == Message("assistant", n, {})

\* A first question; a follow-up; two questions the first of which was never
\* answered.  The limit of 4 makes trimming happen at the first, the second or
\* no turn.
MC_Dialogues == {<<U(1)>>, <<U(1), A(1), U(1)>>, <<U(2), U(1)>>}
MC_OneQuestion == {<<U(1)>>}
=============================================================================
