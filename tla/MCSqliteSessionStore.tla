------------------------ MODULE MCSqliteSessionStore ------------------------
(* SqliteSessionStore with two processes, two sessions and short transcripts. *)
EXTENDS SqliteSessionStore, TLC

CONSTANTS p1, p2, s1, s2, b1, b2

Processes == {p1, p2}
SessionIds == {s1, s2}
Texts == {b1, b2}
RunStatuses == {"idle", "running"}
AgentModes == {"build", "plan"}
SomeKept == {0, 1, 3}
MoreKept == {3}

StoreSymmetry == Permutations(Processes) \cup Permutations(SessionIds) \cup Permutations(Texts)
=============================================================================
