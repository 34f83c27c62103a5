----------------------------- MODULE MCAgentRun -----------------------------
(* Two or three prompts of one session, new or with an earlier turn on disk,   *)
(* that turn complete or cut short by the end of its process.                  *)
EXTENDS AgentRun, TLC

CONSTANTS p1, p2, p3, earlier

MCTwoPrompts == {p1, p2}
MCThreePrompts == {p1, p2, p3}
MCEarlierTurn == {<<UserMessage(earlier), Assistant(<<earlier, 0>>, 0)>>}
MCTornTurn == {<<UserMessage(earlier), Assistant(<<earlier, 0>>, 1)>>}
MCRestored == {<< >>} \cup MCEarlierTurn \cup MCTornTurn
MCEarlierPrompts == {earlier}
=============================================================================
