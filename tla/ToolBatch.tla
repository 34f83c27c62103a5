----------------------------- MODULE ToolBatch ------------------------------
(***************************************************************************)
(* What ToolScheduler.executeBatch promises the agent loop, whatever the   *)
(* hooks, the policy and the clients do: calls start in the order of the   *)
(* assistant message, side by side only if all of them are safe to run     *)
(* concurrently; none begins to execute once the run is aborted; and the   *)
(* batch returns with a result for every call that started, all of them    *)
(* unless it was aborted. ToolScheduler implements it.                     *)
(***************************************************************************)
EXTENDS Naturals

\* ToolScheduler, which instantiates this module, has the assumptions on them.
CONSTANTS
  N,     \* the calls of the message are 1..N
  Safe   \* those that may run side by side

VARIABLES
  started,   \* calls 1..started have started
  reported,  \* calls 1..reported have their results in the batch
  executed,  \* calls whose tool began to execute
  stopped,   \* the run was aborted
  over       \* the batch has returned

batchVars == <<started, reported, executed, stopped, over>>

Init ==
  /\ started = 0 /\ reported = 0 /\ executed = {}
  /\ stopped \in BOOLEAN /\ over = FALSE

\* The calls from i to j may run side by side.
MayOverlap(i, j) == i = j \/ i..j \subseteq Safe

\* Everything that started is reported, and the next calls start.
Advance(j) ==
  /\ ~over /\ ~stopped
  /\ started < j /\ MayOverlap(started + 1, j)
  /\ reported' = started
  /\ started' = j
  /\ UNCHANGED <<executed, stopped, over>>

\* Everything that started is reported, and the batch returns.
Return ==
  /\ ~over /\ (stopped \/ started = N)
  /\ reported' = started
  /\ over' = TRUE
  /\ UNCHANGED <<started, executed, stopped>>

Execute(c) ==
  /\ ~over /\ ~stopped
  /\ c \notin executed
  /\ executed' = executed \cup {c}
  /\ UNCHANGED <<started, reported, stopped, over>>

Stop ==
  /\ ~stopped /\ stopped' = TRUE
  /\ UNCHANGED <<started, reported, executed, over>>

Next ==
  \/ \E j \in 1..N : Advance(j)
  \/ Return
  \/ \E c \in reported + 1..started : Execute(c)
  \/ Stop

Spec == Init /\ [][Next]_batchVars
=============================================================================
