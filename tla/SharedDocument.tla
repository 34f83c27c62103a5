--------------------------- MODULE SharedDocument ---------------------------
(***************************************************************************)
(* What updateJsonFile promises the stores of sessions, settings and       *)
(* secrets (src/core/storage/atomic-json-file.ts), however many processes  *)
(* use the file: an update is applied at one moment, to the document as it *)
(* is then; a call that returns has applied its update, and one that       *)
(* throws has not. The processes may die at any time. AtomicJsonFile       *)
(* implements it as long as no live holder loses its lock file.            *)
(***************************************************************************)
EXTENDS Naturals

\* AtomicJsonFile, which instantiates this module, has the assumptions on it.
CONSTANT Procs   \* processes sharing the document

VARIABLES
  document,  \* how many updates of each process it holds
  call,      \* of each process: "none", or its update is "pending" or "applied"
  returned   \* how many updates of each process returned

documentVars == <<document, call, returned>>

Init ==
  /\ document = [p \in Procs |-> 0]
  /\ call = [p \in Procs |-> "none"]
  /\ returned = [p \in Procs |-> 0]

Becomes(p, from, to) == call[p] = from /\ call' = [call EXCEPT ![p] = to]

Update(p) == Becomes(p, "none", "pending") /\ UNCHANGED <<document, returned>>

Apply(p) ==
  /\ Becomes(p, "pending", "applied")
  /\ document' = [document EXCEPT ![p] = @ + 1]
  /\ UNCHANGED returned

Return(p) ==
  /\ Becomes(p, "applied", "none")
  /\ returned' = [returned EXCEPT ![p] = @ + 1]
  /\ UNCHANGED document

Throw(p) == Becomes(p, "pending", "none") /\ UNCHANGED <<document, returned>>

Die(p) == Becomes(p, "applied", "none") /\ UNCHANGED <<document, returned>>

Next == \E p \in Procs : Update(p) \/ Apply(p) \/ Return(p) \/ Throw(p) \/ Die(p)

Spec == Init /\ [][Next]_documentVars
=============================================================================
