------------------------- MODULE MCApprovalMediator -------------------------
(* A run of session root, its delegated child under the same signal, and a    *)
(* fork of root with a run of its own. Two requests of the scheduler and one  *)
(* made inside a tool; a compound command that two rules grant together.      *)
EXTENDS ApprovalMediator, TLC

CONSTANTS root, child, fork, write, shell, inner, ruleW, ruleS

MCSessions == {root, child, fork}
MCRequests == {write, shell, inner}
MCRules == {ruleW, ruleS}
MCSessionOf == write :> root @@ shell :> child @@ inner :> fork
MCParent == root :> NoSession @@ child :> root @@ fork :> root
MCSignalOf == root :> root @@ child :> root @@ fork :> fork
MCManaged == {root, fork}
MCWatched == {write, shell}
MCStatic == write :> "ask" @@ shell :> "ask" @@ inner :> "ask"
MCRuleFor == write :> ruleW @@ shell :> ruleS @@ inner :> NoRule
MCNeeds == write :> {ruleW} @@ shell :> {ruleS} @@ inner :> {ruleW, ruleS}
=============================================================================
