-------------------------- MODULE MCToolScheduler --------------------------
(* Two reads side by side, the first asks a client and its body may ask for an *)
(* external directory; then a shell command that mutates the workspace, with   *)
(* two questions; then a network tool over the mode next to an unknown tool.   *)
EXTENDS ToolScheduler, TLC

CONSTANTS root, read, external, list, exec, write, fetch, rule

MCSessions == {root}
MCRequests == {read, external, list, exec, write, fetch}
MCSessionOf == [r \in MCRequests |-> root]
MCParent == root :> NoSession
MCSignalOf == root :> root
MCWatched == MCRequests \ {external}
MCStatic == [r \in MCRequests |-> IF r = list THEN "allow" ELSE "ask"]
MCRuleFor == [r \in MCRequests |-> IF r = write THEN rule ELSE NoRule]
MCNeeds == [r \in MCRequests |-> IF r = write THEN {rule} ELSE {}]

MCCapsOf == << <<read>>, <<list>>, <<exec, write>>, <<fetch>>, << >> >>
MCInnerOf == [c \in 1..5 |-> IF c = 1 THEN {external} ELSE {}]
=============================================================================
