---------------------------- MODULE MCPanelNodes ----------------------------
(***************************************************************************)
(* A small instance of PanelNodes: the second node of a registry from      *)
(* before has inbounds of its own, and two calls of administrators that    *)
(* overlap are not checks of a node by hand.                               *)
(***************************************************************************)
EXTENDS PanelNodes

MCNodesInit == NodesInit /\ \A n \in Rows(reg) : reg[n].ids

\* Asking is under no fairness: what is left out here is what nobody asks for.
RetryAlone ==
  \A c, d \in Admin :
    c # d /\ task[c].kind = "retry" => task[d].pc \in {"idle", "done"}

MCNodesNext == NodesNext /\ RetryAlone'

MCNodesSpec ==
  /\ MCNodesInit /\ [][MCNodesNext]_nodesVars
  /\ WF_nodesVars(Boot) /\ WF_nodesVars(JobStep)
  /\ \A c \in Refresh : WF_nodesVars(Check(c))
  /\ \A c \in Admin : WF_nodesVars(Act(c))
=============================================================================
