-------------------------- MODULE MCUsageCollector --------------------------
(* A pane of a session with a child: every poll returns both.              *)
EXTENDS UsageCollector

CONSTANTS p1, root, child

ShownOne == [p \in Panes |-> {root}]
Family == [s \in Sessions |-> Sessions]
=============================================================================
