------------------------------ MODULE MCTracker ------------------------------
(* Small sessions for TLC.                                                 *)
EXTENDS Tracker, TLC

CONSTANTS w1, w2, t1, t2, p1, p2, codex, u1

\* Two panes of one tab.
Shared == {<<p1, w1, t1>>, <<p2, w1, t1>>}

\* A pane that a later event may place in another workspace.
Roaming == {<<p1, w1, t1>>, <<p1, w2, t1>>}

OneAgent == [x \in Sessions |-> codex]
Symmetry == Permutations({p1, p2})
=============================================================================
