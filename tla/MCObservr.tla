------------------------------ MODULE MCObservr ------------------------------
(* A session of up to two panes in one tab, driven for a few changes.      *)
EXTENDS Observr

CONSTANTS w1, t1, p1, p2, codex

Shared == Panes \X {w1} \X {t1}
OneAgent == [x \in Sessions |-> codex]
InOrder == [p \in Panes |-> IF p = p1 THEN 1 ELSE 2]
=============================================================================
