------------------------------- MODULE Billing -------------------------------
(***************************************************************************)
(* What the usage telemetry promises, whatever is polled and when: what is *)
(* billed for a session only grows, and never beyond what it used.         *)
(***************************************************************************)
EXTENDS Naturals

CONSTANT Sessions

VARIABLES used, billed

Init ==
  /\ used = [s \in Sessions |-> 0]
  /\ billed = [s \in Sessions |-> 0]

Use(s) ==
  /\ used' = [used EXCEPT ![s] = @ + 1]
  /\ UNCHANGED billed

\* One poll may bill several sessions.
Bill ==
  /\ billed' \in [Sessions -> Nat]
  /\ \A s \in Sessions : billed[s] <= billed'[s] /\ billed'[s] <= used[s]
  /\ UNCHANGED used

Next == Bill \/ \E s \in Sessions : Use(s)

Spec == Init /\ [][Next]_<<used, billed>>
=============================================================================
