--------------------------- MODULE MCEventIngress ---------------------------
(***************************************************************************)
(* A small instance of EventIngress for TLC.                               *)
(***************************************************************************)
EXTENDS EventIngress, TLC

OneRepository == [t \in Task |-> "app"]
OneGroup      == [t \in Task |-> "pr"]

\* Every change is delivered; the ID of the last delivery also turns up with the
\* body of an earlier one.
Deliveries ==
  {[id |-> "d1", body |-> [group |-> "pr", change |-> 1]],
   [id |-> "d2", body |-> [group |-> "pr", change |-> 2]],
   [id |-> "d3", body |-> [group |-> "pr", change |-> 2]],
   [id |-> "d3", body |-> [group |-> "pr", change |-> 3]]}

Stages == {"completed"}

IngressSymmetry == Permutations(Task) \cup Permutations(Thread)

=============================================================================
