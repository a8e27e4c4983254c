----------------------------- MODULE FencedWork -----------------------------
(***************************************************************************)
(* What the task table promises to the services that share it, without     *)
(* rows, clocks or groups: an item of work is held under a token that only *)
(* grows, and a holder may declare that it is about to act on the outside  *)
(* world.  From then on nobody but that holder can bring the item back to  *)
(* the queue: whoever revokes its token closes the item as unresolved.     *)
(***************************************************************************)
EXTENDS Naturals

CONSTANT Task

VARIABLE item   \* item[t]: phase, token, whether an effect may be in flight

Phase == {"absent", "idle", "held", "parked", "closed", "unresolved"}
Item  == [phase : Phase, token : Nat, inFlight : BOOLEAN]

Unborn == [phase |-> "absent", token |-> 0, inFlight |-> FALSE]

Init == item = [t \in Task |-> Unborn]

\* Steps of one item, from record a to record b.
Opens(a, b) ==
  /\ a = Unborn
  /\ b.phase \in {"idle", "parked"} /\ b.token = 0 /\ ~b.inFlight

\* An idle item, or one whose holder was too late, gets a new token.
Grants(a, b) ==
  /\ a.phase \in {"idle", "held"} /\ ~a.inFlight
  /\ b = [phase |-> "held", token |-> a.token + 1, inFlight |-> FALSE]

\* Only the holder moves a held item without changing its token.
HolderActs(a, b) ==
  /\ a.phase = "held"
  /\ b.token = a.token
  /\ b.phase \in {"held", "idle", "closed", "unresolved"}
  /\ b.inFlight => b.phase = "held"

Revokes(a, b) ==
  /\ a.phase \in {"idle", "held", "parked"}
  /\ b.token = a.token + 1
  /\ ~b.inFlight
  /\ IF a.inFlight THEN b.phase = "unresolved"
                   ELSE b.phase \in {"idle", "parked", "closed"}

Step(a, b) ==
  a = b \/ Opens(a, b) \/ Grants(a, b) \/ HolderActs(a, b) \/ Revokes(a, b)

\* One transaction may revoke several items, but it grants at most one.
Next ==
  /\ item' \in [Task -> Item]
  /\ \A t \in Task : Step(item[t], item'[t])
  /\ \A t, u \in Task :
       /\ item'[t].phase = "held" /\ item'[t].token # item[t].token
       /\ item'[u].phase = "held" /\ item'[u].token # item[u].token
       => t = u

Spec == Init /\ [][Next]_item

=============================================================================
