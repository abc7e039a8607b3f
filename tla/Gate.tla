-------------------------------- MODULE Gate --------------------------------
(***************************************************************************)
(* What a gate promises to whoever looks at it: it is in one of four       *)
(* positions, it starts lowered, a command starts a movement at once, and  *)
(* only a movement that was under way can end.  GateFirmware implements    *)
(* this specification, with the position computed by Gate::get_state.      *)
(***************************************************************************)

CONSTANT Gates

VARIABLE position

GateState == {"raised", "raising", "lowered", "lowering"}

Init == position = [g \in Gates |-> "lowered"]

Raise(g) == position' = [position EXCEPT ![g] = "raising"]

Lower(g) == position' = [position EXCEPT ![g] = "lowering"]

\* The movement of gate g reaches the end it was heading for.
Finish(g) ==
  \/ /\ position[g] = "raising"
     /\ position' = [position EXCEPT ![g] = "raised"]
  \/ /\ position[g] = "lowering"
     /\ position' = [position EXCEPT ![g] = "lowered"]

Next == \E g \in Gates : Raise(g) \/ Lower(g) \/ Finish(g)

Spec == Init /\ [][Next]_position
=============================================================================
