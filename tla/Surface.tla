-------------------------------- MODULE Surface --------------------------------
(***************************************************************************)
(* What the user sees and does: the frontends with the hints of the menu,  *)
(* and, as a behaviour of its own, the placing of one hint.                *)
(***************************************************************************)
EXTENDS Frontends, Placement

VARIABLES turn       \* "frontends" or "placement", as chosen at the start

vars == <<turn, hintVars, frontendVars, placementVars>>

NoItem == RectAt(0, 0, 1, 1)

Init ==
  \/ /\ turn = "frontends" /\ HintInit /\ FrontendsInit
     /\ item = NoItem /\ placed = NotPlaced /\ gap = CHOOSE g \in Gaps : TRUE
     /\ size = [width |-> 1, height |-> 1]
  \/ /\ turn = "placement" /\ PlacementInit
     /\ HintInit /\ enabled = TRUE /\ FrontendsInit

Next ==
  \/ turn = "frontends" /\ FrontendsNext /\ UNCHANGED <<turn, placementVars>>
  \/ turn = "placement" /\ Place /\ UNCHANGED <<turn, hintVars, frontendVars>>

Spec == Init /\ [][Next]_vars

-----------------------------------------------------------------------------
TypeOK ==
  /\ turn \in {"frontends", "placement"}
  /\ HintTypeOK /\ FrontendsTypeOK /\ PlacementTypeOK
================================================================================
