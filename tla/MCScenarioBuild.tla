--------------------------- MODULE MCScenarioBuild ---------------------------
(* ScenarioBuild for two accounts, or one, and two or three tasks. *)
EXTENDS ScenarioBuild

CONSTANTS a1, a2

TwoAccounts == <<a1, a2>>
OneAccount  == <<a1>>

JustThree == {3}

(* Two blocks are rounded up to an era of four. *)
TwoOrNone == {2, Immortal}
JustTwo == {2}
===============================================================================
