---------------------------- MODULE MCSessions ----------------------------
(***************************************************************************)
(* Two scenes of Sessions for TLC, which bound the user, not the program:   *)
(* in "recharge" one tab number is opened up to three times and the page    *)
(* may be reloaded and give the number out again; in "page" two numbers are *)
(* opened twice in all and the page is never reloaded.                      *)
(***************************************************************************)
EXTENDS Sessions

CONSTANTS
  i1, i2, o3,
  Scenes  \* the scenes of the run

VARIABLE scene

toutes == <<scene, vars>>

\* What the user does in the scene.
DeLaScene ==
  /\ scene = "recharge" => servis' \subseteq {i1}
  /\ scene = "page" => recharges' = 0 /\ ouv'[o3].etape = "libre"

InitScenes == scene \in Scenes /\ Init /\ ouv[o3].id = i1
NextScenes == Next /\ DeLaScene /\ UNCHANGED scene
SpecScenes == InitScenes /\ [][NextScenes]_toutes
FairScenes == SpecScenes /\ Fairness

\* Every call of pty_open is answered, and a session whose handle was dropped
\* ends (Sessions!OuvertureRepondue, Sessions!EvinceeSEteint).
SessionsVives == OuvertureRepondue /\ EvinceeSEteint
=============================================================================
