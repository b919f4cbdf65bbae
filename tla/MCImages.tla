------------------------------- MODULE MCImages -------------------------------
(***************************************************************************)
(* Instances for TLC of the images of a desktop, each in a scene of its own: *)
(* the RDP process and its tab (Cadence), the screen of a VNC server, and    *)
(* what the user types and pastes there once the screen was served (Vnc).    *)
(* A behaviour of the run is one of a single scene.                          *)
(***************************************************************************)
EXTENDS Cadence, Vnc

VARIABLE scene   \* which scene the behaviour plays

ASSUME VncAssumption

toutes == <<scene, varsCadence, varsVnc>>

InitScenes == scene \in {"rdp", "ecran", "mains"} /\ InitCadence /\ InitVnc

EnRdp == scene = "rdp" /\ UNCHANGED <<scene, varsVnc>>
EnVnc == scene # "rdp" /\ UNCHANGED <<scene, varsCadence>>
Ecran == scene = "ecran"
Mains == scene = "mains"

\* What the two scenes of Vnc leave out: more than one change of size, empty update
\* or hiding together; what is typed before the screen was served.
Budget == borne.tailles + borne.vides + gestes < 2
Servi == gestes = 0 => canvasV = ecran

NextScenes ==
  \/ EnRdp /\ NextCadence
  \/ EnVnc /\ Ecran /\ \E z \in ZonesVnc : Dessiner(z)
  \/ EnVnc /\ Ecran /\ Budget /\ (RetaillerVnc \/ Vue)
  \/ EnVnc /\ Mains /\ Servi /\ ((\E long \in BOOLEAN : Copier(long)) \/ Saisie)
  \/ EnVnc /\ ((\E z \in ZonesVnc : Envoyer(z)) \/ ((Budget \/ change = {}) /\ FinirEnvoi))
  \/ EnVnc /\ Recevoir
  \/ EnVnc /\ LireMessageVnc
  \/ EnVnc /\ Afficher
  \/ EnVnc /\ \E passe \in BOOLEAN : (passe => Ecran) /\ TicVnc(passe)

\* The fairness of each component (FairnessCadence, FairnessVnc), in its scene.
EquiteRdp ==
  /\ WF_varsCadence(scene = "rdp" /\ LireMessage)
  /\ WF_varsCadence(scene = "rdp" /\ \E passe \in BOOLEAN : Tic(passe))
  /\ WF_varsCadence(scene = "rdp" /\ Page)
  /\ \A z \in Zones : WF_varsCadence(scene = "rdp" /\ z \in du /\ DessinerZone(z))
EquiteVnc ==
  /\ WF_toutes(EnVnc /\ Serveur) /\ WF_toutes(EnVnc /\ Recevoir)
  /\ WF_toutes(EnVnc /\ LireMessageVnc) /\ WF_toutes(EnVnc /\ TicVnc(FALSE))
  /\ WF_toutes(EnVnc /\ Afficher)

SpecScenes == InitScenes /\ [][NextScenes]_toutes /\ EquiteRdp /\ EquiteVnc

\* A tab that stays displayed ends up showing the desktop as it is
\* (Cadence!CanvasAJour, Vnc!BureauSuivi).
BureauAJour ==
  <>[](IF scene = "rdp" THEN affiche /\ ~deplace ELSE afficheV)
    => <>[](IF scene = "rdp" THEN canvas = image ELSE canvasV = ecran)
===============================================================================
