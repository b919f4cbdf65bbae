------------------------------- MODULE MCBureau -------------------------------
(***************************************************************************)
(* Small instances for TLC of the life of a remote desktop, each in a scene *)
(* of its own: the tab, the store and the processes (Bureau), one process   *)
(* from its arguments to its end (ConnexionBureau), the files it receives   *)
(* (Reception) and its clipboard (PressePapiers).  A behaviour of the run   *)
(* is one of a single scene; the other components stay as they were.  What  *)
(* the last three must never do is checked on larger instances (MCPoste).   *)
(***************************************************************************)
EXTENDS Bureau, Sequences

CONSTANTS o1, o2, k1, Aucune, inconnue

VARIABLES
  scene,                                                            \* the component that moves
  etape, tour, redirige, politique, dessine, muet, hybride, cle, lu, issue, poste, client,
  entree, page, sansNla, nature, epingles, memoire, autre, livrees, refus, rejoue,  \* ConnexionBureau
  session, distants, boucle, rec, enCours, ecrit, laisse, plage, serveur, cibles, parts,
  compte, promus,                                                   \* Reception
  partage, texte, offre, attente, verrous, clip, pret, vue, colles, comptePP, attendues,
  accuses, jetees                                                   \* PressePapiers

Fic(t, v) == [dossier |-> FALSE, sur |-> TRUE, taille |-> t, vraie |-> v]
\* A file shorter than announced and one of unknown size.
MCListes == << <<Fic(2, 1), Fic(inconnue, 1)>> >>

C == INSTANCE ConnexionBureau WITH
       Cles <- {k1}, TOURS_MAX <- 3, Natures <- {"classique", "graphique"}
R == INSTANCE Reception WITH
       Listes <- MCListes, Inconnue <- inconnue, EN_VOL <- 2, PLAGE <- 6, FLUX_MAX <- 15,
       Places <- {1, 2}, CoupeCourt <- FALSE, ANNONCES_MAX <- 1, RECEPTIONS_MAX <- 2,
       GESTES_MAX <- 0
P == INSTANCE PressePapiers WITH
       Verrous <- {1}, VERROUS_MAX <- 1, COPIES_MAX <- 2, DEMANDES_MAX <- 1,
       BASCULES_MAX <- 1, compte <- comptePP

ASSUME C!ConnexionAssumption /\ R!ReceptionAssumption /\ P!PresseAssumption

varsC == <<etape, tour, redirige, politique, dessine, muet, hybride, cle, lu, issue, poste,
           client, entree, page, sansNla, nature, epingles, memoire, autre, livrees, refus, rejoue>>
varsR == <<session, distants, boucle, rec, enCours, ecrit, laisse, plage, serveur, cibles,
           parts, compte, promus>>
varsP == <<partage, texte, offre, attente, verrous, clip, pret, vue, colles, comptePP,
           attendues, jetees, accuses>>
toutes == <<scene, vars, varsC, varsR, varsP>>

InitScenes ==
  /\ scene \in {"bureau", "processus", "reception", "presse"}
  /\ Init /\ C!Init /\ R!Init /\ P!Init
  /\ scene # "processus" => ~sansNla /\ nature = "classique"

EnB == scene = "bureau" /\ UNCHANGED <<scene, varsC, varsR, varsP>>
EnC == scene = "processus" /\ UNCHANGED <<scene, vars, varsR, varsP>>
EnR == scene = "reception" /\ UNCHANGED <<scene, vars, varsC, varsP>>
EnP == scene = "presse" /\ UNCHANGED <<scene, vars, varsC, varsR>>

NextScenes == \/ EnB /\ Next
              \/ EnC /\ C!Next
              \/ EnR /\ R!Next
              \/ EnP /\ P!Next

\* The fairness of each component (Bureau!Fairness, ConnexionBureau!Fairness,
\* Reception!Equite, PressePapiers!Equite), in its scene.
EquiteB ==
  /\ WF_vars(scene = "bureau" /\ RdpOpen) /\ WF_vars(scene = "bureau" /\ RdpClose)
  /\ WF_vars(scene = "bureau" /\ RdpDiagnostic) /\ WF_vars(scene = "bureau" /\ FinirAnnonce)
  /\ \A o \in Ouvertures :
       /\ WF_vars(scene = "bureau" /\ PasAppel(o)) /\ WF_vars(scene = "bureau" /\ PasPage(o))
       /\ WF_vars(scene = "bureau" /\ Servir(o))
       /\ WF_vars(scene = "bureau" /\ DoitFinir(o) /\ Finir(o))
EquiteC ==
  WF_varsC(EnC /\ C!Avancer) /\ WF_varsC(EnC /\ client = "parti" /\ C!FinirSession)
EquiteR ==
  /\ WF_varsR(EnR /\ R!Demarrer) /\ WF_varsR(EnR /\ R!Finir)
  /\ WF_varsR(EnR /\ \E q \in serveur : R!Reponse(q))
EquiteP ==
  WF_varsP(EnP /\ P!Tic) /\ WF_varsP(EnP /\ P!Passer) /\ WF_varsP(EnP /\ P!Prendre)

SpecScenes ==
  InitScenes /\ [][NextScenes]_toutes /\ EquiteB /\ EquiteC /\ EquiteR /\ EquiteP

\* What is waited for in the scene, at most four things at once, and its end: a
\* process without a tab and its end, a tab on « connexion » and what it shows next
\* (Bureau!SessionRendue, OuvertureAboutit); a process that starts and its session
\* or its end (ConnexionBureau!Aboutit); a reception and its end
\* (Reception!ReceptionAboutit); a file offered and its departure or the failure
\* said (PressePapiers!OffreAboutit).
Ouverture == <<o1, o2>>
EnConnexion(o) == \E i \in Ids : onglet[i] = [etat |-> "connexion", ouv |-> o]
Attendu(i) ==
  CASE scene = "bureau" /\ i \in {1, 2} -> proc[Ouverture[i]] \in Vivants /\ ~AOnglet(Ouverture[i])
    [] scene = "bureau" /\ i \in {3, 4} -> EnConnexion(Ouverture[i - 2])
    [] scene = "processus" /\ i = 1 -> TRUE
    [] scene = "reception" /\ i = 1 -> rec # R!Nulle
    [] scene = "presse" /\ i = 1 -> attente # P!SansAttente
    [] OTHER -> FALSE
Rendu(i) ==
  CASE scene = "bureau" /\ i \in {1, 2} -> proc[Ouverture[i]] = "fini"
    [] scene = "bureau" /\ i \in {3, 4} ->
         ~EnConnexion(Ouverture[i - 2]) \/ ouv[Ouverture[i - 2]].reponse = "annulee"
    [] scene = "processus" /\ i = 1 -> etape \in {"session", "fini"}
    [] scene = "reception" /\ i = 1 -> rec = R!Nulle
    [] scene = "presse" /\ i = 1 -> attente = P!SansAttente
    [] OTHER -> TRUE

\* All of it comes: no session stays open for nobody, no tab on « connexion », no
\* process between two connections, no reception or offer in the middle.
BureauVif == \A i \in 1 .. 4 : Attendu(i) ~> Rendu(i)

\* The process implements the abstract one, whose only promise of progress is not
\* to outlive those it serves (ConnexionBureau!ImplementeProcessus).
ImplementeProcessus == C!ImplementeProcessus
===============================================================================
