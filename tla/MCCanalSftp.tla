------------------------------ MODULE MCCanalSftp -----------------------------
(***************************************************************************)
(* Small instances for TLC of what must end in the SFTP panel of a tab, each *)
(* in a scene of its own: its channel (CanalSftp), the transfer of a folder *)
(* (EnVol) and the queue of the transfers (Transferts).  A behaviour of the *)
(* run is one of a single scene; the other components stay at rest.  What   *)
(* the last two must never do is checked on larger instances (MCTransferts). *)
(***************************************************************************)
EXTENDS CanalSftp

CONSTANTS a1, a2, s1, s2

Appelants == <<a1, a2>>
Etablies == <<s1, s2>>

VARIABLES
  scene,                                                             \* the component that moves
  sens, crees, phase, fichier, arret, annule, cause, annonces, dit,  \* EnVol
  page, ligne, tache, registre, existe                               \* Transferts

MCDossiers == {<<>>, <<"a">>}
MCFichiers == {1, 2}
MCTaille == <<1, 2>>
MCLignes == {1, 2}

E == INSTANCE EnVol WITH Dossiers <- MCDossiers, Fichiers <- MCFichiers, Taille <- MCTaille,
                         EN_VOL <- 1, DEJA_MAX <- 0
T == INSTANCE Transferts WITH Lignes <- MCLignes, PARALLELE <- 1, Noms <- {"a"},
                              Homonymes <- FALSE, NUMEROS_MAX <- 4, RECHARGEMENTS_MAX <- 0

varsE == <<sens, crees, phase, fichier, arret, annule, cause, annonces, dit>>
varsT == <<page, ligne, tache, registre, existe>>
toutes == <<scene, vars, varsE, varsT>>

InitScenes ==
  /\ scene \in {"canal", "dossier", "file"}
  /\ Init /\ E!Init /\ T!Init
  /\ scene # "dossier" => sens = "envoi" /\ crees = {}
  /\ scene # "file" => existe = {}

EnC == scene = "canal" /\ UNCHANGED <<scene, varsE, varsT>>
EnE == scene = "dossier" /\ UNCHANGED <<scene, vars, varsT>>
EnT == scene = "file" /\ UNCHANGED <<scene, vars, varsE>>

NextScenes == \/ EnC /\ Next
              \/ EnE /\ E!Next
              \/ EnT /\ T!Next

\* The fairness of CanalSftp!Fairness in its scene; of EnVol!Equite and of
\* Transferts!Equite, less than they assume: that the component goes on while one
\* of those steps is possible.
AvanceE == \/ E!Annoncer \/ E!Miroir \/ E!Repondre \/ E!Renoncer \/ E!Commencer \/ E!CreerDossier(<<>>)
           \/ \E f \in MCFichiers : E!Finir(f) \/ E!Arreter(f) \/ E!Partir(f, 0)
AvanceT == \E x \in MCLignes :
             \/ T!Terminer(x) \/ T!Inscrire(x) \/ T!SansSession(x)
             \/ \E issue \in {"fini", "erreur", "annule"} : T!Finir(x, issue)
Equite ==
  /\ \A a \in Appels : WF_vars(scene = "canal" /\ Appel(a))
  /\ \A c \in Copies : WF_vars(scene = "canal" /\ Copie(c))
  /\ \A s \in Sessions : WF_vars(scene = "canal" /\ Deconnecter(s))
  /\ WF_varsE(EnE /\ AvanceE)
  /\ WF_varsT(EnT /\ AvanceT)

SpecScenes == InitScenes /\ [][NextScenes]_toutes /\ Equite

\* What is waited for in the scene, at most four things at once, and its end: a
\* call of a command of the panel and its answer, a session whose relay has ended
\* and its disconnection, a line of the queue and its end, a cancelled folder and
\* its answer (CanalSftp!AppelRepondu and FinieDeconnectee, Transferts!FileVive,
\* EnVol!AnnulationVue).
Attendu(i) ==
  CASE scene = "canal" /\ i \in {1, 2} -> appel[Appelants[i]].etape = "compter"
    [] scene = "canal" /\ i \in {3, 4} -> session[Etablies[i - 2]].etat = "finissante"
    [] scene = "file" /\ i \in MCLignes -> ligne[i].vue = "attente"
    [] scene = "dossier" /\ i = 1 -> annule
    [] OTHER -> FALSE
Rendu(i) ==
  CASE scene = "canal" /\ i \in {1, 2} -> appel[Appelants[i]].etape \in {"rendu", "occupee", "inconnue", "echec"}
    [] scene = "canal" /\ i \in {3, 4} -> session[Etablies[i - 2]].etat = "finie"
    [] scene = "file" /\ i \in MCLignes -> ligne[i].vue \notin {"attente", "en-cours"}
    [] scene = "dossier" /\ i = 1 -> phase = "rendu"
    [] OTHER -> TRUE

\* All of it comes, whatever was in line before: nobody keeps the session, a place
\* of the queue or a folder for ever.
PanneauVif == \A i \in 1 .. 4 : Attendu(i) ~> Rendu(i)
===============================================================================
