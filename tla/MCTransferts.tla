------------------------------ MODULE MCTransferts ----------------------------
(***************************************************************************)
(* Small instances for TLC of the transfers of files, each in a scene of   *)
(* its own: the download that resumes (Telechargement), the send (Envoi),   *)
(* the copy between two hosts (Relais), the folder (EnVol), the queue on a  *)
(* page that stays ("file") and on one that may be reloaded ("recharge",    *)
(* Transferts).  A behaviour of the run is one of a single scene; the other *)
(* components stay as they were at first.                                   *)
(***************************************************************************)
EXTENDS Telechargement

VARIABLES
  scene,                                                             \* the component that moves
  local, carteEnvoi, distantEnvoi, env, compte,                      \* Envoi
  noms, contenu, copie, lancees,                                     \* Relais
  sens, crees, phase, fichier, arret, annule, cause, annonces, dit,  \* EnVol
  page, ligne, tache, registre, existe                               \* Transferts

MCCibles == {<<"h1", "a">>, <<"h1", "b">>}
MCDossiers == {<<>>, <<"a">>, <<"b">>, <<"a", "b">>}
MCTaille == <<2, 1, 2, 0>>

S == INSTANCE Envoi WITH
       Envois <- {1, 2}, Cibles <- MCCibles, Tailles <- {1, 3}, PETIT <- 1, POINT <- 2, EN_VOL <- 1,
       AutruiCree <- FALSE, VERSIONS_MAX <- 2, ENVOIS_MAX <- 3, GESTES_MAX <- 1,
       carte <- carteEnvoi, distant <- distantEnvoi
C == INSTANCE Relais WITH
       Copies <- {1, 2}, LesBandes <- {1, 2}, Remplace <- FALSE, Ensemble <- FALSE,
       COPIES_MAX <- 3, FICHIERS <- 4
\* The same at a server whose rename replaces the target.
R == INSTANCE Relais WITH
       Copies <- {1, 2}, LesBandes <- {1, 2}, Remplace <- TRUE, Ensemble <- FALSE,
       COPIES_MAX <- 3, FICHIERS <- 4
E == INSTANCE EnVol WITH
       Dossiers <- MCDossiers, Fichiers <- {1, 2, 3}, Taille <- MCTaille, EN_VOL <- 2, DEJA_MAX <- 1
T == INSTANCE Transferts WITH
       Lignes <- {1, 2, 3}, PARALLELE <- 2, Noms <- {"a"}, Homonymes <- FALSE,
       NUMEROS_MAX <- 5, RECHARGEMENTS_MAX <- 1

varsS == <<local, carteEnvoi, distantEnvoi, env, compte>>
varsC == <<noms, contenu, copie, lancees>>
varsE == <<sens, crees, phase, fichier, arret, annule, cause, annonces, dit>>
varsT == <<page, ligne, tache, registre, existe>>
toutes == <<scene, vars, varsS, varsC, varsE, varsT>>

InitScenes ==
  /\ scene \in {"reprise", "envoi", "relais", "remplace", "dossier", "file", "recharge"}
  /\ Init /\ S!Init /\ C!Init /\ E!Init /\ T!Init
  /\ scene # "reprise" => distant.taille = 2
  /\ scene # "envoi" => local.taille = 1
  /\ scene \notin {"relais", "remplace"} => noms["cible"] = 1
  /\ scene # "dossier" => sens = "envoi" /\ crees = {}
  /\ scene \notin {"file", "recharge"} => existe = {}

EnD == scene = "reprise" /\ UNCHANGED <<scene, varsS, varsC, varsE, varsT>>
EnS == scene = "envoi" /\ UNCHANGED <<scene, vars, varsC, varsE, varsT>>
EnC == scene = "relais" /\ UNCHANGED <<scene, vars, varsS, varsE, varsT>>
EnR == scene = "remplace" /\ UNCHANGED <<scene, vars, varsS, varsE, varsT>>
EnE == scene = "dossier" /\ UNCHANGED <<scene, vars, varsS, varsC, varsT>>
EnT == scene \in {"file", "recharge"} /\ UNCHANGED <<scene, vars, varsS, varsC, varsE>>

\* What bounds a send: three sends, or two and a gesture of others.
TroisGestes == compte'.envois + compte'.gestes <= 3
\* What bounds the user of the queue: the page stays, or it has two lines.
Bornes == IF scene = "file" THEN page' = 1 ELSE ligne'[3].vue = "jamais"

NextScenes ==
  \/ EnD /\ Next
  \/ EnS /\ S!Next /\ TroisGestes
  \/ EnC /\ C!Next
  \/ EnR /\ R!Next
  \/ EnE /\ E!Next
  \/ EnT /\ T!Next /\ Bornes

SpecScenes == InitScenes /\ [][NextScenes]_toutes

\* A send that ends well leaves the local file at its target, and its map says
\* nothing the server does not have (Envoi!EnvoiFidele, CarteVraie); the target of
\* a copy never designates a fragment, and what was copied in full is not lost to a
\* failure of its promotion (Relais!CibleEntiere, PromotionSansPerte); a download
\* lands on a name that nothing had (Transferts!RienEcrase).
CopiesFideles ==
  /\ S!EnvoiFidele /\ [](scene = "envoi" => S!CarteVraie)
  /\ [](C!CibleEntiere) /\ C!PromotionSansPerte
  /\ T!RienEcrase

\* The transfer of a folder answers what happened, makes each folder after the
\* one that holds it and tells each block once (EnVol!ReponseVraie, ParentAvant,
\* AvancementExact); the queue fills its places and cancels what it says it
\* cancels, each number naming one command until the page is reloaded
\* (Transferts!AttenteJustifiee, AnnulationVraie, RegistreTenu).
TransfertsVrais ==
  /\ scene = "dossier" => E!TypeOK /\ E!ParentAvant /\ E!ReponseVraie /\ E!AvancementExact
  /\ T!AttenteJustifiee
  /\ page = 1 => T!AnnulationVraie /\ T!RegistreTenu
===============================================================================
