-------------------------------- MODULE MCPoste --------------------------------
(***************************************************************************)
(* Instances for TLC of what the components of a desktop, and the commands of *)
(* an SSH session, must never do, each in a scene of its own: the shared      *)
(* folder (Disque), the connection (ConnexionBureau), the files received       *)
(* (Reception), the clipboard (PressePapiers), the recording of the dialogue  *)
(* (Magnetoscope), the commands that lend the agent (Commande), the snippets  *)
(* (Snippets) and the SSH keys (Cles).  What must end is checked on smaller  *)
(* instances (MCBureau, MCSsh).                                              *)
(***************************************************************************)
EXTENDS Disque, TLC

CONSTANTS Aucune, inconnue

VARIABLES
  scene,                                                           \* the component that moves
  etape, tour, redirige, politique, dessine, muet, hybride, cle, lu, issue, poste, client,
  entree, page, sansNla, nature, epingles, memoire, autre, livrees, refus, rejoue,
                                                                   \* ConnexionBureau
  sessionR, distants, boucle, rec, enCours, ecritR, laisse, plage, serveurR, cibles, parts,
  compteR, promus,                                                 \* Reception
  partage, texte, offre, attente, verrous, clip, pret, vue, colles, compteP, attenduesP,
  accuses, jetees,                                                       \* PressePapiers
  verrou, cmd, agent, relais, table,                               \* Commande
  proc, bande, ecrivains, echanges, pannesM,                       \* Magnetoscope
  fichierN, appelsN, pageN, onglets, distantsN, attendu, chevaucheN, gestesN, pannesN,  \* Snippets
  dossierK, appelsK, pageK, autorises, faites, entieres, posees, chevaucheK, gestesK, pannesK  \* Cles

\* A folder that holds a folder with a file, one that holds a file beside a link that
\* leads out, one that holds a pipe beside a link that stays in.
Vide == [p \in Chemins |-> IF p \in {Racine, <<"x">>} THEN Dossier ELSE Rien]
MCArbres == {
  [Vide EXCEPT ![<<"r", "a">>] = Dossier, ![<<"r", "a", "a">>] = Fichier(1)],
  [Vide EXCEPT ![<<"r", "a">>] = Fichier(1), ![<<"r", "b">>] = [t |-> "lien", vers |-> <<"x">>]],
  [Vide EXCEPT ![<<"r", "a">>] = [t |-> "special"], ![<<"r", "b">>] = [t |-> "lien", vers |-> <<"r">>]]}

\* Lists of files: one shorter than announced and one of unknown size; a refused
\* name, an empty file and one of two pieces.
Fic(t, v) == [dossier |-> FALSE, sur |-> TRUE, taille |-> t, vraie |-> v]
MCListes == <<
  <<Fic(3, 2), Fic(inconnue, 1)>>,
  <<[dossier |-> FALSE, sur |-> FALSE, taille |-> 1, vraie |-> 1], Fic(0, 0), Fic(2, 2)>>>>

\* What a server sends: drawings of the two ways, sizes of the two ways, something for the
\* clipboard, something nobody can read.
Pdu(v, n, e, ou, q) == [voie |-> v, n |-> n, effet |-> e, ou |-> ou, quoi |-> q]
MCPdus == {Pdu("fast", 2, "dessin", 1, "a"), Pdu("x224", 1, "ouvre", 0, ""), Pdu("x224", 1, "trame", 2, "b"),
           Pdu("x224", 1, "taille", 1, ""), Pdu("x224", 1, "desactive", 1, ""), Pdu("x224", 1, "canal", 0, ""),
           Pdu("fast", 1, "faux", 0, ""), Pdu("x224", 2, "redirige", 0, "")}

\* Snippets of several lines, one whose marks hide one another, one with a brace in the
\* name of its variable; values that bring a mark.
MCTextes == {<<>>, <<"x", "lf", "ESC[20", "ESC[20", "1~", "1~", "lf", "y">>,
             <<"{", "{", "a", "}", "b", "}", "}">>}
MCValeurs == {<<"ESC[20", "0~">>, <<"y">>}
MCSnippets == <<[id |-> "n1", texte |-> <<"{", "{", "v", "}", "}", "cr", "lf", "x">>]>>

\* Names, two of them crossed; a public file alone, there before; an authorized_keys
\* whose last line is ended, or not.
MCPresents == <<"d", "pub">> :> [genre |-> "publique", paire |-> 98, entier |-> TRUE]
MCDeparts == {[lignes |-> <<<<[paire |-> 99, entier |-> TRUE]>>>>, finie |-> f] : f \in BOOLEAN}

C == INSTANCE ConnexionBureau WITH
       Cles <- {"k1", "k2"}, TOURS_MAX <- 4, Natures <- {"classique", "graphique"}
R == INSTANCE Reception WITH
       session <- sessionR, ecrit <- ecritR, serveur <- serveurR, compte <- compteR,
       Listes <- MCListes, Inconnue <- inconnue, EN_VOL <- 2, PLAGE <- 6, FLUX_MAX <- 15,
       Places <- {1, 2, 3}, CoupeCourt <- FALSE, ANNONCES_MAX <- 2, RECEPTIONS_MAX <- 2,
       GESTES_MAX <- 1
P == INSTANCE PressePapiers WITH
       compte <- compteP, attendues <- attenduesP, Verrous <- {1, 2}, VERROUS_MAX <- 1,
       COPIES_MAX <- 2, DEMANDES_MAX <- 2, BASCULES_MAX <- 1
K == INSTANCE Commande WITH
       Commandes <- {"c1", "c2", "s"}, AvecAgent <- {"c1", "c2"}, Relais <- {"r1", "r2"},
       PLAFOND <- 1
M == INSTANCE Magnetoscope WITH
       fichier <- bande, pannes <- pannesM, Modes <- "p1" :> {"session", "capture"} @@ "p2" :> {"session"},
       Pdus <- MCPdus, Tailles <- {2}, PLAFOND <- 7, DESSIN <- 1, MUET <- 2, ECHANGES_MAX <- 5,
       PANNES_MAX <- 1
Sn == INSTANCE Snippets WITH
        fichier <- fichierN, appels <- appelsN, page <- pageN, distants <- distantsN,
        chevauche <- chevaucheN, gestes <- gestesN, pannes <- pannesN, Textes <- MCTextes, Valeurs <- MCValeurs, Noms <- {"n1", "n2", "n3"},
        Sessions <- {"s", "t"}, Gere <- {"s"}, Appels <- {1, 2}, CAPACITE <- 1, Depart <- MCSnippets,
        GESTES_MAX <- 2, PANNES_MAX <- 1
Kl == INSTANCE Cles WITH
        appels <- appelsK, page <- pageK, dossier <- dossierK,
        chevauche <- chevaucheK, gestes <- gestesK, pannes <- pannesK,
        Noms <- {<<"a">>, <<"a", "pub">>, <<"b">>, <<"d">>}, DejaLa <- MCPresents,
        Appels <- {1, 2}, Departs <- MCDeparts, GESTES_MAX <- 3, PANNES_MAX <- 1

ASSUME C!ConnexionAssumption /\ M!MagnetoscopeAssumption
ASSUME R!ReceptionAssumption /\ P!PresseAssumption /\ K!CommandeAssumption
ASSUME Sn!SnippetsAssumption /\ Kl!ClesAssumption

varsC == <<etape, tour, redirige, politique, dessine, muet, hybride, cle, lu, issue, poste,
           client, entree, page, sansNla, nature, epingles, memoire, autre, livrees, refus, rejoue>>
varsR == <<sessionR, distants, boucle, rec, enCours, ecritR, laisse, plage, serveurR, cibles,
           parts, compteR, promus>>
varsP == <<partage, texte, offre, attente, verrous, clip, pret, vue, colles, compteP,
           attenduesP, jetees, accuses>>
varsK == <<verrou, cmd, agent, relais, table>>
varsM == <<proc, bande, ecrivains, echanges, pannesM>>
varsN == <<fichierN, appelsN, pageN, onglets, distantsN, attendu, chevaucheN, gestesN, pannesN>>
varsL == <<dossierK, appelsK, pageK, autorises, faites, entieres, posees, chevaucheK, gestesK, pannesK>>
autres == <<varsN, varsL>>
toutes == <<scene, vars, varsC, varsR, varsP, varsK, varsM, autres>>

\* What these hold while they are not on the scene.
MuetN == fichierN = "" /\ appelsN = "" /\ pageN = "" /\ onglets = "" /\ distantsN = "" /\ attendu = "" /\
         chevaucheN = "" /\ gestesN = "" /\ pannesN = ""
MuetL == dossierK = "" /\ appelsK = "" /\ pageK = "" /\ autorises = "" /\ faites = "" /\ entieres = "" /\
         posees = "" /\ chevaucheK = "" /\ gestesK = "" /\ pannesK = ""

InitScenes ==
  /\ scene \in {"disque", "processus", "reception", "presse", "commande", "bande", "snippets", "cles"}
  /\ Init /\ C!Init /\ R!Init /\ P!Init /\ K!Init /\ M!Init
  /\ IF scene = "snippets" THEN Sn!Init ELSE MuetN
  /\ IF scene = "cles" THEN Kl!Init ELSE MuetL
  /\ scene # "disque" => fs[<<"r", "b">>] = Rien
  /\ scene # "processus" => ~sansNla /\ nature = "classique"

EnD == scene = "disque" /\ UNCHANGED <<scene, varsC, varsR, varsP, varsK, varsM, autres>>
EnC == scene = "processus" /\ UNCHANGED <<scene, vars, varsR, varsP, varsK, varsM, autres>>
EnR == scene = "reception" /\ UNCHANGED <<scene, vars, varsC, varsP, varsK, varsM, autres>>
EnP == scene = "presse" /\ UNCHANGED <<scene, vars, varsC, varsR, varsK, varsM, autres>>
EnK == scene = "commande" /\ UNCHANGED <<scene, vars, varsC, varsR, varsP, varsM, autres>>
EnM == scene = "bande" /\ UNCHANGED <<scene, vars, varsC, varsR, varsP, varsK, autres>>
EnN == scene = "snippets" /\ UNCHANGED <<scene, vars, varsC, varsR, varsP, varsK, varsM, varsL>>
EnL == scene = "cles" /\ UNCHANGED <<scene, vars, varsC, varsR, varsP, varsK, varsM, varsN>>

NextScenes == \/ EnD /\ Next
              \/ EnC /\ C!Next
              \/ EnR /\ R!Next
              \/ EnP /\ P!Next
              \/ EnK /\ K!Next
              \/ EnM /\ M!Next
              \/ EnN /\ Sn!Next
              \/ EnL /\ Kl!Next

SpecScenes == InitScenes /\ [][NextScenes]_toutes

\* Credentials go to a key that was accepted, and the process is on the path it tells
\* (ConnexionBureau!IdentifiantsTenus, DirectVrai); a file received is the one of the
\* server and its work file goes with the reception (Reception!RecuFidele,
\* PartRetiree); a request of the remote for the clipboard has its answer,
\* or one the channel refused (PressePapiers!ReponseContenu); a command reports what the server said, and the
\* agent is lent while a command that lends it runs (Commande!IssueVraie, PretEntier); a
\* recording and its replay are what the server sent and the session showed
\* (Magnetoscope!EnregistrementFidele, CaptureFidele, RejeuFidele); a snippet that is
\* inserted executes nothing, and the file of the snippets is what was asked for
\* (Snippets!SnippetsTenus); a pair of keys is made once, and a line is installed on a line
\* of its own (Cles!ClesTenues).
ServicesFideles ==
  CASE scene = "processus" -> C!IdentifiantsTenus /\ C!DirectVrai
    [] scene = "reception" -> R!TypeOK /\ R!RecuFidele /\ R!PartRetiree
    [] scene = "presse" -> P!TypeOK /\ P!ReponseContenu
    [] scene = "commande" -> K!TypeOK /\ K!IssueVraie /\ K!PretEntier
    [] scene = "bande" -> M!MagnetoscopeTenu
    [] scene = "snippets" -> Sn!SnippetsTenus
    [] scene = "cles" -> Kl!ClesTenues
    [] OTHER -> TRUE

\* What the user has on the workstation stays: a request that is refused leaves the
\* shared folder as it was, a file of it disappears only by a handle marked for it or
\* a replacement (Disque!RefusSansEffet, RienDePerdu), and a reception writes over
\* nothing (Reception!RienEcrase); a relay of the agent does not outlive its command
\* (Commande!PretRendu).
PosteGarde == RefusSansEffet /\ RienDePerdu /\ R!RienEcrase /\ K!PretRendu
===============================================================================
