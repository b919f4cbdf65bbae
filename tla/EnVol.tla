-------------------------------- MODULE EnVol ---------------------------------
(***************************************************************************)
(* The transfer of a folder (download_dir_with, upload_dir_with,           *)
(* relayer_dir_vers, parcourir and en_vol of crates/avash/src/sftp.rs):    *)
(* its folders are made first, then its files go, a few at a time, under   *)
(* one stop flag, and one loop tells the page how far they are.  All of it *)
(* is one task: a file that ends is counted before another begins.         *)
(***************************************************************************)
EXTENDS Naturals, Sequences, SequencesExt, FiniteSets, Functions

CONSTANTS
  Dossiers,   \* relative paths of the folders, the root among them
  Fichiers,   \* the files, in their order: 1 .. n
  Taille,     \* blocks of each file
  EN_VOL,     \* files in flight (FICHIERS_EN_VOL)
  DEJA_MAX    \* bound: blocks a resumed file may have already

VARIABLES
  sens,       \* download, upload or copy between hosts
  crees,      \* folders that exist
  phase,      \* "dossiers", "fichiers" or "rendu"
  fichier,    \* each file: where it is, blocks done, blocks told
  arret,      \* the stop flag of the files
  annule,     \* the flag the user raises
  cause,      \* what the transfer will answer: "aucune", "annule", "erreur"
  annonces,   \* progress on its way to the loop that tells it
  dit         \* what was told: blocks, files ended

vars == <<sens, crees, phase, fichier, arret, annule, cause, annonces, dit>>

Nombre == Cardinality(Fichiers)
Total == FoldFunction(+, 0, [f \in Fichiers |-> Taille[f]])
En(etat) == {f \in Fichiers : fichier[f].etat = etat}

TypeOK ==
  /\ sens \in {"reception", "envoi", "relais"} /\ crees \subseteq Dossiers
  /\ phase \in {"dossiers", "fichiers", "rendu"}
  /\ \A f \in Fichiers : fichier[f].etat \in {"attend", "vole", "fini", "annule", "erreur"}
  /\ arret \in BOOLEAN /\ annule \in BOOLEAN /\ cause \in {"aucune", "annule", "erreur"}
  /\ dit.blocs \in Nat /\ dit.termines \in 0 .. Nombre

Init ==
  /\ sens \in {"reception", "envoi", "relais"}
  /\ crees \in {{}, {<<>>}} \* a folder may be there already
  /\ phase = "dossiers"
  /\ fichier = [f \in Fichiers |-> [etat |-> "attend", fait |-> 0, vu |-> 0]]
  /\ arret = FALSE /\ annule = FALSE /\ cause = "aucune"
  /\ annonces = <<>>
  /\ dit = [blocs |-> 0, termines |-> 0]

-----------------------------------------------------------------------------
(* The folders. *)

\* parcourir sorts them by depth, upload_dir_with by path: either way each one
\* comes before what it holds.
Suivant_SansTri(d) == TRUE
Suivant(d) ==
  \A x \in Dossiers \ crees :
    IF sens = "envoi" THEN ~IsStrictPrefix(x, d) ELSE Len(d) <= Len(x)

\* The root of a download or of a copy is made before the first look at the flag.
CreerDossier(d) ==
  /\ phase = "dossiers" /\ d \in Dossiers \ crees /\ Suivant(d)
  /\ ~annule \/ (d = <<>> /\ sens # "envoi")
  /\ crees' = crees \cup {d}
  /\ UNCHANGED <<sens, phase, fichier, arret, annule, cause, annonces, dit>>

\* A cancellation seen between two folders, or before the first file.
Renoncer ==
  /\ phase = "dossiers" /\ annule
  /\ sens = "envoi" \/ <<>> \in crees
  /\ phase' = "rendu" /\ cause' = "annule"
  /\ UNCHANGED <<sens, crees, fichier, arret, annule, annonces, dit>>
Echec ==
  /\ phase = "dossiers" /\ Dossiers # crees
  /\ phase' = "rendu" /\ cause' = "erreur"
  /\ UNCHANGED <<sens, crees, fichier, arret, annule, annonces, dit>>

Commencer ==
  /\ phase = "dossiers" /\ crees = Dossiers /\ ~annule
  /\ phase' = "fichiers"
  /\ UNCHANGED <<sens, crees, fichier, arret, annule, cause, annonces, dit>>

-----------------------------------------------------------------------------
(* en_vol: buffer_unordered starts the files in their order. *)

\* A file that ends; an error stops the others, and the cause that is told is
\* not the stop it made.
Compter_Derniere(f, issue) ==
  /\ fichier' = [fichier EXCEPT ![f].etat = issue]
  /\ arret' = (arret \/ issue # "fini")
  /\ cause' = IF issue = "fini" THEN cause ELSE issue
Compter(f, issue) ==
  /\ fichier' = [fichier EXCEPT ![f].etat = issue]
  /\ arret' = (arret \/ issue # "fini")
  /\ cause' = IF issue # "fini" /\ (cause = "aucune" \/ (cause = "annule" /\ issue = "erreur"))
              THEN issue ELSE cause

\* The next file begins, from what an earlier transfer left; a stopped one
\* gives up at once.
Partir(f, deja) ==
  /\ phase = "fichiers" /\ f \in En("attend") /\ Cardinality(En("vole")) < EN_VOL
  /\ \A g \in En("attend") : f <= g
  /\ IF arret THEN deja = 0 /\ Compter(f, "annule") /\ UNCHANGED annonces
     ELSE /\ fichier' = [fichier EXCEPT ![f] = [etat |-> "vole", fait |-> deja, vu |-> deja]]
          /\ annonces' = IF deja > 0 THEN Append(annonces, [blocs |-> deja, fini |-> FALSE]) ELSE annonces
          /\ UNCHANGED <<arret, cause>>
  /\ UNCHANGED <<sens, crees, phase, annule, dit>>

\* Rapporteur: a block more than what was told of the file; a block may also go
\* untold (the short paths tell at the end only).
Avancer(f) ==
  /\ f \in En("vole") /\ fichier[f].fait < Taille[f] /\ ~arret
  /\ \/ /\ fichier' = [fichier EXCEPT ![f].fait = @ + 1, ![f].vu = fichier[f].fait + 1]
        /\ annonces' = Append(annonces, [blocs |-> fichier[f].fait + 1 - fichier[f].vu, fini |-> FALSE])
     \/ fichier' = [fichier EXCEPT ![f].fait = @ + 1] /\ UNCHANGED annonces
  /\ UNCHANGED <<sens, crees, phase, arret, annule, cause, dit>>

\* What remains between what was told and what the file returns.
Reliquat_Entier(f) == Taille[f]
Reliquat(f) == Taille[f] - fichier[f].vu
Finir(f) ==
  /\ f \in En("vole") /\ fichier[f].fait = Taille[f]
  /\ annonces' = Append(annonces, [blocs |-> Reliquat(f), fini |-> TRUE])
  /\ Compter(f, "fini")
  /\ UNCHANGED <<sens, crees, phase, annule, dit>>
Echouer(f) ==
  /\ f \in En("vole") /\ Compter(f, "erreur")
  /\ UNCHANGED <<sens, crees, phase, annule, annonces, dit>>
Arreter(f) ==
  /\ f \in En("vole") /\ arret /\ fichier[f].fait < Taille[f] /\ Compter(f, "annule")
  /\ UNCHANGED <<sens, crees, phase, annule, annonces, dit>>

Annoncer ==
  /\ annonces # <<>>
  /\ dit' = [blocs |-> dit.blocs + Head(annonces).blocs,
             termines |-> dit.termines + IF Head(annonces).fini THEN 1 ELSE 0]
  /\ annonces' = Tail(annonces)
  /\ UNCHANGED <<sens, crees, phase, fichier, arret, annule, cause>>

\* The mirror: the user's flag is copied on the files' one, every 20 ms.
Miroir ==
  /\ phase = "fichiers" /\ annule /\ ~arret /\ En("attend") \cup En("vole") # {}
  /\ arret' = TRUE
  /\ UNCHANGED <<sens, crees, phase, fichier, annule, cause, annonces, dit>>

\* join!: every file has given back, and everything was told.
Repondre_Aussitot ==
  /\ phase = "fichiers" /\ (cause # "aucune" \/ En("attend") \cup En("vole") = {})
  /\ annonces = <<>> /\ phase' = "rendu"
  /\ UNCHANGED <<sens, crees, fichier, arret, annule, cause, annonces, dit>>
Repondre ==
  /\ phase = "fichiers" /\ En("attend") \cup En("vole") = {} /\ annonces = <<>>
  /\ phase' = "rendu"
  /\ UNCHANGED <<sens, crees, fichier, arret, annule, cause, annonces, dit>>

Annuler ==
  /\ phase # "rendu" /\ ~annule /\ annule' = TRUE
  /\ UNCHANGED <<sens, crees, phase, fichier, arret, cause, annonces, dit>>

Next ==
  \/ \E d \in Dossiers : CreerDossier(d)
  \/ Renoncer \/ Echec \/ Commencer \/ Annoncer \/ Miroir \/ Repondre \/ Annuler
  \/ \E f \in Fichiers :
       \/ \E deja \in 0 .. DEJA_MAX : deja < Taille[f] /\ Partir(f, deja)
       \/ Avancer(f) \/ Finir(f) \/ Echouer(f) \/ Arreter(f)

\* The timer of the mirror, the loop of the progress and the tasks are polled;
\* that a server answers is not assumed, but for the root and a stopped file.
Equite ==
  /\ WF_vars(Annoncer) /\ WF_vars(Miroir) /\ WF_vars(Repondre) /\ WF_vars(Renoncer)
  /\ WF_vars(Commencer) /\ WF_vars(CreerDossier(<<>>))
  /\ \A f \in Fichiers : WF_vars(Finir(f)) /\ WF_vars(Arreter(f)) /\ WF_vars(Partir(f, 0))
Spec == Init /\ [][Next]_vars /\ Equite

-----------------------------------------------------------------------------
(* Properties. *)

\* Each folder is made after the one that holds it.
ParentAvant == \A d \in crees : d # <<>> => Front(d) \in crees

\* The answer is the true one: nothing flies any more when it is given; it says
\* "cancelled" only of a cancellation by the user, an error only of a file or a
\* folder that failed, which no cancellation hides, and a success of all.
ReponseVraie ==
  phase = "rendu" =>
    /\ En("vole") = {}
    /\ cause = "annule" => annule /\ En("erreur") = {}
    /\ cause = "erreur" => En("erreur") # {} \/ crees # Dossiers
    /\ cause = "aucune" => En("fini") = Fichiers

\* The progress counts each block once, whether the file was resumed, told
\* block by block or at its end; a success has told everything.
AvancementExact ==
  /\ dit.blocs <= Total
  /\ phase = "rendu" /\ cause = "aucune" => dit = [blocs |-> Total, termines |-> Nombre]

\* A cancelled transfer answers.
AnnulationVue == annule ~> phase = "rendu"
===============================================================================
