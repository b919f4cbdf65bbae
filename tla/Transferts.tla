------------------------------ MODULE Transferts ------------------------------
(***************************************************************************)
(* The queue of the transfers: the lines of the page (web/sftp.ts and      *)
(* web/sftp-transferts.ts), the commands they launch and the registry of   *)
(* the cancellations (crates/avash-ui/src/commands/sftp.rs).  The page     *)
(* numbers its transfers from 1, again after a reload; the core keeps the  *)
(* commands that run.                                                      *)
(***************************************************************************)
EXTENDS Naturals, FiniteSets

CONSTANTS
  Lignes,        \* the transfers asked, in their order: 1 .. n
  PARALLELE,     \* transfers led at once
  Noms,          \* names of the files and folders to download
  Homonymes,     \* may two downloads of one name run together?
  NUMEROS_MAX,   \* bound: "name (n)"
  RECHARGEMENTS_MAX

VARIABLES
  page,      \* loads of the page
  ligne,     \* the lines: page and number, what the page shows, whether its cancellation was taken
  tache,     \* the commands: where they are, their flag, their local file
  registre,  \* the flag of each number: the command that entered it
  existe     \* local files and folders that exist

vars == <<page, ligne, tache, registre, existe>>

Locaux == Noms \X (1 .. NUMEROS_MAX)
Sans == <<"aucun", 0>>
Vues == {"jamais", "attente", "en-cours", "fini", "erreur", "annule", "partie"}
Jamais == [vue |-> "jamais", page |-> 0, id |-> 0, genre |-> "envoi", nom |-> "aucun", dit |-> FALSE]
SansTache == [etat |-> "non", drapeau |-> FALSE, local |-> Sans]

TypeOK ==
  /\ page \in 1 .. RECHARGEMENTS_MAX + 1
  /\ \A x \in Lignes : ligne[x].vue \in Vues /\ ligne[x].dit \in BOOLEAN
  /\ \A x \in Lignes : /\ tache[x].etat \in {"non", "session", "court", "fini", "erreur", "annule"}
                       /\ tache[x].local \in Locaux \cup {Sans}
  /\ registre \in [Lignes -> Lignes \cup {0}] /\ existe \subseteq Locaux

Init ==
  /\ page = 1
  /\ ligne = [x \in Lignes |-> Jamais]
  /\ tache = [x \in Lignes |-> SansTache]
  /\ registre = [i \in Lignes |-> 0]
  /\ existe \in SUBSET {<<n, 1>> : n \in Noms}

Ici(vue) == {x \in Lignes : ligne[x].page = page /\ ligne[x].vue = vue}
Numero == 1 + Cardinality({x \in Lignes : ligne[x].page = page})
Court(x) == tache[x].etat \in {"session", "court"}

-----------------------------------------------------------------------------
(* The page. *)

\* aLancer and planifier: the oldest lines leave first, up to PARALLELE.
Planifie(l, t) ==
  LET ici(vue) == {x \in Lignes : l[x].page = page /\ l[x].vue = vue}
      place == PARALLELE - Cardinality(ici("en-cours"))
      partent == {x \in ici("attente") : Cardinality({y \in ici("attente") : y < x}) < place}
  IN /\ ligne' = [x \in Lignes |-> IF x \in partent THEN [l[x] EXCEPT !.vue = "en-cours"] ELSE l[x]]
     /\ tache' = [x \in Lignes |-> IF x \in partent THEN [t[x] EXCEPT !.etat = "session"] ELSE t[x]]

Ajouter(x, genre, nom) ==
  /\ ligne[x].vue = "jamais" /\ \A y \in Lignes : ligne[y].vue = "jamais" => x <= y
  /\ genre = "envoi" <=> nom = "aucun"
  /\ Planifie([ligne EXCEPT ![x] = [Jamais EXCEPT !.vue = "attente", !.page = page, !.id = Numero,
                                                  !.genre = genre, !.nom = nom]], tache)
  /\ UNCHANGED <<page, registre, existe>>

\* conclure and terminer: the answer of the command classes its line, and the
\* next ones leave.
Classe(x) == [ligne[x] EXCEPT !.vue = tache[x].etat, !.dit = FALSE]
Rendue(x) == [SansTache EXCEPT !.local = tache[x].local]
Terminer_SansSuite(x) ==
  /\ x \in Ici("en-cours") /\ tache[x].etat \in {"fini", "erreur", "annule"}
  /\ ligne' = [ligne EXCEPT ![x] = Classe(x)] /\ tache' = [tache EXCEPT ![x] = Rendue(x)]
  /\ UNCHANGED <<page, registre, existe>>
Terminer(x) ==
  /\ x \in Ici("en-cours") /\ tache[x].etat \in {"fini", "erreur", "annule"}
  /\ Planifie([ligne EXCEPT ![x] = Classe(x)], [tache EXCEPT ![x] = Rendue(x)])
  /\ UNCHANGED <<page, registre, existe>>

\* retirerTransfert: a line that ended leaves the queue, by its timer or a click.
Effacer(x) ==
  /\ x \in Ici("fini") \cup Ici("erreur") \cup Ici("annule")
  /\ ligne' = [ligne EXCEPT ![x] = [Jamais EXCEPT !.vue = "partie", !.page = page]]
  /\ tache' = [tache EXCEPT ![x] = SansTache]
  /\ UNCHANGED <<page, registre, existe>>

\* annulerTransfert: a line that waits is cancelled here; for one that runs,
\* sftp_annuler raises the flag entered under its number, or says it found none.
AnnulerAttente(x) ==
  /\ x \in Ici("attente")
  /\ ligne' = [ligne EXCEPT ![x].vue = "annule"]
  /\ UNCHANGED <<page, tache, registre, existe>>
AnnulerEnCours(x) ==
  LET y == registre[ligne[x].id] IN
  /\ x \in Ici("en-cours")
  /\ ligne' = [ligne EXCEPT ![x].dit = @ \/ y # 0]
  /\ tache' = IF y = 0 THEN tache ELSE [tache EXCEPT ![y].drapeau = TRUE]
  /\ UNCHANGED <<page, registre, existe>>

\* The page is reloaded: its lines are forgotten, its numbers begin again.
Recharger ==
  /\ page <= RECHARGEMENTS_MAX /\ page' = page + 1
  /\ ligne' = [x \in Lignes |-> IF ligne[x].vue = "jamais" THEN ligne[x] ELSE [ligne[x] EXCEPT !.vue = "partie"]]
  /\ UNCHANGED <<tache, registre, existe>>

-----------------------------------------------------------------------------
(* The commands: sftp_download, sftp_upload, sftp_copier_vers. *)

\* chemin_local_libre: the first free name, by the final files only.
Libre_Premier(nom) == <<nom, 1>>
Libre(nom) == <<nom, CHOOSE n \in 1 .. NUMEROS_MAX :
                       <<nom, n>> \notin existe /\ \A m \in 1 .. n - 1 : <<nom, m>> \in existe>>

\* The session answers: the local target is chosen, the flag entered.  A folder
\* is made at once, a file takes its name when it is whole.
Inscrire(x) ==
  /\ tache[x].etat = "session"
  /\ LET local == IF ligne[x].genre = "envoi" THEN Sans ELSE Libre(ligne[x].nom) IN
     /\ Homonymes \/ local = Sans
        \/ \A y \in Lignes : tache[y].etat = "court" => tache[y].local # local
     /\ tache' = [tache EXCEPT ![x].etat = "court", ![x].local = local]
     /\ existe' = IF ligne[x].genre = "dossier" THEN existe \cup {local} ELSE existe
  /\ registre' = [registre EXCEPT ![ligne[x].id] = x]
  /\ UNCHANGED <<page, ligne>>
SansSession(x) ==
  /\ tache[x].etat = "session"
  /\ tache' = [tache EXCEPT ![x].etat = "erreur"]
  /\ UNCHANGED <<page, ligne, registre, existe>>

\* The transfer ends, cancelled only under its flag, and is taken out of the
\* registry by its number.
Retirer_Oublie(x) == UNCHANGED registre
Retirer(x) == registre' = [registre EXCEPT ![ligne[x].id] = 0]
Finir(x, issue) ==
  /\ tache[x].etat = "court" /\ (issue = "annule" => tache[x].drapeau)
  /\ tache' = [tache EXCEPT ![x].etat = issue]
  /\ existe' = IF issue = "fini" /\ ligne[x].genre = "fichier" THEN existe \cup {tache[x].local} ELSE existe
  /\ Retirer(x)
  /\ UNCHANGED <<page, ligne>>

Next ==
  \/ \E x \in Lignes :
       \/ \E genre \in {"envoi", "fichier", "dossier"}, nom \in Noms \cup {"aucun"} : Ajouter(x, genre, nom)
       \/ Terminer(x) \/ Effacer(x) \/ AnnulerAttente(x) \/ AnnulerEnCours(x)
       \/ Inscrire(x) \/ SansSession(x)
       \/ \E issue \in {"fini", "erreur", "annule"} : Finir(x, issue)
  \/ Recharger

\* The commands end (a dead session fails the calls of its channel), and the
\* page hears of it.
Equite ==
  \A x \in Lignes :
    /\ WF_vars(Terminer(x)) /\ WF_vars(Inscrire(x) \/ SansSession(x))
    /\ WF_vars(\E issue \in {"fini", "erreur", "annule"} : Finir(x, issue))
Spec == Init /\ [][Next]_vars /\ Equite

-----------------------------------------------------------------------------
(* Properties. *)

\* A place is never left empty while a line waits for one, whatever the order
\* of the ends, the cancellations and the additions; and no more places are
\* taken than there are.
AttenteJustifiee ==
  /\ Cardinality(Ici("en-cours")) <= PARALLELE
  /\ Ici("attente") # {} => Cardinality(Ici("en-cours")) = PARALLELE

\* Each line comes to its end, or to that of the page.
FileVive == \A x \in Lignes : ligne[x].vue = "attente" ~> ligne[x].vue \notin {"attente", "en-cours"}

\* The flag of a command is raised exactly when the page was told that the
\* cancellation of its line was taken: of none else's, and of no other line.
AnnulationVraie ==
  \A x \in Ici("en-cours") : ligne[x].dit <=> tache[x].drapeau

\* A number names one command at a time: what ends takes out no other's flag.
RegistreTenu ==
  /\ \A i \in Lignes : registre[i] # 0 => tache[registre[i]].etat = "court" /\ ligne[registre[i]].id = i
  /\ \A x \in Lignes : tache[x].etat = "court" => registre[ligne[x].id] = x

\* A download lands on a name that nothing had.
RienEcrase ==
  [][\A x \in Lignes : tache[x].etat = "court" /\ tache'[x].etat = "fini" /\ ligne[x].genre = "fichier"
       => tache[x].local \notin existe]_vars

\* A folder half received is taken up again: asked again, it goes where it went.
RepriseAuMemeLieu ==
  \A x, y \in Lignes :
    x < y /\ ligne[x].vue \in {"erreur", "annule"} /\ tache[x].local # Sans /\ tache[y].local # Sans
    /\ ligne[x].genre = ligne[y].genre /\ ligne[x].nom = ligne[y].nom
    /\ Cardinality(Lignes) = 2
      => tache[y].local = tache[x].local
===============================================================================
