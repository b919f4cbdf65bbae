-------------------------------- MODULE Cles ---------------------------------
(***************************************************************************)
(* The SSH keys of ~/.ssh: making a pair, listing, and installing a public   *)
(* line in the authorized_keys of a server (crates/avash/src/keys.rs,        *)
(* commands/cles.rs, web/cles.ts).                                           *)
(*                                                                         *)
(* A name is a row of its parts, so that a.pub is <<"a", "pub">>.  Two       *)
(* commands may be at the directory at once, those of another process among  *)
(* them; a command on a server goes on when the connection is lost.          *)
(***************************************************************************)
EXTENDS Integers, Sequences, FiniteSets
LOCAL INSTANCE SequencesExt

CONSTANTS
  Noms,        \* names a user may give a key
  DejaLa,      \* files of the directory before
  Appels,      \* commands at work at once
  Departs,     \* what authorized_keys may hold before: its lines, and whether the last is ended
  GESTES_MAX, PANNES_MAX   \* bounds: gestures; writes that fail, connections lost

ClesAssumption ==
  /\ \A n \in Noms : n \in Seq(STRING) \ {<<>>}
  /\ \A d \in Departs : d.lignes \in Seq(Seq([paire : Nat, entier : BOOLEAN])) /\ d.finie \in BOOLEAN

VARIABLES
  dossier,     \* ~/.ssh: what each file holds
  appels,      \* each command under way
  page,        \* the rows of the list
  autorises,   \* authorized_keys on the server, and what it was before
  faites,      \* history: the pairs reported made
  entieres,    \* history: the private keys once written whole
  posees,      \* history: the lines reported installed
  chevauche,   \* history: two commands of a kind have been under way at once
  gestes, pannes
vars == <<dossier, appels, page, autorises, faites, entieres, posees, chevauche, gestes, pannes>>

-----------------------------------------------------------------------------
Pub(n) == Append(n, "pub")
Fichiers == Noms \cup {Pub(n) : n \in Noms}
Vide == [genre |-> "", paire |-> 0, entier |-> FALSE]
Existe(n) == dossier[n].genre # ""
Fichier(genre, paire, entier) == [genre |-> genre, paire |-> paire, entier |-> entier]
Ligne(p, entier) == [paire |-> p, entier |-> entier]
\* A call: of this page, or of another process; its connection lost or not.
Libre == [op |-> "libre", etape |-> "", nom |-> <<>>, ligne |-> Ligne(0, FALSE), paire |-> 0, lu |-> {}, ici |-> TRUE, coupe |-> FALSE]

Lister == [Libre EXCEPT !.op = "lister", !.etape = "lire"]

\* list_keys: the public files whose private one is there, with the line they hold.
Listees == {[nom |-> n, ligne |-> Ligne(dossier[Pub(n)].paire, dossier[Pub(n)].entier)] :
            n \in {x \in Noms : Existe(x) /\ Existe(Pub(x))}}

Init ==
  /\ dossier = [n \in Fichiers |-> IF n \in DOMAIN DejaLa THEN DejaLa[n] ELSE Vide]
  /\ appels = [a \in Appels |-> Libre]
  /\ page = <<>>
  /\ \E d \in Departs : autorises = [lignes |-> d.lignes, finie |-> d.finie, avant |-> d]
  /\ faites = {} /\ entieres = {} /\ posees = {} /\ chevauche = {} /\ gestes = 0 /\ pannes = 0

Panne(oui) == IF oui THEN pannes < PANNES_MAX /\ pannes' = pannes + 1 ELSE UNCHANGED pannes
EnCours(op) == {a \in Appels : appels[a].op = op}
\* The calls the page waits for, the button of their form off.
Attendus(op) == {a \in EnCours(op) : appels[a].ici /\ ~appels[a].coupe}
Commencer(a, r) ==
  /\ appels[a].op = "libre"
  /\ gestes < GESTES_MAX /\ gestes' = gestes + 1
  /\ appels' = [appels EXCEPT ![a] = r]
  /\ chevauche' = IF r.op = "libre" \/ EnCours(r.op) = {} THEN chevauche ELSE chevauche \cup {r.op}

-----------------------------------------------------------------------------
(* Making a pair.                                                          *)

\* generate, up to the look at both names; the pair is drawn.
Generer(a, n, ici) ==
  /\ ici => Attendus("generer") = {}
  /\ Commencer(a, IF Existe(n) \/ Existe(Pub(n)) THEN Libre
                  ELSE [Libre EXCEPT !.op = "generer", !.etape = "creer", !.nom = n, !.paire = gestes + 1, !.ici = ici])
  /\ UNCHANGED <<dossier, page, autorises, faites, entieres, posees, pannes>>

\* ecrire_prive: create_new, refused when the name was taken in between.
Creer(a) ==
  LET c == appels[a] IN
  /\ c.op = "generer" /\ c.etape = "creer"
  /\ appels' = [appels EXCEPT ![a] = IF Existe(c.nom) THEN Libre ELSE [c EXCEPT !.etape = "ecrire"]]
  /\ dossier' = IF Existe(c.nom) THEN dossier ELSE [dossier EXCEPT ![c.nom] = Fichier("privee", c.paire, FALSE)]
  /\ UNCHANGED <<page, autorises, faites, entieres, posees, chevauche, gestes, pannes>>

\* Its content, which may not all be written; over what another has put there, it is a
\* mixture of both.
Ecrire(a) ==
  LET c == appels[a]
      sien == dossier[c.nom].paire = c.paire
  IN
  /\ c.etape = "ecrire"
  /\ \E bon \in BOOLEAN :
       /\ Panne(~bon)
       /\ appels' = [appels EXCEPT ![a] = IF bon THEN [c EXCEPT !.etape = "publier"] ELSE Libre]
       /\ dossier' = IF sien THEN [dossier EXCEPT ![c.nom].entier = bon] ELSE
                     IF bon THEN [dossier EXCEPT ![c.nom] = Fichier("melange", c.paire, FALSE)] ELSE dossier
       /\ entieres' = IF bon /\ sien THEN entieres \cup {<<c.nom, c.paire>>} ELSE entieres
  /\ UNCHANGED <<page, autorises, faites, posees, chevauche, gestes>>

\* fs::write of the public file, whatever is there; it may stop anywhere.  The page that
\* asked for the pair asks for the list.
Publier(a) ==
  LET c == appels[a]
      liste(bon) == bon /\ c.ici
  IN
  /\ c.etape = "publier"
  /\ \E bon \in BOOLEAN :
       /\ Panne(~bon)
       /\ dossier' \in {[dossier EXCEPT ![Pub(c.nom)] = Fichier("publique", c.paire, bon)]}
                         \cup (IF bon THEN {} ELSE {dossier})
       /\ faites' = IF bon THEN faites \cup {[nom |-> c.nom, paire |-> c.paire]} ELSE faites
       /\ appels' = [appels EXCEPT ![a] = IF liste(bon) THEN Lister ELSE Libre]
       /\ page' = IF liste(bon) THEN <<>> ELSE page
       /\ chevauche' = IF liste(bon) /\ EnCours("lister") # {} THEN chevauche \cup {"lister"} ELSE chevauche
  /\ UNCHANGED <<autorises, entieres, posees, gestes>>

-----------------------------------------------------------------------------
(* The list.                                                               *)

\* keysOpen, keysRefresh: emptied at once, filled when the answer comes.
Rafraichir(a) ==
  /\ Commencer(a, Lister)
  /\ page' = <<>>
  /\ UNCHANGED <<dossier, autorises, faites, entieres, posees, pannes>>
LireListe(a) ==
  /\ appels[a].etape = "lire"
  /\ appels' = [appels EXCEPT ![a].etape = "remplir", ![a].lu = Listees]
  /\ UNCHANGED <<dossier, page, autorises, faites, entieres, posees, chevauche, gestes, pannes>>
Remplir(a) ==
  /\ appels[a].etape = "remplir"
  /\ page' = page \o SetToSeq(appels[a].lu)
  /\ appels' = [appels EXCEPT ![a] = Libre]
  /\ UNCHANGED <<dossier, autorises, faites, entieres, posees, chevauche, gestes, pannes>>

-----------------------------------------------------------------------------
(* Installing a line.                                                      *)

\* deploySubmit, key_deploy: a line of the list, which deploy_command accepts.
Deployer(a, i) ==
  /\ i \in DOMAIN page /\ Attendus("deployer") = {}
  /\ Commencer(a, [Libre EXCEPT !.op = "deployer", !.etape = "chercher", !.ligne = page[i].ligne])
  /\ UNCHANGED <<dossier, page, autorises, faites, entieres, posees, pannes>>

\* The connection is lost: the page has its error and its button back, the shell of the server goes on.
Couper(a) ==
  /\ appels[a].op = "deployer" /\ ~appels[a].coupe /\ Panne(TRUE)
  /\ appels' = [appels EXCEPT ![a].coupe = TRUE]
  /\ UNCHANGED <<dossier, page, autorises, faites, entieres, posees, chevauche, gestes>>

\* interpret_deploy: what the page is told when it still listens.
Dire(c) == posees' = IF c.coupe THEN posees ELSE posees \cup {c.ligne}

\* grep -qxF: a whole line.
Chercher(a) ==
  LET c == appels[a]
      la == <<c.ligne>> \in ToSet(autorises.lignes)
  IN
  /\ c.etape = "chercher"
  /\ appels' = [appels EXCEPT ![a] = IF la THEN Libre ELSE [c EXCEPT !.etape = "ajouter"]]
  /\ IF la THEN Dire(c) ELSE UNCHANGED posees
  /\ UNCHANGED <<dossier, page, autorises, faites, entieres, chevauche, gestes, pannes>>

\* printf >>: after the last byte, be the last line ended or not; or the file refuses.
Ajouter(a) ==
  LET c == appels[a]
      L == autorises.lignes
  IN
  /\ c.etape = "ajouter"
  /\ appels' = [appels EXCEPT ![a] = Libre]
  /\ \/ /\ autorises' = [autorises EXCEPT !.finie = TRUE,
                         !.lignes = IF L = <<>> \/ autorises.finie THEN Append(L, <<c.ligne>>)
                                    ELSE Append(Front(L), Append(Last(L), c.ligne))]
        /\ Dire(c) /\ UNCHANGED pannes
     \/ Panne(TRUE) /\ UNCHANGED <<autorises, posees>>
  /\ UNCHANGED <<dossier, page, faites, entieres, chevauche, gestes>>

Next == \E a \in Appels :
  \/ \E n \in Noms, ici \in BOOLEAN : Generer(a, n, ici)
  \/ Creer(a) \/ Ecrire(a) \/ Publier(a) \/ Rafraichir(a) \/ LireListe(a) \/ Remplir(a)
  \/ (\E i \in DOMAIN page : Deployer(a, i)) \/ Couper(a) \/ Chercher(a) \/ Ajouter(a)

Spec == Init /\ [][Next]_vars

-----------------------------------------------------------------------------
(* Properties.                                                             *)

TypeOK ==
  /\ \A n \in Fichiers : dossier[n].genre \in {"", "privee", "publique", "melange"}
  /\ autorises.finie \in BOOLEAN /\ pannes \in 0 .. PANNES_MAX

\* The names given of which one is the public file of the other.
Croises == {n \in Noms : Pub(n) \in Noms}

\* A pair reported made is there, both files whole and of one pair, and is listed so,
\* whatever other commands ran at once (create_new).  Names of the form a and a.pub apart.
PaireFaite ==
  \A f \in faites : f.nom \notin Croises /\ (\A n \in Croises : f.nom # Pub(n)) =>
    /\ dossier[f.nom] = Fichier("privee", f.paire, TRUE)
    /\ dossier[Pub(f.nom)] = Fichier("publique", f.paire, TRUE)

\* A pair that was refused leaves no file, and what a failure leaves takes no listed name
\* from another: a name is made once.
UneFois == \A f, g \in faites : f.nom = g.nom => f = g

\* A whole private key goes only as the public file of a name it is crossed with.
CleGardee == \A e \in entieres :
  dossier[e[1]] = Fichier("privee", e[2], TRUE) \/ \E n \in Croises : e[1] = Pub(n)

\* What the directory held stays, a public file alone among it (the look at both names).
PresentsGardes == \A n \in DOMAIN DejaLa : dossier[n] = DejaLa[n]

\* A line reported installed is one the server accepts, and those that were there stay
\* there, in their order, where the file ended with a line (deploy_command).
Acceptees == {autorises.lignes[i][1] : i \in DOMAIN autorises.lignes}
Installee == autorises.avant.finie => posees \subseteq Acceptees /\ IsPrefix(autorises.avant.lignes, autorises.lignes)

\* Launched again once the other is over, even after a lost connection, an installation
\* adds nothing.
SansRedite == "deployer" \notin chevauche =>
  \A i, j \in DOMAIN autorises.lignes : autorises.lignes[i] = autorises.lignes[j] => i = j

\* A list read alone names each key once.
ListeUne == "lister" \notin chevauche => \A i, j \in DOMAIN page : page[i].nom = page[j].nom => i = j

ClesTenues == TypeOK /\ PaireFaite /\ UneFois /\ CleGardee /\ PresentsGardes /\ Installee /\ SansRedite /\ ListeUne

-----------------------------------------------------------------------------
(* Statements of the source that the code does not keep.                   *)

\* A race with another process never overwrites a key: one of the name a.pub is.
JamaisEcrasee == \A e \in entieres : dossier[e[1]] = Fichier("privee", e[2], TRUE)

\* The line of a listed key is complete: not when the disk refused its end.
LigneComplete == \A i \in DOMAIN page : page[i].ligne.entier

\* An installation launched again duplicates nothing: the first may still be between its
\* look and its write, its connection lost.
RienDuplique == \A i, j \in DOMAIN autorises.lignes : autorises.lignes[i] = autorises.lignes[j] => i = j

\* A line reported installed is accepted: glued to a last line without its end, it is not.
PoseeAcceptee == posees \subseteq Acceptees
===============================================================================
