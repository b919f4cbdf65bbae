------------------------------ MODULE Secrets ------------------------------

(* The passwords kept in the system's keyring. An entry is named after the  *)
(* account, user@host:port, never after the host of the list: several hosts *)
(* share one, and an edit or a removal has to move it or to forget it        *)
(* without taking it from another.  The files and the keyring are read and  *)
(* written one after the other, on a thread of each command; the keyring    *)
(* may refuse any access, a list of the hosts may not be readable, and the  *)
(* shell may stop between two of them.  The password an account is first    *)
(* given is named after that account.                                       *)
EXTENDS Integers, FiniteSets

CONSTANTS Alias,            \* the hosts of the SSH configuration
          Inclus,           \* those of an included file, which cannot be edited
          Bureaux,          \* the desktops
          ComptesSsh, ComptesBureau,
          Depart,           \* the account of each host and desktop at the start
          Fils,             \* the commands that may run at once
          GESTES_MAX, COMMANDES_MAX, PANNES_MAX, ACCIDENTS_MAX

Comptes == ComptesSsh \cup ComptesBureau
Absent == "absent"
Aucun == "aucun"

VARIABLES compte,           \* the account of each host and desktop, Absent once removed
          trousseau,        \* the password of each account
          fil,              \* each command: its request, where it is, what it read
          auteur,           \* history: who last wrote the keyring, the user or the core
          reste
vars == <<compte, trousseau, fil, auteur, reste>>

(* ancien: the account as the command read it, Absent if it could not.       *)
(* Histories: quitte, the account at the start; avait, occupe, whether it,   *)
(* and the one it goes to, held a password then; trouble, whether the user   *)
(* memorised or forgot one meanwhile; panne, something was refused; aveugle, *)
(* what was refused is a list of the hosts, or a part of it.                 *)
Vide == [x \in {} |-> Absent]
Repos == [e |-> "repos", genre |-> "", nom |-> "", vers |-> Absent, ancien |-> Absent,
          lu |-> Vide, secret |-> Aucun, quitte |-> Absent, avait |-> FALSE,
          occupe |-> FALSE, trouble |-> FALSE, panne |-> FALSE, aveugle |-> FALSE]
Finis == {"repos", "ok", "erreur", "coupe"}
Utilise(qui, c) == \E x \in DOMAIN qui : qui[x] = c
Autres(qui, nom) == [x \in DOMAIN qui \ {nom} |-> qui[x]]
Liste(nom) == [x \in IF nom \in Alias THEN Alias ELSE Bureaux |-> compte[x]]

(* The configuration that cannot be read is taken for an empty one, and an   *)
(* included file that cannot be read is skipped.                             *)
Partielles(nom) ==
    IF nom \notin Alias THEN {}
    ELSE {[x \in Alias |-> Absent], [x \in Alias |-> IF x \in Inclus THEN Absent ELSE compte[x]]}

Init == /\ compte = Depart
        /\ trousseau = [c \in Comptes |-> Aucun]
        /\ fil = [f \in Fils |-> Repos]
        /\ auteur = "nul"
        /\ reste = [gestes |-> GESTES_MAX, commandes |-> COMMANDES_MAX, pannes |-> PANNES_MAX,
                    accidents |-> ACCIDENTS_MAX]

Moins(k) == reste[k] > 0 /\ reste' = [reste EXCEPT ![k] = @ - 1]
Aller(f, e) == fil' = [fil EXCEPT ![f].e = e]
Repondre(f, e) == fil' = [fil EXCEPT ![f] = [@ EXCEPT !.e = e, !.secret = Aucun, !.lu = Vide]]

(* The keyring or a file refuses: the command goes on to `e`.               *)
Refus(f, e) == /\ Moins("pannes")
               /\ fil' = [fil EXCEPT ![f] = [@ EXCEPT !.e = e, !.panne = TRUE]]
               /\ UNCHANGED <<compte, trousseau, auteur>>
Garder == UNCHANGED <<compte, trousseau, auteur, reste>>

(* password_save, password_forget: at a connection, or from a form.         *)
Troubler == fil' = [f \in Fils |-> [fil[f] EXCEPT !.trouble = fil[f].e # "repos"]]
Memoriser(c) ==
    /\ Moins("gestes") /\ trousseau' = [trousseau EXCEPT ![c] = c] /\ auteur' = "page"
    /\ Troubler /\ UNCHANGED compte
OublierCompte(c) ==
    /\ Moins("gestes") /\ trousseau' = [trousseau EXCEPT ![c] = Aucun] /\ auteur' = "page"
    /\ Troubler /\ UNCHANGED compte

(* A command starts, and reads the account before it changes anything (the  *)
(* page knows the one of a desktop it edits): what cannot be read is as if   *)
(* nothing had been there.                                                   *)
Lancer(f, genre, nom, vers) == \E aveugle \in BOOLEAN :
    /\ fil[f].e \in Finis /\ reste.commandes > 0
    /\ aveugle => reste.pannes > 0 /\ (nom \in Alias \/ genre = "supprimer")
    /\ reste' = [reste EXCEPT !.commandes = @ - 1, !.pannes = IF aveugle THEN @ - 1 ELSE @]
    /\ fil' = [fil EXCEPT ![f] = [Repos EXCEPT !.e = "ecrire", !.genre = genre, !.nom = nom,
                 !.vers = vers, !.ancien = IF aveugle THEN Absent ELSE compte[nom],
                 !.quitte = compte[nom], !.panne = aveugle, !.aveugle = aveugle,
                 !.avait = compte[nom] # Absent /\ trousseau[compte[nom]] # Aucun,
                 !.occupe = vers # Absent /\ trousseau[vers] # Aucun]]
    /\ UNCHANGED <<compte, trousseau, auteur>>

(* The file first: nothing of the keyring is touched if it cannot be        *)
(* written, or does not hold the host.                                      *)
Ecrire(f) ==
    LET nom == fil[f].nom IN
    /\ fil[f].e = "ecrire"
    /\ \/ /\ nom \in Inclus \/ (compte[nom] = Absent /\ nom \in Alias)
          /\ Repondre(f, "erreur") /\ Garder
       \/ /\ nom \notin Inclus /\ (compte[nom] # Absent \/ nom \in Bureaux)
          /\ compte' = [compte EXCEPT ![nom] = fil[f].vers]
          /\ Aller(f, "relire") /\ UNCHANGED <<trousseau, auteur, reste>>
       \/ Refus(f, "erreur")

(* What the list says now: who still uses the account, where the host is.   *)
Suite_Jumeau(f, lu) ==
    IF fil[f].ancien = Absent THEN "ok"
    ELSE IF fil[f].genre = "supprimer" THEN "oublier"
    ELSE IF lu[fil[f].nom] \in {fil[f].ancien, Absent} THEN "ok" ELSE "charger"
Suite(f, lu) ==
    LET a == fil[f].ancien
        nom == fil[f].nom
    IN  IF a = Absent THEN "ok"
        ELSE IF fil[f].genre = "supprimer"
             THEN IF Utilise(Autres(lu, nom), a) THEN "ok" ELSE "oublier"
        ELSE IF lu[nom] \in {a, Absent} THEN "ok" ELSE "charger"
Decider(f, lu, aveugle) ==
    LET e == Suite(f, lu) IN
    fil' = [fil EXCEPT ![f] = [@ EXCEPT !.e = e, !.lu = IF e = "ok" THEN Vide ELSE lu,
                                 !.panne = @ \/ aveugle, !.aveugle = @ \/ aveugle]]
Relire(f) ==
    /\ fil[f].e = "relire"
    /\ \/ Decider(f, Liste(fil[f].nom), FALSE) /\ Garder
       \/ /\ fil[f].ancien # Absent /\ Moins("pannes")
          /\ \E lu \in Partielles(fil[f].nom) : Decider(f, lu, TRUE)
          /\ UNCHANGED <<compte, trousseau, auteur>>

(* The password to move. For a host, a keyring that does not answer is an   *)
(* error; for a desktop (rdp_password_move), it is as if there were none.   *)
Charger(f) ==
    LET s == trousseau[fil[f].ancien] IN
    /\ fil[f].e = "charger"
    /\ \/ s = Aucun /\ Repondre(f, "ok") /\ Garder
       \/ /\ s # Aucun /\ Garder
          /\ fil' = [fil EXCEPT ![f] = [@ EXCEPT !.secret = s,
                        !.e = IF fil[f].nom \in Alias THEN "viser" ELSE "sauver"]]
       \/ Refus(f, IF fil[f].nom \in Alias THEN "erreur" ELSE "ok")

(* plan_deplacement: the place is free, or what is there stays.             *)
Nouveau(f) == fil[f].lu[fil[f].nom]
Viser_Toujours(f) ==
    /\ fil[f].e = "viser" /\ Aller(f, "sauver") /\ Garder
Viser(f) ==
    /\ fil[f].e = "viser"
    /\ \/ trousseau[Nouveau(f)] # Aucun /\ Repondre(f, "ok") /\ Garder
       \/ trousseau[Nouveau(f)] = Aucun /\ Aller(f, "sauver") /\ Garder
       \/ Refus(f, "erreur")
PartageDit(f) == Utilise(IF fil[f].nom \in Alias THEN Autres(fil[f].lu, fil[f].nom)
                         ELSE Liste(fil[f].nom), fil[f].ancien)
Sauver_Copie(f) ==
    /\ fil[f].e = "sauver" /\ Repondre(f, "ok")
    /\ trousseau' = [trousseau EXCEPT ![Nouveau(f)] = fil[f].secret] /\ auteur' = "coeur"
    /\ UNCHANGED <<compte, reste>>
Sauver_Apres(f) ==
    /\ fil[f].e = "sauver"
    /\ IF PartageDit(f) THEN Repondre(f, "ok") ELSE Aller(f, "oublier")
    /\ Garder
Sauver(f) ==
    /\ fil[f].e = "sauver"
    /\ \/ /\ trousseau' = [trousseau EXCEPT ![Nouveau(f)] = fil[f].secret]
          /\ auteur' = "coeur"
          /\ \/ /\ IF PartageDit(f) THEN Repondre(f, "ok") ELSE Aller(f, "oublier")
                /\ UNCHANGED reste
             \/ fil[f].nom \in Bureaux /\ Moins("pannes") /\ Aller(f, "oublier")
          /\ UNCHANGED compte
       \/ Refus(f, "erreur")

(* The last step: a refusal here is only written in the log.                *)
Oublier(f) ==
    /\ fil[f].e = "oublier"
    /\ \/ /\ trousseau' = [trousseau EXCEPT ![fil[f].ancien] = Aucun] /\ auteur' = "coeur"
          /\ Repondre(f, "ok") /\ UNCHANGED <<compte, reste>>
       \/ Refus(f, IF fil[f].genre = "modifier" /\ fil[f].nom \in Bureaux THEN "erreur" ELSE "ok")

(* The form of a desktop with a password typed: the page itself saves it,   *)
(* and forgets the old one.                                                 *)
Saisir(f) ==
    /\ fil[f].e = "relire" /\ fil[f].genre = "modifier" /\ fil[f].nom \in Bureaux
    /\ fil[f].ancien \notin {Absent, fil[f].vers}
    /\ Moins("gestes")
    /\ trousseau' = [trousseau EXCEPT ![fil[f].vers] = fil[f].vers]
    /\ auteur' = "page"
    /\ Aller(f, "oublier") /\ UNCHANGED compte

(* The shell stops: the files and the keyring stay as they are.             *)
Accident ==
    /\ \E f \in Fils : fil[f].e \notin Finis
    /\ Moins("accidents")
    /\ fil' = [f \in Fils |-> IF fil[f].e \in Finis THEN fil[f]
                              ELSE [fil[f] EXCEPT !.e = "coupe", !.secret = Aucun,
                                                  !.lu = Vide]]
    /\ UNCHANGED <<compte, trousseau, auteur>>

Next == \/ \E c \in Comptes : Memoriser(c) \/ OublierCompte(c)
        \/ \E f \in Fils :
              \/ \E a \in Alias : \/ Lancer(f, "supprimer", a, Absent)
                                  \/ \E c \in ComptesSsh : Lancer(f, "modifier", a, c)
              \/ \E b \in Bureaux : \/ Lancer(f, "supprimer", b, Absent)
                                    \/ \E c \in ComptesBureau : Lancer(f, "modifier", b, c)
              \/ Ecrire(f) \/ Relire(f) \/ Charger(f) \/ Viser(f) \/ Sauver(f) \/ Oublier(f)
              \/ Saisir(f)
        \/ Accident
Spec == Init /\ [][Next]_vars
-----------------------------------------------------------------------------
TypeOK == /\ compte \in [Alias \cup Bureaux -> Comptes \cup {Absent}]
          /\ trousseau \in [Comptes -> Comptes \cup {Aucun}]

\* What the core itself does to the keyring takes nothing from a host that
\* was not edited: an entry goes only when no host of the list names it any
\* more, or is not seen to by a command whose second reading of the list failed,
\* in which case it is the entry that command leaves and no other; and another
\* password never replaces one that was there. It holds of the hosts, whatever
\* the keyring refuses and wherever the shell stops; it does not of the desktops
\* (rdp_password_move writes over the entry of the desktop it comes to, and the
\* form with a password typed forgets the entry of a twin), nor of two commands
\* at once, nor of a password memorised while a command is between its reading
\* and its writing.
OublieSansVoir(c) == \E f \in Fils : fil[f].aveugle /\ fil[f].e = "oublier" /\ fil[f].ancien = c
Gardes(C) ==
    auteur' = "coeur" /\ (\A f \in Fils : ~fil[f].trouble) => \A c \in C :
        \/ trousseau'[c] = trousseau[c]
        \/ IF trousseau'[c] = Aucun THEN ~Utilise(compte, c) \/ OublieSansVoir(c)
           ELSE trousseau[c] = Aucun
HotesGardes == [][Gardes(ComptesSsh)]_vars
BureauxGardes == [][Gardes(ComptesBureau)]_vars

\* A password that was memorised when a host was edited is never nowhere,
\* even after a refusal or a stop: it is under the account the host had or there
\* is one under the new. And an edit that answers it succeeded leaves one under
\* the new account, unless the list of the hosts could not be read, before the
\* edit or after it: the password then stays where it was (modifier_hote answers
\* Ok without moving it), or has moved where it was asked to.
Suivi(S) == \A f \in Fils :
    /\ fil[f].nom \in S /\ fil[f].genre = "modifier" /\ fil[f].avait /\ ~fil[f].trouble
    => /\ trousseau[fil[f].quitte] # Aucun \/ trousseau[fil[f].vers] # Aucun
       /\ fil[f].e = "ok" /\ compte[fil[f].nom] = fil[f].vers /\ ~fil[f].aveugle
          => trousseau[fil[f].vers] # Aucun
SecretSuivi == Suivi(Alias)
SuiviBureaux == Suivi(Bureaux)

\* A removal that nothing refused leaves no password of an account that no
\* host names; neither does a move, unless the place was taken.
SansOrphelin == \A f \in Fils :
    fil[f].e = "ok" /\ ~fil[f].panne /\ ~fil[f].trouble /\ fil[f].ancien # Absent =>
        \/ trousseau[fil[f].ancien] = Aucun
        \/ Utilise(compte, fil[f].ancien)
        \/ fil[f].genre = "modifier" /\ fil[f].occupe
=============================================================================
