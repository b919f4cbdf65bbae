------------------------------ MODULE Ecriture ------------------------------
(* ecrire_atomiquement, which every configuration file is written by: the   *)
(* content goes to a temporary of the same directory, is put on the disk,   *)
(* and takes the name of the target.  Two calls for one target may overlap, *)
(* a write or a rename may fail, the shell may stop anywhere, and so may    *)
(* the power, which loses what was not put on the disk.  In a directory     *)
(* others write to, one of them may have put links under guessed names.     *)
EXTENDS Integers, FiniteSets

CONSTANTS Appels,           \* the calls, each with a content of its own
          Tirages,         \* what a draw may give
          Pieges,           \* the temporary names already taken by a link
          ESSAIS_MAX,       \* draws before giving up, 64 in the code
          COUPURES_MAX

VARIABLES nom,              \* what the name is: a file's own, or a link to the target
          cible,            \* its content as read, as on the disk, its mode; Nul if missing
          temporaire,       \* by suffix, likewise; Nul when there is none
          victime,          \* the file the links lead to
          appel,            \* each call: where it is, its suffix, its draws
          coupures
vars == <<nom, cible, temporaire, victime, appel, coupures>>

Nul == [lu |-> "nul", sur |-> "nul", mode |-> "nul"]
Trou == "trou"              \* what the disk holds of a content not put on it
Actifs == {a \in Appels : appel[a].e \notin {"fini", "erreur", "mort"}}

Init == /\ nom \in {"fichier", "lien"}
        /\ cible \in [lu : {"ancien"}, sur : {"ancien"}, mode : {"0600", "0644", "0400"}] \cup {Nul}
        /\ temporaire = [s \in Tirages |-> Nul]
        /\ victime = "intacte"
        /\ appel = [a \in Appels |-> [e |-> "verifier", s |-> 0, n |-> 0]]
        /\ coupures = COUPURES_MAX

Aller(a, e) == appel' = [appel EXCEPT ![a].e = e]

(* The link is followed first; then a target in reading only is left alone. *)
Verifier(a) ==
    /\ appel[a].e = "verifier"
    /\ Aller(a, IF cible.mode = "0400" THEN "erreur" ELSE "creer")
    /\ UNCHANGED <<nom, cible, temporaire, victime, coupures>>

(* A new file and none other: a name that is taken, by a link too, is drawn *)
(* again.                                                                   *)
Neuf == [lu |-> "vide", sur |-> Trou, mode |-> "0600"]
Creer_Suit(a, s) ==
    /\ appel[a].e = "creer"
    /\ IF s \in Pieges THEN victime' = "ecrasee" /\ UNCHANGED temporaire
       ELSE temporaire' = [temporaire EXCEPT ![s] = Neuf] /\ UNCHANGED victime
    /\ appel' = [appel EXCEPT ![a] = [e |-> "ecrire", s |-> s, n |-> 0]]
    /\ UNCHANGED <<nom, cible, coupures>>
Creer(a, s) ==
    /\ appel[a].e = "creer"
    /\ IF s \in Pieges \/ temporaire[s] # Nul
       THEN /\ appel' = [appel EXCEPT ![a].n = @ + 1,
                            ![a].e = IF appel[a].n + 1 = ESSAIS_MAX THEN "erreur" ELSE "creer"]
            /\ UNCHANGED temporaire
       ELSE /\ temporaire' = [temporaire EXCEPT ![s] = Neuf]
            /\ appel' = [appel EXCEPT ![a] = [e |-> "ecrire", s |-> s, n |-> 0]]
    /\ UNCHANGED <<nom, cible, victime, coupures>>

(* The content in two pieces; a refusal (a full disk) removes the temporary.*)
Ecrire(a) ==
    LET s == appel[a].s
        t == temporaire[s]
    IN
    /\ appel[a].e = "ecrire"
    /\ \/ /\ temporaire' = [temporaire EXCEPT ![s].lu = IF t.lu = "vide" THEN "moitie" ELSE a]
          /\ Aller(a, IF t.lu = "vide" THEN "ecrire" ELSE "synchroniser")
       \/ /\ temporaire' = [temporaire EXCEPT ![s] = Nul]
          /\ Aller(a, "erreur")
    /\ UNCHANGED <<nom, cible, victime, coupures>>
Synchroniser_Pas(a) ==
    /\ appel[a].e = "synchroniser" /\ Aller(a, "renommer")
    /\ UNCHANGED <<nom, cible, temporaire, victime, coupures>>
Synchroniser(a) ==
    LET s == appel[a].s IN
    /\ appel[a].e = "synchroniser"
    /\ \/ temporaire' = [temporaire EXCEPT ![s].sur = temporaire[s].lu] /\ Aller(a, "renommer")
       \/ temporaire' = [temporaire EXCEPT ![s] = Nul] /\ Aller(a, "erreur")
    /\ UNCHANGED <<nom, cible, victime, coupures>>

(* A slip: the temporary takes the name of the link.                       *)
Renommer_Lien(a) ==
    LET s == appel[a].s IN
    /\ appel[a].e = "renommer"
    /\ nom' = "fichier" /\ cible' = temporaire[s]
    /\ temporaire' = [temporaire EXCEPT ![s] = Nul] /\ Aller(a, "restreindre")
    /\ UNCHANGED <<victime, coupures>>

(* The temporary takes the name the link led to; where nothing was there to *)
(* resolve the link to, it takes the name of the link itself.               *)
Renommer(a) ==
    LET s == appel[a].s IN
    /\ appel[a].e = "renommer"
    /\ \/ /\ cible' = temporaire[s] /\ Aller(a, "restreindre")
          /\ nom' = IF cible = Nul THEN "fichier" ELSE nom
       \/ UNCHANGED <<nom, cible>> /\ Aller(a, "erreur")
    /\ temporaire' = [temporaire EXCEPT ![s] = Nul]
    /\ UNCHANGED <<victime, coupures>>
Restreindre(a) ==
    /\ appel[a].e = "restreindre"
    /\ cible' = [cible EXCEPT !.mode = "0600"] /\ Aller(a, "fini")
    /\ UNCHANGED <<nom, temporaire, victime, coupures>>

(* The shell stops; with the power, what is read again is what was put on   *)
(* the disk, or, as the system happened to write it back, what was read.    *)
Arret(courant) ==
    /\ coupures > 0 /\ Actifs # {}
    /\ coupures' = coupures - 1
    /\ appel' = [a \in Appels |-> IF a \in Actifs THEN [appel[a] EXCEPT !.e = "mort"] ELSE appel[a]]
    /\ IF ~courant THEN UNCHANGED <<cible, temporaire>>
       ELSE \E garde \in BOOLEAN :
              LET Reste(f) == IF garde \/ f = Nul THEN f ELSE [f EXCEPT !.lu = f.sur] IN
              /\ cible' = Reste(cible)
              /\ temporaire' = [s \in Tirages |-> Reste(temporaire[s])]
    /\ UNCHANGED <<nom, victime>>

Next == \/ \E a \in Appels : \/ Verifier(a) \/ \E s \in Tirages : Creer(a, s)
                             \/ Ecrire(a) \/ Synchroniser(a) \/ Renommer(a) \/ Restreindre(a)
        \/ \E courant \in BOOLEAN : Arret(courant)
Spec == Init /\ [][Next]_vars
-----------------------------------------------------------------------------
TypeOK == cible.lu \in {"nul", "ancien", "vide", "moitie", Trou} \cup Appels

\* Whoever reads the target, at any moment and after any stop, reads the old
\* content (or, where there was none, finds none) or the whole of one call's; the
\* file of another account a link leads to is not written, a target in reading
\* only stays as it is, and a content is never under a name others may read but
\* the one it had.
FichierEntier ==
    /\ cible.lu \in {"nul", "ancien"} \cup Appels
    /\ victime = "intacte"
    /\ cible.mode = "0400" => cible.lu = "ancien"
    /\ \A s \in Tirages : temporaire[s].mode \in {"nul", "0600"}

\* A link through which a file of the core is written stays a link as long as it
\* leads to a file. One that leads nowhere yet does not: `canonicalize` has
\* nothing to resolve it to, and the file takes its place.
LienGarde == [][nom' = nom \/ cible = Nul]_vars

\* A call that ended leaves no temporary behind: only a stop does. One that
\* wrote has written, whatever stopped since: the content is its own or that of
\* a call like it, and a file that is there never goes missing.
RienNeTraine ==
    /\ \A s \in Tirages : temporaire[s] # Nul =>
          \E a \in Appels : appel[a].s = s /\ appel[a].e \notin {"fini", "erreur"}
    /\ (\E a \in Appels : appel[a].e \in {"restreindre", "fini"}) => cible.lu \in Appels
=============================================================================
